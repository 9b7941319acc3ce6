------------------------------- MODULE Publish -------------------------------
(***************************************************************************)
(* POST /api/config/publish for one app: several requests, possibly on     *)
(* several server instances, over one PostgreSQL database and one S3       *)
(* bucket, while administrators edit flags (FlagLifecycle).                *)
(*                                                                         *)
(* One action per database or S3 call of the handler, with an action for   *)
(* each way the call fails.  The bytes a request uploads carry its own     *)
(* published_at, so the artifact (and the signature over it) is identified *)
(* by the request that built it: live, sig and archive hold request names. *)
(***************************************************************************)
EXTENDS FlagLifecycle, FiniteSetsExt

CONSTANTS
  Requests,    \* publish requests, each handled once
  Genesis,     \* the request that stands for the initial config of the app
  MaxDay,      \* bound on the number of calendar days
  FaultKinds,  \* which faults happen
  MaxFaults,   \* bound on the number of faults
  Nil          \* no such S3 object, or no holder of the lock

Faults == {"db",         \* a database call throws and had no effect
           "s3",         \* an upload throws and had no effect
           "ambiguous",  \* an upload throws after it took effect
           "delete",     \* DeleteObject throws (no s3:DeleteObject, say)
           "crash"}      \* the process handling the request dies

ASSUME PublishAssumption ==
  /\ IsFiniteSet(Requests)
  /\ Genesis \in Requests
  /\ Nil \notin Requests
  /\ MaxDay \in Nat \ {0}
  /\ MaxFaults \in Nat
  /\ FaultKinds \subseteq Faults

VARIABLES
  pc,        \* where each request is
  today,     \* the date string a request computed (a day number)
  version,   \* the config_version a request allocated
  snap,      \* the flags a request's artifact contains
  at,        \* when that artifact was generated (clock)
  prev,      \* the live config a request read, to describe its changes
  stamp,     \* the `now` a request stamps flags with
  audit,     \* a request's audit row: "none", "reserved" or "final"
  lock,      \* holder of the app's advisory lock
  hasKey,    \* the app has an active signing key
  live,      \* object <app>/config.json
  sig,       \* object <app>/config.json.sig
  archive,   \* objects <app>/config-<version>.json
  day,       \* the current day
  faults     \* faults so far

reqVars == <<pc, today, version, snap, at, prev, stamp>>
dbVars  == <<audit, lock, hasKey>>
s3Vars  == <<live, sig, archive>>
envVars == <<day, faults>>
vars    == <<flagVars, reqVars, dbVars, s3Vars, envVars>>

Version == [day : Nat, n : Nat]

Content == [Keys -> {"absent", "active", "deprecated"}]

Over == {"done", "failed", "rejected", "crashed"}

PCs == {"idle", "generated", "compared", "keyed", "locked", "allocated", "reserved",
        "signed", "sigUp", "live", "archived", "finalized", "stamping",
        "undoSig", "undoRow"} \cup Over

InFlight(r) == pc[r] \notin Over \cup {"idle"}

Quiet == \A r \in Requests : ~InFlight(r)

\* Published keys: Object.keys(publishedConfig.flags).
InArtifact(r) == {k \in Keys : snap[r][k] # "absent"}

\* The audit rows in the table.
Rows == {r \in Requests : audit[r] # "none"}

\* Order of config_version strings (dates first, then the daily sequence).
Later(v, w) == v.day > w.day \/ (v.day = w.day /\ v.n > w.n)

-----------------------------------------------------------------------------
(* The app has just been created: POST /api/apps has minted a key, uploaded *)
(* the empty config and its signature as version <day 1>.1, and inserted    *)
(* its audit row.  It writes no archive object.                             *)
Init ==
  /\ FlagInit
  /\ pc = [r \in Requests |-> IF r = Genesis THEN "done" ELSE "idle"]
  /\ today = [r \in Requests |-> 1]
  /\ version = [r \in Requests |-> [day |-> 1, n |-> 1]]
  /\ snap = [r \in Requests |-> [k \in Keys |-> "absent"]]
  /\ at = [r \in Requests |-> 0]
  /\ prev = [r \in Requests |-> Nil]
  /\ stamp = [r \in Requests |-> 0]
  /\ audit = [r \in Requests |-> IF r = Genesis THEN "final" ELSE "none"]
  /\ lock = Nil
  /\ hasKey = TRUE
  /\ live = Genesis
  /\ sig = Genesis
  /\ archive = {}
  /\ day = 1
  /\ faults = 0

\* Request r is at label `from` and goes on to `to`.
Goto(r, from, to) == pc[r] = from /\ pc' = [pc EXCEPT ![r] = to]

\* A fault of one of the given kinds happens now.
Fault(kinds) ==
  /\ kinds \cap FaultKinds # {}
  /\ faults < MaxFaults
  /\ faults' = faults + 1
  /\ UNCHANGED day

-----------------------------------------------------------------------------
(* Before the try block: a failure leaves nothing to undo.                  *)

\* generateConfigFromDb and validateConfig.  Environment: without "publish" in
\* Overlap publishes follow one another; without "edit" no PUT or DELETE is
\* half done when one starts.
Generate(r) ==
  /\ Goto(r, "idle", "generated")
  /\ "publish" \in Overlap \/ Quiet
  /\ "edit" \in Overlap \/ pending = {}
  /\ snap' = [snap EXCEPT ![r] = Snapshot]
  /\ at' = [at EXCEPT ![r] = clock]
  /\ UNCHANGED <<flagVars, today, version, prev, stamp, dbVars, s3Vars, envVars>>

\* validateConfig reports a blocking error, or the app cannot be read: answered
\* before the first side effect.
Reject(r) ==
  /\ Goto(r, "generated", "rejected")
  /\ UNCHANGED <<flagVars, today, version, snap, at, prev, stamp, dbVars, s3Vars, envVars>>

\* getPublishedConfigFromS3: null when the object is missing or unreadable.
ReadPrevious(r) ==
  /\ Goto(r, "generated", "compared")
  /\ \/ prev' = [prev EXCEPT ![r] = live] /\ UNCHANGED envVars
     \/ Fault({"s3"}) /\ UNCHANGED prev
  /\ UNCHANGED <<flagVars, today, version, snap, at, stamp, dbVars, s3Vars>>

\* ensureSigningKey, then the date is read, outside the transaction below.
EnsureKey(r) ==
  /\ Goto(r, "compared", "keyed")
  /\ hasKey' = TRUE
  /\ today' = [today EXCEPT ![r] = day]
  /\ UNCHANGED <<flagVars, version, snap, at, prev, stamp, audit, lock, s3Vars, envVars>>

EnsureKeyFails(r) ==
  /\ Goto(r, "compared", "failed")
  /\ Fault({"db"})
  /\ UNCHANGED <<flagVars, today, version, snap, at, prev, stamp, dbVars, s3Vars>>

\* Slip: the advisory lock is not taken.
LockFreely(r) ==
  /\ Goto(r, "keyed", "locked")
  /\ lock' = r
  /\ UNCHANGED <<flagVars, today, version, snap, at, prev, stamp, audit, hasKey, s3Vars, envVars>>

\* pg_advisory_xact_lock(hashtext(appId)): waits for the holder to commit.
Lock(r) ==
  /\ Goto(r, "keyed", "locked")
  /\ lock = Nil
  /\ lock' = r
  /\ UNCHANGED <<flagVars, today, version, snap, at, prev, stamp, audit, hasKey, s3Vars, envVars>>

\* Slip: the maximum is handed out as it is.
NextVersionOfMax(d) ==
  [day |-> d,
   n   |-> Max({1} \cup {version[q].n : q \in {p \in Rows : version[p].day = d}})]

\* computeNextVersion over the rows of that day.
NextVersion(d) ==
  [day |-> d,
   n   |-> 1 + Max({0} \cup {version[q].n : q \in {p \in Rows : version[p].day = d}})]

ReadVersions(r) ==
  /\ Goto(r, "locked", "allocated")
  /\ version' = [version EXCEPT ![r] = NextVersion(today[r])]
  /\ UNCHANGED <<flagVars, today, snap, at, prev, stamp, dbVars, s3Vars, envVars>>

\* auditLog.create and COMMIT: the row is visible and the lock is released.
Reserve(r) ==
  /\ Goto(r, "allocated", "reserved")
  /\ audit' = [audit EXCEPT ![r] = "reserved"]
  /\ lock' = Nil
  /\ UNCHANGED <<flagVars, today, version, snap, at, prev, stamp, hasKey, s3Vars, envVars>>

\* Slip: a session-level lock, which a rollback does not release.
ReserveFailsLocked(r) ==
  /\ \E from \in {"keyed", "locked", "allocated"} : Goto(r, from, "failed")
  /\ Fault({"db"})
  /\ UNCHANGED <<flagVars, today, version, snap, at, prev, stamp, dbVars, s3Vars>>

\* The transaction aborts, or never starts: ROLLBACK releases the lock.
ReserveFails(r) ==
  /\ \E from \in {"keyed", "locked", "allocated"} : Goto(r, from, "failed")
  /\ Fault({"db"})
  /\ lock' = IF lock = r THEN Nil ELSE lock
  /\ UNCHANGED <<flagVars, today, version, snap, at, prev, stamp, audit, hasKey, s3Vars>>

-----------------------------------------------------------------------------
(* The try block: signature, config, archive, audit row.                    *)

\* signConfigDetached with the newest active key.
Sign(r) ==
  /\ Goto(r, "reserved", "signed")
  /\ hasKey
  /\ UNCHANGED <<flagVars, today, version, snap, at, prev, stamp, dbVars, s3Vars, envVars>>

\* No active key any more, or the key table cannot be read.
SignFails(r) ==
  /\ Goto(r, "reserved", "undoRow")
  /\ \/ ~hasKey /\ UNCHANGED envVars
     \/ Fault({"db"})
  /\ UNCHANGED <<flagVars, today, version, snap, at, prev, stamp, dbVars, s3Vars>>

PutSignature(r) ==
  /\ Goto(r, "signed", "sigUp")
  /\ sig' = r
  /\ UNCHANGED <<flagVars, today, version, snap, at, prev, stamp, dbVars, live, archive, envVars>>

\* signatureUploaded is still false: nothing will be deleted.
PutSignatureFails(r) ==
  /\ Goto(r, "signed", "undoRow")
  /\ \/ Fault({"s3"}) /\ UNCHANGED sig
     \/ Fault({"ambiguous"}) /\ sig' = r
  /\ UNCHANGED <<flagVars, today, version, snap, at, prev, stamp, dbVars, live, archive>>

PutConfig(r) ==
  /\ Goto(r, "sigUp", "live")
  /\ live' = r
  /\ UNCHANGED <<flagVars, today, version, snap, at, prev, stamp, dbVars, sig, archive, envVars>>

\* Slip: the catch block is not told that the signature is up.
PutConfigFailsUnmarked(r) ==
  /\ Goto(r, "sigUp", "undoRow")
  /\ Fault({"s3"})
  /\ UNCHANGED <<flagVars, today, version, snap, at, prev, stamp, dbVars, s3Vars>>

PutConfigFails(r) ==
  /\ Goto(r, "sigUp", "undoSig")
  /\ \/ Fault({"s3"}) /\ UNCHANGED live
     \/ Fault({"ambiguous"}) /\ live' = r
  /\ UNCHANGED <<flagVars, today, version, snap, at, prev, stamp, dbVars, sig, archive>>

\* The object config-<version>.json becomes r's artifact.
Archive(r) ==
  {o \in archive : o.version # version[r]} \cup {[version |-> version[r], by |-> r]}

\* Slip: configUploaded is set only after the archive, so a failed archive upload is
\* compensated although the config is live.
PutArchiveUndoing(r) ==
  \/ /\ Goto(r, "live", "archived")
     /\ archive' = Archive(r)
     /\ UNCHANGED <<flagVars, today, version, snap, at, prev, stamp, dbVars, live, sig, envVars>>
  \/ /\ Goto(r, "live", "undoSig")
     /\ Fault({"s3"})
     /\ UNCHANGED <<flagVars, today, version, snap, at, prev, stamp, dbVars, s3Vars>>

\* Best effort: a failed archive upload is logged and the publish goes on.
PutArchive(r) ==
  /\ Goto(r, "live", "archived")
  /\ \/ archive' = Archive(r) /\ UNCHANGED envVars
     \/ Fault({"s3"}) /\ UNCHANGED archive
     \/ Fault({"ambiguous"}) /\ archive' = Archive(r)
  /\ UNCHANGED <<flagVars, today, version, snap, at, prev, stamp, dbVars, live, sig>>

\* auditLog.update with the diff and the artifact size.  The row of a request
\* is deleted by nobody else, so the update finds it.
Finalize(r) ==
  /\ Goto(r, "archived", "finalized")
  /\ audit' = [audit EXCEPT ![r] = "final"]
  /\ UNCHANGED <<flagVars, today, version, snap, at, prev, stamp, lock, hasKey, s3Vars, envVars>>

\* Slip: the catch block compensates although the config is live.
FinalizeFailsUndoing(r) ==
  /\ Goto(r, "archived", "undoRow")
  /\ Fault({"db"})
  /\ UNCHANGED <<flagVars, today, version, snap, at, prev, stamp, dbVars, s3Vars>>

\* The catch block sees configUploaded, undoes nothing and rethrows.
FinalizeFails(r) ==
  /\ Goto(r, "archived", "failed")
  /\ Fault({"db"})
  /\ UNCHANGED <<flagVars, today, version, snap, at, prev, stamp, dbVars, s3Vars>>

-----------------------------------------------------------------------------
(* The catch block while config.json is not live.                           *)

\* Slip: the key of config.json is deleted instead.
UndoConfig(r) ==
  /\ Goto(r, "undoSig", "undoRow")
  /\ live' = Nil
  /\ UNCHANGED <<flagVars, today, version, snap, at, prev, stamp, dbVars, sig, archive, envVars>>

\* Delete the .sig object, whoever wrote it; a failure is only logged.
UndoSignature(r) ==
  /\ Goto(r, "undoSig", "undoRow")
  /\ \/ sig' = Nil /\ UNCHANGED envVars
     \/ Fault({"delete"}) /\ UNCHANGED sig
  /\ UNCHANGED <<flagVars, today, version, snap, at, prev, stamp, dbVars, live, archive>>

\* Delete the audit row by id; a failure is only logged.
UndoRow(r) ==
  /\ Goto(r, "undoRow", "failed")
  /\ \/ audit' = [audit EXCEPT ![r] = "none"] /\ UNCHANGED envVars
     \/ Fault({"db"}) /\ UNCHANGED audit
  /\ UNCHANGED <<flagVars, today, version, snap, at, prev, stamp, lock, hasKey, s3Vars>>

-----------------------------------------------------------------------------
(* After the try block: stamp the flags that are in the artifact.           *)

\* Without a flag in the artifact there is nothing to stamp.
RespondEmpty(r) ==
  /\ Goto(r, "finalized", "done")
  /\ InArtifact(r) = {}
  /\ UNCHANGED <<flagVars, today, version, snap, at, prev, stamp, dbVars, s3Vars, envVars>>

\* now = new Date(); the first updateMany sets lastPublishedAt.
StampLast(r) ==
  /\ Goto(r, "finalized", "stamping")
  /\ InArtifact(r) # {}
  /\ clock' = clock + 1
  /\ stamp' = [stamp EXCEPT ![r] = clock']
  /\ flags' = StampedLast(InArtifact(r), clock')
  /\ UNCHANGED <<pending, today, version, snap, at, prev, dbVars, s3Vars, envVars>>

\* The second updateMany sets firstPublishedAt where it is null; then 200.
StampFirst(r) ==
  /\ Goto(r, "stamping", "done")
  /\ flags' = StampedFirst(InArtifact(r), stamp[r])
  /\ UNCHANGED <<pending, clock, today, version, snap, at, prev, stamp, dbVars, s3Vars, envVars>>

StampFails(r) ==
  /\ \/ Goto(r, "finalized", "failed") /\ InArtifact(r) # {}
     \/ Goto(r, "stamping", "failed")
  /\ Fault({"db"})
  /\ UNCHANGED <<flagVars, today, version, snap, at, prev, stamp, dbVars, s3Vars>>

-----------------------------------------------------------------------------
(* The environment.                                                         *)

\* The process dies; its transaction, if one is open, is rolled back.
Crash(r) ==
  /\ InFlight(r)
  /\ pc' = [pc EXCEPT ![r] = "crashed"]
  /\ Fault({"crash"})
  /\ lock' = IF lock = r THEN Nil ELSE lock
  /\ UNCHANGED <<flagVars, today, version, snap, at, prev, stamp, audit, hasKey, s3Vars>>

\* PUT /api/keys/[id] deactivates the app's last active key.
DeactivateKey ==
  /\ "keys" \in Overlap
  /\ hasKey
  /\ hasKey' = FALSE
  /\ UNCHANGED <<flagVars, reqVars, audit, lock, s3Vars, envVars>>

Midnight ==
  /\ day < MaxDay
  /\ day' = day + 1
  /\ UNCHANGED <<flagVars, reqVars, dbVars, s3Vars, faults>>

\* A flag handler runs.  Environment: without "edit" in Overlap, none does while
\* a publish is in flight.
EditFlags ==
  /\ "edit" \in Overlap \/ Quiet
  /\ FlagNext
  /\ UNCHANGED <<reqVars, dbVars, s3Vars, envVars>>

\* The steps a request takes by itself.
Step(r) ==
  \/ Reject(r) \/ ReadPrevious(r) \/ EnsureKey(r) \/ EnsureKeyFails(r)
  \/ Lock(r) \/ ReadVersions(r) \/ Reserve(r) \/ ReserveFails(r)
  \/ Sign(r) \/ SignFails(r) \/ PutSignature(r) \/ PutSignatureFails(r)
  \/ PutConfig(r) \/ PutConfigFails(r) \/ PutArchive(r)
  \/ Finalize(r) \/ FinalizeFails(r) \/ UndoSignature(r) \/ UndoRow(r)
  \/ RespondEmpty(r) \/ StampLast(r) \/ StampFirst(r) \/ StampFails(r)

Next ==
  \/ \E r \in Requests : Generate(r) \/ Step(r) \/ Crash(r)
  \/ DeactivateKey \/ Midnight \/ EditFlags

Spec == Init /\ [][Next]_vars

\* The server keeps running a request it has started: every call it awaits
\* returns or throws.  Nobody has to start one.
FairSpec == Spec /\ \A r \in Requests : WF_vars(Step(r))

-----------------------------------------------------------------------------
(* Correctness.                                                             *)

TypeOK ==
  /\ FlagTypeOK
  /\ pc \in [Requests -> PCs]
  /\ today \in [Requests -> Nat]
  /\ version \in [Requests -> Version]
  /\ snap \in [Requests -> Content]
  /\ at \in [Requests -> Nat]
  /\ prev \in [Requests -> Requests \cup {Nil}]
  /\ stamp \in [Requests -> Nat]
  /\ audit \in [Requests -> {"none", "reserved", "final"}]
  /\ lock \in Requests \cup {Nil}
  /\ hasKey \in BOOLEAN
  /\ live \in Requests
  /\ sig \in Requests \cup {Nil}
  /\ archive \subseteq [version : Version, by : Requests]
  /\ day \in Nat
  /\ faults \in Nat

\* The advisory lock: no two requests ever hold the same config_version, however
\* their transactions interleave and wherever they fail (route.ts:77-78).
VersionsUnique ==
  \A q, r \in Rows : q # r => version[q] # version[r]

\* The config clients fetch keeps its audit row: no rollback releases a version
\* that is live (route.ts:115-118, 200-202).
LiveKept == live \in Rows

\* A version names one artifact among the objects in the bucket, so a fingerprint
\* is decoded against the bytes its client had (route.ts:157-161, which the
\* decoder relies on when it looks in the archive first and then at config.json).
VersionDenotesOneArtifact ==
  \A q, r \in {live} \cup {o.by : o \in archive} :
    q # r => version[q] # version[r]

\* "An immutable per-version archive": once written, an object is never replaced
\* (route.ts:157, storage.ts:106-110).
ArchiveImmutable == [][archive \subseteq archive']_vars

\* A publish that fails before its config is live leaves no audit row and no
\* signature of its own behind (route.ts:115-118, 203-233).
RolledBack ==
  \A r \in Requests : pc[r] = "failed" => r \notin Rows /\ r \notin {sig, live}

\* Once no publish is under way, config.json is paired with its own signature or
\* with none, never with that of another artifact (route.ts:126-130, 204-206).
SettledPair == Quiet => sig \in {live, Nil}

\* config_version only grows, and a newer version never carries older content
\* (docs/concepts.md:172, config-artifact-spec.md:21).
NeverRegresses ==
  [][live' # live => /\ Later(version'[live'], version[live])
                     /\ at'[live'] >= at[live]]_vars

\* The publish history never shows a config as a change from a later one or from one of the
\* same version: of two rows of which one was compared with the other's config, that one has
\* the later version, although the config is read before the day, the versions and the lock
\* and other publishes may replace it in between (route.ts:69-86, 185-198).
HistoryLooksBack ==
  \A r \in Rows : prev[r] \in Rows => Later(version[r], version[prev[r]])

\* A flag row is deleted only when clients of the live config no longer see its
\* key as an active flag (docs/concepts.md:134-140, 152-154).
DeprecatedBeforeDelete ==
  [][\A f \in FlagIds : Exists(f) /\ flags'[f] = NoFlag
                           => snap[live][flags[f].key] # "active"]_vars

\* A key that clients know as an active flag never just vanishes from the config: it is
\* served as deprecated before it is removed (docs/concepts.md:152-155).
KeysLeaveDeprecated ==
  [][\A k \in Keys : snap[live][k] = "active" => snap'[live'][k] # "absent"]_vars

\* Once no publish is under way, a flag that the live config serves as active is
\* marked as published, so that it cannot be deleted directly
\* (prisma/schema.prisma:49-52).
ServedIsPublished ==
  Quiet => \A f \in FlagIds :
             Exists(f) /\ snap[live][flags[f].key] = "active" => IsPublished(flags[f])

\* Once no publish is under way, a flag that may be deleted because it was released
\* while archived is marked deprecated in the live config: lastPublishedAt past
\* archivedAt does mean that the deprecation shipped (route.ts:237-241).
RetiredWasDeprecated ==
  Quiet => \A f \in FlagIds :
             Exists(f) /\ IsReleasedWhileArchived(flags[f])
               => snap[live][flags[f].key] = "deprecated"

\* Every request that starts is answered, or its process dies: nothing waits
\* for the advisory lock for ever (route.ts:80-81).
Answered == \A r \in Requests : InFlight(r) ~> ~InFlight(r)

-----------------------------------------------------------------------------
(* Refinement of FlagStates: the release takes effect when config.json is   *)
(* live; until the rows are stamped they are read as if they were.          *)

Stamping == \E r \in Requests : pc[r] \in {"live", "archived", "finalized", "stamping"}

StatusOf(row) ==
  CASE row = NoFlag                 -> "absent"
    [] row # NoFlag /\ row.first = 0 -> "fresh"
    [] row # NoFlag /\ row.first # 0 /\ ~Archived(row) -> "published"
    [] row # NoFlag /\ row.first # 0 /\ Archived(row) ->
         IF IsReleasedWhileArchived(row) THEN "retired" ELSE "archived"

Status ==
  [f \in FlagIds |-> LET s == StatusOf(flags[f])
                     IN  CASE Stamping /\ s = "fresh"    -> "published"
                           [] Stamping /\ s = "archived" -> "retired"
                           [] OTHER                      -> s]

Promise == INSTANCE FlagStates WITH status <- Status

\* With one activity at a time, the handlers and the publish pipeline keep the
\* lifecycle the documentation promises (docs/concepts.md:132-155).
KeepsLifecycle == Promise!Spec

=============================================================================
