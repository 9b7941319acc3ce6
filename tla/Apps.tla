-------------------------------- MODULE Apps --------------------------------
(***************************************************************************)
(* The app rows and what is stored under their identifiers: POST           *)
(* /api/apps, which inserts a row, uploads an initial config and deletes   *)
(* the row when that fails; PUT and DELETE /api/apps/[id]; and, coarsely,  *)
(* another administrator's release of an app (module Publish has its       *)
(* steps) and rotation of its key (module SigningKeys).                    *)
(*                                                                         *)
(* Objects are stored by identifier, not by row: a row that is deleted or  *)
(* renamed leaves its objects behind, and a creation or a release that is  *)
(* under way goes on writing where its config was generated for.           *)
(***************************************************************************)
EXTENDS Naturals, FiniteSets

CONSTANTS
    Creators,   \* requests to create an app; the row has its request's name
    Names,      \* identifiers
    None,       \* nothing stored, no name
    MaxVersion, \* releases of one app in a day (a bound)
    MaxKeys,    \* keys of one app (a bound)
    MaxMoves,   \* releases, rotations, renames and deletions (a bound)
    MaxFaults   \* calls that fail and processes that die (a bound)

ASSUME AppsAssumption ==
    /\ None \notin Creators \union Names
    /\ MaxVersion \in Nat /\ MaxKeys \in Nat /\ MaxMoves \in Nat
    /\ MaxFaults \in Nat

VARIABLES
    pc,      \* where each creation is
    want,    \* the identifier it asks for
    row,     \* its app row
    name,    \* the row's identifier
    key,     \* its active signing key, 0 for none
    log,     \* its audit rows
    target,  \* the identifier a creation's config was generated for
    sig, cfg,\* config.json.sig and config.json under each identifier
    release, \* the release under way
    moves, faults,
    \* History, read by the properties only:
    over,    \* two writers of an identifier have overlapped
    mixed,   \* what is stored under it was written by such or left half done
    moved,   \* the row was renamed since its config was written
    rotated, \* identifiers whose app's key was rotated since the signature
    served,  \* its creation was answered or a release of it completed
    stuck    \* the rollback of its creation failed or was never reached

rows == <<row, name, key, log>>
creation == <<pc, want, target>>
store == <<sig, cfg>>
budget == <<moves, faults>>
history == <<over, mixed, moved, rotated, served, stuck>>
vars == <<rows, creation, store, release, budget, history>>

-----------------------------------------------------------------------------
NoRelease == [at |-> "none", app |-> None, to |-> None, ver |-> 0]

Move == moves < MaxMoves /\ moves' = moves + 1
Fault == faults < MaxFaults /\ faults' = faults + 1

Present(a) == row[a] = "present"

\* @unique on identifier.
Taken(n) == \E a \in Creators : Present(a) /\ name[a] = n

Running == {"found", "inserted", "ready", "signed", "stored", "undo"}

\* The initial config, and the signature that goes with a config.
Initial(a) == [app |-> a, ver |-> 1, by |-> "creation"]
Released == [app |-> release.app, ver |-> release.ver, by |-> "release"]
Signature(doc) == [doc |-> doc, key |-> key[doc.app]]

\* The newest version in the audit rows of app a, 0 for none.
Newest(a) ==
    CHOOSE v \in 0..(MaxVersion + 1) :
        /\ \A doc \in log[a] : doc.ver <= v
        /\ v = 0 \/ \E doc \in log[a] : doc.ver = v

\* Who writes under identifier n: creations from the insertion of their row,
\* and the release under way.
Writers(n) ==
    {c \in Creators : \/ pc[c] = "inserted" /\ name[c] = n
                      \/ pc[c] \in {"ready", "signed", "stored"} /\ target[c] = n}
    \union (IF release.to = n THEN {None} ELSE {})

\* A writer starts at identifier n; a writer for app a has written its pair,
\* alone if no other release of the app came in between.
Starts(n) == over' = [over EXCEPT ![n] = Writers(n) # {}]

Completes(a, n, alone) ==
    /\ mixed' = [mixed EXCEPT ![n] = over[n] \/ ~alone]
    /\ served' = served \union {a}
    /\ moved' = IF name[a] = n THEN moved \ {a} ELSE moved

-----------------------------------------------------------------------------
(* POST /api/apps. *)

\* findUnique on the identifier.
Find(c, n) ==
    /\ pc[c] = "idle"
    /\ want' = [want EXCEPT ![c] = n]
    /\ pc' = [pc EXCEPT ![c] = IF Taken(n) THEN "refused" ELSE "found"]
    /\ UNCHANGED <<rows, target, store, release, budget, history>>

\* app.create: the unique constraint has the last word.
Insert(c) ==
    /\ pc[c] = "found"
    /\ IF Taken(want[c])
       THEN /\ pc' = [pc EXCEPT ![c] = "failed"]
            /\ UNCHANGED <<row, name, over>>
       ELSE /\ pc' = [pc EXCEPT ![c] = "inserted"]
            /\ row' = [row EXCEPT ![c] = "present"]
            /\ name' = [name EXCEPT ![c] = want[c]]
            /\ Starts(want[c])
    /\ UNCHANGED <<key, log, want, target, store, release, budget,
                   mixed, moved, rotated, served, stuck>>

\* generateConfigFromDb and ensureSigningKey: both need the row.
Prepare(c) ==
    /\ pc[c] = "inserted"
    /\ IF Present(c)
       THEN /\ pc' = [pc EXCEPT ![c] = "ready"]
            /\ target' = [target EXCEPT ![c] = name[c]]
            /\ key' = [key EXCEPT ![c] = IF @ = 0 THEN 1 ELSE @]
            /\ over' = [over EXCEPT ![name[c]] = @ \/ Writers(name[c]) # {c}]
       ELSE /\ pc' = [pc EXCEPT ![c] = "undo"]
            /\ UNCHANGED <<target, key, over>>
    /\ UNCHANGED <<row, name, log, want, store, release, budget,
                   mixed, moved, rotated, served, stuck>>

\* Slip: the generated config is signed, without the version.
PutSignatureUnversioned(c) ==
    /\ pc[c] = "ready"
    /\ IF key[c] # 0
       THEN /\ pc' = [pc EXCEPT ![c] = "signed"]
            /\ sig' = [sig EXCEPT ![target[c]] =
                          Signature([Initial(c) EXCEPT !.ver = 0])]
            /\ rotated' = rotated \ {target[c]}
       ELSE pc' = [pc EXCEPT ![c] = "undo"] /\ UNCHANGED <<sig, rotated>>
    /\ UNCHANGED <<rows, want, target, cfg, release, budget,
                   over, mixed, moved, served, stuck>>

\* signConfigDetached with the active key, and the upload of the signature.
PutSignature(c) ==
    /\ pc[c] = "ready"
    /\ IF key[c] # 0
       THEN /\ pc' = [pc EXCEPT ![c] = "signed"]
            /\ sig' = [sig EXCEPT ![target[c]] = Signature(Initial(c))]
            /\ rotated' = rotated \ {target[c]}
       ELSE pc' = [pc EXCEPT ![c] = "undo"] /\ UNCHANGED <<sig, rotated>>
    /\ UNCHANGED <<rows, want, target, cfg, release, budget,
                   over, mixed, moved, served, stuck>>

PutConfig(c) ==
    /\ pc[c] = "signed"
    /\ pc' = [pc EXCEPT ![c] = "stored"]
    /\ cfg' = [cfg EXCEPT ![target[c]] = Initial(c)]
    /\ UNCHANGED <<rows, want, target, sig, release, budget, history>>

\* Slip: the initial config is not recorded.
LogNothing(c) ==
    /\ pc[c] = "stored"
    /\ IF Present(c)
       THEN pc' = [pc EXCEPT ![c] = "created"] /\ Completes(c, target[c], log[c] = {})
       ELSE pc' = [pc EXCEPT ![c] = "undo"] /\ UNCHANGED <<mixed, moved, served>>
    /\ UNCHANGED <<rows, want, target, store, release, budget, over, rotated, stuck>>

\* auditLog.create, which needs the row, and the answer.
Log(c) ==
    /\ pc[c] = "stored"
    /\ IF Present(c)
       THEN /\ pc' = [pc EXCEPT ![c] = "created"]
            /\ log' = [log EXCEPT ![c] = @ \union {Initial(c)}]
            /\ Completes(c, target[c], log[c] = {})
       ELSE /\ pc' = [pc EXCEPT ![c] = "undo"]
            /\ UNCHANGED <<log, mixed, moved, served>>
    /\ UNCHANGED <<row, name, key, want, target, store, release, budget,
                   over, rotated, stuck>>

\* A creation that ends between its uploads leaves a signature alone; one
\* that ends after them leaves what it wrote.
HalfDone(c) ==
    mixed' = [n \in Names |-> mixed[n] \/
        (n = target[c] /\ (pc[c] = "signed" \/ (pc[c] = "stored" /\ over[n])))]

\* One of these calls fails.
StepFails(c) ==
    /\ pc[c] \in {"inserted", "ready", "signed", "stored"}
    /\ Fault
    /\ pc' = [pc EXCEPT ![c] = "undo"]
    /\ HalfDone(c)
    /\ UNCHANGED <<rows, want, target, store, release, moves,
                   over, moved, rotated, served, stuck>>

\* The row goes, and by cascade its keys and audit rows.
Gone(a) ==
    /\ row' = [row EXCEPT ![a] = "deleted"]
    /\ key' = [key EXCEPT ![a] = 0]
    /\ log' = [log EXCEPT ![a] = {}]

\* Slip: the rollback deletes the audit rows and keys, and leaves the row.
UndoChildren(c) ==
    /\ pc[c] = "undo"
    /\ pc' = [pc EXCEPT ![c] = "failed"]
    /\ key' = [key EXCEPT ![c] = 0]
    /\ log' = [log EXCEPT ![c] = {}]
    /\ UNCHANGED <<row, name, want, target, store, release, budget, history>>

\* The rollback; a row that is already gone makes it fail, which is logged.
Undo(c) ==
    /\ pc[c] = "undo"
    /\ pc' = [pc EXCEPT ![c] = "failed"]
    /\ IF Present(c) THEN Gone(c) ELSE UNCHANGED <<row, key, log>>
    /\ UNCHANGED <<name, want, target, store, release, budget, history>>

UndoFails(c) ==
    /\ pc[c] = "undo"
    /\ Fault
    /\ pc' = [pc EXCEPT ![c] = "failed"]
    /\ stuck' = stuck \union {c}
    /\ UNCHANGED <<rows, want, target, store, release, moves,
                   over, mixed, moved, rotated, served>>

\* The process dies: nobody rolls back.
Crash(c) ==
    /\ pc[c] \in Running
    /\ Fault
    /\ pc' = [pc EXCEPT ![c] = "failed"]
    /\ stuck' = stuck \union {c}
    /\ HalfDone(c)
    /\ UNCHANGED <<rows, want, target, store, release, moves,
                   over, moved, rotated, served>>

-----------------------------------------------------------------------------
(* PUT and DELETE /api/apps/[id], by another administrator. *)

\* A new identifier, with the artifact URL that follows from it.
Rename(a, n) ==
    /\ Move
    /\ Present(a) /\ ~Taken(n)
    /\ name' = [name EXCEPT ![a] = n]
    /\ moved' = moved \union {a}
    /\ UNCHANGED <<row, key, log, creation, store, release, faults,
                   over, mixed, rotated, served, stuck>>

Delete(a) ==
    /\ Move
    /\ Present(a)
    /\ Gone(a)
    /\ UNCHANGED <<name, creation, store, release, faults, history>>

\* A new key is activated.
Rotate(a) ==
    /\ Move
    /\ Present(a) /\ key[a] \in 1..(MaxKeys - 1)
    /\ key' = [key EXCEPT ![a] = @ + 1]
    /\ rotated' = rotated \union
                    {n \in Names : sig[n] # None /\ sig[n].doc.app = a}
    /\ UNCHANGED <<row, name, log, creation, store, release, faults,
                   over, mixed, moved, served, stuck>>

-----------------------------------------------------------------------------
(* POST /api/config/publish. *)

\* Up to the reservation of the version.
StartRelease(a) ==
    /\ Move
    /\ release = NoRelease
    /\ Present(a) /\ Newest(a) < MaxVersion
    /\ key' = [key EXCEPT ![a] = IF @ = 0 THEN 1 ELSE @]
    /\ release' = [at |-> "reserved", app |-> a, to |-> name[a],
                   ver |-> Newest(a) + 1]
    /\ log' = [log EXCEPT ![a] = @ \union {Released'}]
    /\ Starts(name[a])
    /\ UNCHANGED <<row, name, creation, store, faults,
                   mixed, moved, rotated, served, stuck>>

ReleaseSignature ==
    /\ release.at = "reserved"
    /\ key[release.app] # 0
    /\ sig' = [sig EXCEPT ![release.to] = Signature(Released)]
    /\ rotated' = rotated \ {release.to}
    /\ release' = [release EXCEPT !.at = "signed"]
    /\ UNCHANGED <<rows, creation, cfg, budget,
                   over, mixed, moved, served, stuck>>

ReleaseConfig ==
    /\ release.at = "signed"
    /\ cfg' = [cfg EXCEPT ![release.to] = Released]
    /\ Completes(release.app, release.to, TRUE)
    /\ release' = NoRelease
    /\ UNCHANGED <<rows, creation, sig, budget, over, rotated, stuck>>

\* The compensation: the signature is deleted, the reserved version released.
AbortRelease ==
    /\ release # NoRelease
    /\ IF release.at = "reserved" /\ key[release.app] = 0
       THEN UNCHANGED faults ELSE Fault
    /\ IF release.at = "signed"
       THEN /\ sig' = [sig EXCEPT ![release.to] = None]
            /\ mixed' = [mixed EXCEPT ![release.to] = TRUE]
       ELSE UNCHANGED <<sig, mixed>>
    /\ log' = [log EXCEPT ![release.app] = @ \ {Released}]
    /\ release' = NoRelease
    /\ UNCHANGED <<row, name, key, creation, cfg, moves,
                   over, moved, rotated, served, stuck>>

-----------------------------------------------------------------------------
\* GET /api/bootstrap/plist: where an SDK built with it fetches, and the key
\* it trusts.  Without an active key the row's placeholder is sent.
Plist(a) == [url |-> name[a], trusted |-> {key[a]} \ {0}]

Opens(plist, a) ==
    /\ cfg[plist.url] # None /\ cfg[plist.url].app = a
    /\ sig[plist.url] # None /\ sig[plist.url].doc = cfg[plist.url]
    /\ sig[plist.url].key \in plist.trusted

-----------------------------------------------------------------------------
Init ==
    /\ pc = [c \in Creators |-> "idle"]
    /\ want = [c \in Creators |-> None]
    /\ row = [c \in Creators |-> "absent"]
    /\ name = [c \in Creators |-> None]
    /\ key = [c \in Creators |-> 0] /\ log = [c \in Creators |-> {}]
    /\ target = [c \in Creators |-> None]
    /\ sig = [n \in Names |-> None] /\ cfg = [n \in Names |-> None]
    /\ release = NoRelease
    /\ moves = 0 /\ faults = 0
    /\ over = [n \in Names |-> FALSE] /\ mixed = [n \in Names |-> FALSE]
    /\ moved = {} /\ rotated = {} /\ served = {} /\ stuck = {}

Step(c) ==
    \/ Insert(c) \/ Prepare(c) \/ PutSignature(c) \/ PutConfig(c) \/ Log(c)
    \/ StepFails(c) \/ Undo(c) \/ UndoFails(c) \/ Crash(c)

Other(a) == Delete(a) \/ Rotate(a) \/ StartRelease(a)

Next ==
    \/ \E c \in Creators : Step(c) \/ Other(c)
    \/ \E c \in Creators, n \in Names : Find(c, n) \/ Rename(c, n)
    \/ ReleaseSignature \/ ReleaseConfig \/ AbortRelease

Spec == Init /\ [][Next]_vars

-----------------------------------------------------------------------------
(* Properties. *)

Docs == [app : Creators, ver : 1..(MaxVersion + 1), by : {"creation", "release"}]

ASSUME NoneIsNoObject == None \notin Docs \union [doc : Docs, key : Nat]

TypeOK ==
    /\ pc \in [Creators -> Running \union
                             {"idle", "refused", "created", "failed"}]
    /\ want \in [Creators -> Names \union {None}]
    /\ target \in [Creators -> Names \union {None}]
    /\ row \in [Creators -> {"absent", "present", "deleted"}]
    /\ name \in [Creators -> Names \union {None}]
    /\ key \in [Creators -> 0..(MaxKeys + 1)]
    /\ log \in [Creators -> SUBSET Docs]
    /\ \A a \in Creators : IF Present(a) THEN name[a] # None
                            ELSE key[a] = 0 /\ log[a] = {}
    /\ \A n \in Names : cfg[n] \in Docs \union {None}
    /\ \A n \in Names : sig[n] # None => sig[n] \in [doc : Docs, key : Nat]

\* Two creations, or a creation and a renaming, that all found an identifier
\* free do not give it to two apps (findUnique in POST and PUT /api/apps, and
\* @unique on identifier).
OneRowPerName ==
    \A a, b \in Creators :
        Present(a) /\ Present(b) /\ name[a] = name[b] => a = b

\* A creation that was refused or failed leaves no app behind, unless its
\* rollback failed or its process died (the catch in POST /api/apps).
FailureLeavesNoApp ==
    \A c \in Creators : pc[c] = "failed" /\ Present(c) => c \in stuck

\* App a has its config served under its present identifier, nobody is
\* writing there, and no two writers overlapped or stopped half way.
Settled(a) ==
    /\ Present(a) /\ a \in served /\ a \notin moved
    /\ Writers(name[a]) = {} /\ ~mixed[name[a]]

\* What is served for a settled app is its newest version: creations that
\* failed or died, apps deleted while they were created, and identifiers that
\* are used again do not leave another config there (publishInitialConfig,
\* the rollback, and the publish route after them).
ServedIsNewest ==
    \A a \in Creators : Settled(a) =>
        /\ cfg[name[a]] \in log[a]
        /\ cfg[name[a]].ver = Newest(a)

\* The plist of a settled app opens what is served, unless the key was
\* rotated since it was signed: the plist then lists the new key only
\* (GET /api/bootstrap/plist).
PlistOpensConfig ==
    \A a \in Creators : Settled(a) /\ name[a] \notin rotated => Opens(Plist(a), a)
=============================================================================
