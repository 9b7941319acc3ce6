# Bunting Admin in TLA+

A verification project kept beside the code of Bunting Admin, the server that
edits feature flags, publishes them as signed static artifacts to S3 and hands
client apps their bootstrap configuration. It consists of TLA+ modules that are
translated from the TypeScript sources, TLC configurations that check them on
small instances, and theorems that TLAPS proves for every instance.

Paths below are relative to the repository (`src/app/api/...`). "route.ts"
without a path is `src/app/api/config/publish/route.ts`.

## 1. The system

| Component | Code | State it keeps | Operations |
|---|---|---|---|
| Publish pipeline | `api/config/publish/route.ts`, `lib/versioning.ts`, `lib/storage.ts`, `lib/detached-signature.ts` | audit rows (the version ledger), the S3 objects `config.json`, `config.json.sig`, `config-<version>.json` | `POST /api/config/publish` |
| Flags and their lifecycle | `api/flags`, `lib/flag-lifecycle.ts` | flag rows with `archivedAt`, `firstPublishedAt`, `lastPublishedAt` | create, edit, archive, unarchive, rename (API only), delete |
| Signing keys | `api/keys`, `lib/jws-signer.ts`, `api/bootstrap/plist` | key rows with `isActive`, `createdAt` | create, rotate, activate, deactivate, delete, ensure, sign |
| Config generator and validation | `lib/config-generator.ts`, `lib/config-validation.ts`, `lib/config-comparison.ts`, `lib/json-diff.ts` | none | generate, validate, compare, diff |
| Apps | `api/apps`, `api/bootstrap/plist` | app rows | create (with the first key and the initial config), update, delete, plist |
| Access control and sign-in | `lib/access-control.ts`, `lib/auth*.ts`, `lib/authz.ts`, `api/users`, `api/access-list` | users, access-list entries, session tokens | sign in, proxy request, bootstrap of the first administrator, change role, add, remove |
| Tests and rollouts | `api/tests`, `api/rollouts`, `api/test-rollouts` | test and rollout rows | create, update, set percentage, archive, delete |
| Fingerprints | `lib/fingerprint.ts`, `api/config/decode` | none | encode, decode |
| Evaluation and bucketing | `lib/flag-evaluation.ts`, `lib/bucketing.ts` | none | evaluate a flag for a user |
| Flag pages | `dashboard/flags`, `components/features/flags`, `variant-creator-modal.tsx` | per tab: the loaded copy, the form, the open dialog | every gesture and its request |
| Test and rollout pages | `dashboard/tests`, `dashboard/rollouts`, their forms, the assignment dialogs | per tab: the loaded copy, the form, the open dialog | every gesture and its request |
| Console | `lib/app-context.tsx`, `lib/changes-context.tsx`, `dashboard/publish/page.tsx`, `dashboard/layout.tsx` | the selected app, the badge, the diff on screen | select, refresh, load, publish |
| Rate limiter, middleware | `lib/rate-limit.ts`, `middleware.ts` | a counter per client and window | admit, reject |
| Activity log, history, health, scripts | `api/activity`, `api/config/history`, `scripts` | an append-only log | - |

How they interact. A server instance handles each HTTP request as one async
function; several instances may run over one PostgreSQL database and one S3
bucket. Nothing is shared in memory. Requests meet in three places: the rows of
the database (every `await prisma...` is a statement of its own at READ
COMMITTED, except inside `$transaction`), one advisory lock per app that the
version reservation takes (and one more for the first administrator), and the
objects of the bucket, which have no lock at all. Clients see only the bucket:
they fetch `config.json`, then `.sig`, verify with the keys their build carries,
and report a fingerprint that names a `config_version`. Administrators work in
browser tabs, each with copies of the rows it loaded at some moment; a tab sends
whole columns of its copy back, and nothing tells it that the row has changed.

What is hard here, and therefore what the properties are about:

- *Interleaving.* Two publishes; a publish and an administrator; two key
  transactions; two first requests. Every `await` is a place where another
  request runs.
- *Partial failure and compensation.* A publish makes four writes in two
  systems, the creation of an app five. The catch blocks undo some of them, by
  deleting, and their deletions may fail too.
- *Crashes* between any two writes; nothing is resumed after a restart.
- *Stale reads.* The flags are read before the version is reserved and stamped by
  key at the end; PUT and DELETE decide on a row they read earlier and write by
  id; tabs edit copies.
- *Answers out of order.* A tab awaits several requests at once, cancels none and
  applies each answer when it comes, also after the operator has moved on.
- *Two implementations of one rule.* The browser decides what a menu offers and
  what a preview shows, the server what is accepted and stored; the preview of a
  flag and the client choose among its variants by different code; the publish
  screen has a test for changes, a list of changes and a line diff.
- *Boundaries.* The date is taken before the lock; the sequence restarts at
  midnight; versions are strings `YYYY-MM-DD.N` compared by number; selector
  widths at path counts 0, 1 and powers of two; buckets on the edge of a share.

`PROJECT.json` lists these as hazards, each at its line with the properties that
would notice it.

Correctness, per component:

- Publish: a version is used once and for one artifact; the live config keeps its
  ledger row; archives are immutable; a failed publish leaves nothing behind;
  `config.json` is never left with another artifact's signature; versions and
  content only move forward; every publish that starts is answered.
- Flags: a flag clients see as active is not deleted; what may be deleted was
  deprecated in the live config first; the handlers and the pipeline together
  implement the documented lifecycle.
- Keys: at most one key active, at least one to sign with, the active one is not
  deleted, signatures are made with the key chosen last.
- Apps: an identifier belongs to one app; a creation that failed leaves none; what
  is stored under an identifier is the newest version of the app that has it, and
  the keys of its plist open it.
- Access control: one identity claims an installation and stays its
  administrator; a session carries the role the list gives.
- From rows to devices: what is published is whole and can be parsed; a
  fingerprint decodes to what was served, and mistyped never to anything; the
  preview shows what a device gets; the publish screen tells what changed.
- Pages: what a form stores is what it showed; a menu offers what the server
  accepts; what a form does not show is not lost; a list with nothing under way
  shows what is stored.
- Console: what a release makes live was reviewed for its app; one changelog, one
  release; the selection and the badge settle on the truth.

## 2. The modules

| Module | What it is |
|---|---|
| `FlagLifecycle` | the flag table, its handlers, the lifecycle rules, and what a publish does to the table (export, stamping) |
| `FlagStates` | abstract specification: the lifecycle of `lib/flag-lifecycle.ts` and `docs/concepts.md`, a release being one atomic step |
| `Publish` | extends `FlagLifecycle` with the publish pipeline: the composition of both, and its properties |
| `SigningKeys` | the key table, its transactions and what a publish does with it |
| `Apps` | creation, renaming and deletion of apps and what is stored under their identifiers |
| `Access` | sign-in, proxy requests, both bootstraps, the admin routes |
| `Artifact` | pure: rows to config, validation, comparison of two configs |
| `Evaluation` | extends `Artifact`; pure: the preview, the bucketing, the client |
| `Fingerprint` | extends `Evaluation`; pure: paths, bit packing, checksum, decoding |
| `Delivery` | extends `Fingerprint` with the handlers that edit rows, a publish in one step, a device's report and its decoding |
| `ExperimentForms` | pure: the test form and the rollout form |
| `Experiments` | extends `ExperimentForms` with the pages, dialogs and requests of browser tabs, the handlers and the rows |
| `FlagForms` | extends `ExperimentForms`; pure: the flag form, the value input, the variant dialog |
| `FlagEditor` | extends `FlagForms` with the pages, requests, handlers and rows of flags |
| `Console` | one tab's app context, changes context and publish page next to other operators |
| `MCPublish`, `MCSigningKeys`, `MCApps`, `MCAccess`, `MCDelivery`, `MCExperiments`, `MCFlagEditor`, `MCConsole` | model values, definitions of constants and symmetry for TLC |
| `PublishProofs` | theorems about `Publish`: types, versions, archives; under assumptions on faults and overlap, rollback, order, pairing; flags when handlers and publishes follow one another, with the refinement of `FlagStates` |
| `SigningKeyProofs` | theorems about `SigningKeys` |
| `AccessProofs` | theorems about `Access` |
| `DeliveryProofs` | theorems about `Delivery`: what is live is whole and previewed as it is served, the publish screen tells changes, codes decode to what was served and mistyped to nothing |
| `AppsProofs` | theorems about `Apps`: the rows, and what is stored under their identifiers |
| `ConsoleProofs` | theorems about `Console`: what a release from the publish page makes live |
| `FlagEditorProofs` | theorems about `FlagEditor`: what forms store, what is offered, what requests change, what one administrator can rely on |
| `ExperimentProofs` | theorems about `Experiments`: what forms and dialogs send, what it makes of the rows, what a quiet list shows |

Four modules look at flags and three at releases, each at another grain.
`Publish` has every call of the pipeline and keeps of a flag only its key and
dates; `Delivery` has a flag's values and makes a publish one step; `FlagEditor`
has a flag's columns and what tabs do with them, and makes a handler one step;
`Console` reduces a config to the set of its items. `Apps` likewise has releases
in three steps and a rotation in one, which `Publish` and `SigningKeys` take apart.

Definitions whose comment begins with "Slip:" are not part of any specification.
Each is the definition below it with a plausible programming mistake, kept to
show that a property notices it.

The `TypeOK` of a module says what its variables hold. Runs and theorems check
those of `Publish`, `SigningKeys` and `Access`; the others hold in their runs when
added to the cfg, and are documentation.

### Publish and FlagLifecycle

A publish request is a process with a program counter; there is one action for
each database or S3 call of the handler and one for each way the call fails.

| Label reached | Code |
|---|---|
| `generated` | the flags are read (`generateConfigFromDb`) and validated, route.ts:33-49; `Reject` is the answer at :51-67 |
| `compared` | `getPublishedConfigFromS3` for the diff, :69-74, 284-310 |
| `keyed` | `ensureSigningKey`, then the date, :76-79 |
| `locked`, `allocated`, `reserved` | the transaction: advisory lock, rows of the day, insert and COMMIT, :80-102 |
| `signed`, `sigUp`, `live` | sign, upload `.sig`, upload `config.json`, :119-155 |
| `archived`, `finalized` | archive object (best effort), audit update, :157-198 |
| `undoSig`, `undoRow`, `failed` | the catch block, :199-235 |
| `stamping`, `done` | the two `updateMany`, :237-261 |
| `rejected`, `crashed` | validation error; the process died |

`audit[r]` stands for the row of request `r` ("reserved" between the insert and
the update, "final" after). An artifact carries its own `published_at`, so no two
are equal, and it is identified by the request that built it: `live`, `sig` and
`archive` hold request names. A request is handled once; publishing again is
another request. `Genesis` is the initial config of `POST /api/apps`, and `Init`
is the state that route leaves: version `<day 1>.1` live and signed, its audit
row final, no archive object.

PUT and DELETE `/api/flags/[id]` are two actions each: `Admit` is the read with
all early returns and `new Date()`, `Commit` the write by id. POST is one, since
the unique index on (appId, key) makes its check and insert one. The columns kept
are the key and the three dates; an edit of any other field is the operation
"edit", which changes none of them. One PUT may name `archived` and `key` at once
("renameArchive", "renameUnarchive"); naming other columns besides asks of an archive
request what `edit` asks, so it adds no behaviour.

Time: `new Date()` is a logical clock that advances with every reading, so two
readings never agree. Two dates in one millisecond, and clocks that differ
between instances, are not modelled. Calendar days advance with `Midnight`.

The *environment* is a set of constants. `Overlap` says which activities may
overlap: publishes with publishes, edits with anything, deactivation of keys with
anything. `FaultKinds` says what goes wrong: a database call or an upload throws
without effect, an upload throws although it took effect ("ambiguous"), a
`DeleteObject` throws, the process dies.

### SigningKeys

Statements at READ COMMITTED. `updateMany` takes its rows from the snapshot at
its start (`Scan`), then visits them one by one (`Visit`): a row another
transaction has written makes it wait, and is tested again when that one has
committed. The last statement of a transaction and its COMMIT are one action: no
other request can see a difference, since the row that statement locks would be
waited for until COMMIT in any case. DELETE and the activation in
`ensureSigningKey` are statements of their own. `BreakDeadlock` is PostgreSQL's.
`row` is the committed table; what an open transaction has deactivated is in
`off`, which is also the set of rows it has locked. `chosen` is the key whose
activation was committed last, `signer` the key of the last signature, and
`overtaken[r]` says that the key a DELETE has found inactive was activated before its
write: three history variables, which no action reads.

`createdAt` is taken in the order of the inserts. The plist is in `Apps`.
`Publish` abstracts this module to one bit, `hasKey`.

### Access

A request is a sign-in (AUTH_MODE=oidc), a request through the proxy, or a call of
an admin route, with one action per database statement: `SignIn` to `Issue` are
the `signIn` and `jwt` callbacks of `lib/auth.ts` with the check of the access list,
`isFirstUser` and `createOrUpdateUser`; `AuthorizeSession` and `AuthorizeProxy` to
`InsertAdmin` are `requireAdmin` in the two modes, with the transaction of
`bootstrapFirstProxyAdmin` and its advisory lock; `SetRole`, `Remove`, `Lookup` and
`Add` are what the admin routes then do. `Crash` ends a request and frees the lock;
`SwitchMode` is a restart with the other AUTH_MODE, the case the comment above
`isFirstUser` is about; `Expire` ends a session. A role
kept in a session token outlives a demotion until it expires, by design
(`authz.ts:23-27`), so no property asks otherwise.

### Artifact, Evaluation, Fingerprint, Delivery

The first three are pure: `GenerateConfig`, `ValidateConfig`, `HasConfigChanges`,
`GetConfigChanges` and `DiffLines`; `EvaluateFlag` (the preview) and `Resolve` (the
client, external, as `docs/` and the bucketing describe it); `EncodeFingerprint`
and `DecodeFingerprint`, on bits, with a real CRC-8. A value is a member of
disjoint sets (booleans, strings that parse as JSON, strings that do not, and
`Objects`: raw objects, arrays and a null stored inside a per-flag map, which the
generator hands on), since that is what validation tells apart; `Null` is a value that
is not there. SHA-256 is the constant `BucketOf`; a version is its sequence of numbers.
A condition has a bit for the place of its `values` among its keys: a legacy condition
migrated by `normalizeCondition` has them last, the same condition saved by hand does
not, which `JSON.stringify` tells apart (`config-comparison.ts:65,182`) and
`stableStringify` does not (`StableConfig`). `flagIds` is a list, and a flag named
twice gets a variant twice. The lines of an artifact are one for each item and the two
stamps `config_version` and `published_at`, which are empty in the draft
(`config-generator.ts:318-319`) and so differ from those of every published config.

`Delivery` has one action per handler that writes a flag, test or rollout, with
bodies from constants, among them those only the API accepts: a conditional variant
without a value or an order, a test whose names collapse, a flag listed twice. A key is
checked when a config is generated and not before, as in the handlers. Then come `Publish`, `Report` (a client resolves every flag and
encodes) and the properties about decoding it against the live or an archived
artifact, whose upload may have failed. The reference for decoding is what the
client was served, for the preview what the client resolves, for the comparison
the replay of the diff.

### ExperimentForms and Experiments; FlagForms and FlagEditor

A form is a record. A section of a form is the set of forms one gesture in it
leads to; what the form derives (key, preview, payload, whether it may be saved)
are operators on it. A tab has a page with its loaded copy and, perhaps, a form or
a dialog. Submitting sends a request, a member of `net`; `Serve` runs its handler
(`Handle`), one step; an `Answer...` action is the continuation after the `await`, in whatever
tab and page it finds, since nothing is cancelled on leaving. Requests may be lost
before or after they took effect, and overtake each other. A scenario (a member of
the constant `Scenarios`) says which rows there are and which pages, sections and
how many gestures each tab has. `ids` is the set of ids given so far to tests and rollouts;
the database gives none twice. History variables record what an administrator
did and whether anything crossed; only properties read them.

Handlers are one step here because the races inside them are the subject of
`Publish`; the races between tabs are the subject of these modules.

### Console

`sel`, `badge`, `page` and `route` are the state of the React contexts and the
publish page; `lists`, `refreshes`, `loads` and `pubs` are their requests in flight,
whose answers hold what the server had when it served them. `Poll` is the
interval of five minutes, `TimerFires` the delayed refresh after an edit. A load that
fails replaces the diff by an error screen (`Shown`), which the next load clears, or
its Retry button, a reload of the tab: that forgets the requests in flight, though the
server may still serve them. Other operators edit, release and delete through `draft`,
`live` and `db`.

### Apps

A creation is a process: `Find` (identifier free), `Insert` (the row, unique index),
`Prepare` (first key, generate, sign), `PutSignature`, `PutConfig`, `Log` (audit
row), and `Undo`, `UndoFails` or `Crash`. Rows are named by the request that
inserts them, objects by identifier. Another administrator renames, deletes,
rotates or releases, a release being three steps. `Plist` is
`GET /api/bootstrap/plist`: the active keys, and an artifact URL by identifier.

## 3. What the runs check

| Run | Instance | Question |
|---|---|---|
| `concurrent` | 2 overlapping publishes, 2 days, two faults of every kind, a key that is deactivated, fairness | versions unique, archives immutable, history never compared with a later version, every publish answered |
| `serial` | 3 publishes and every flag operation but the renaming, two flags, 2 days, one activity at a time, a failing upload | pairing of config and signature, rollback, order of versions and contents, the documented lifecycle (with refinement of `FlagStates`) |
| `keys_serial` | 4 requests one after another, 4 keys, every operation, a fault | one active key; every publish signs with the key activated last |
| `keys_overlap` | 3 overlapping requests of every kind, one or two active keys at first, a fault, fairness | what can take the last key away, what can delete an active one; do waits for row locks end |
| `access_claim` | 2 addresses of one domain, 3 requests, sign-ins one at a time, proxy requests overlapping, one crash, one restart in the other mode | one claim, kept; sessions and list agree |
| `delivery` | 2 flags, a rollout and a test, 2 edits, 2 publishes, a report | is what is published whole, does it decode, does the preview agree, does the diff tell |
| `experiments` | 3 rows, 1 or 2 tabs, 13 scenarios, up to one failure | is stored what was previewed, is the list true, what un-archives, what does an assignment touch |
| `flags` | a stored flag and room for one, 1 or 2 tabs, 10 scenarios, releases, up to one failure | are stored values of the flag's type and as shown, are offers accepted, what is lost |
| `console` | 2 apps, a flag and a test that validation refuses, 2 requests of each kind in flight, 2 moves of the operators, one failure, a reload after it, fairness | was a release reviewed, is a changelog used once, does the tab settle |
| `apps` | 2 creations, 2 identifiers, 3 moves of others, 2 versions, 2 keys, one failure or death | what failures leave, what is served, do the plist's keys open it |

Two more runs end in a counterexample: each states what a comment or a document of
the repository promises and shows an execution of the code that breaks it.

| Run | Promise | What happens |
|---|---|---|
| `race_pairing` | route.ts:126-130: config and signature land as a matching pair | the lock covers only the reservation; two publishes interleave their uploads and both succeed, with no fault at all |
| `rename` | `docs/concepts.md:152-155`: a published flag is removed only after a release that shows it as deprecated | `PUT /api/flags/[id]` accepts another key for a published flag; the next publish drops the key that clients know as an active flag |

*Other deviations from the documents.* The assumptions under which the passing runs
hold are where the code stops keeping a promise. Each of these appears when a cfg
is changed as in the first column (for `Overlap = {"edit"}` two publishes, one flag, one
key and the operations "create" and "archive", without faults, keep the instance small):

| Change | Property that then fails | Promise |
|---|---|---|
| `serial`, `Overlap = {"publish"}` | `NeverRegresses`: the slower publish with the older version uploads last | `docs/concepts.md:172`: `config_version` increments monotonically |
| `serial`, `FaultKinds = {"s3", "delete"}` and `MaxFaults = 2` | `SettledPair`: the compensation cannot delete the signature | route.ts:204-206: never leave a new signature with the previous config; the minimum policy of `docs/production-deployment.md:102` grants no `s3:DeleteObject` |
| `serial`, `Overlap = {"edit"}` | `RetiredWasDeprecated`: a flag archived during a publish is stamped past its `archivedAt` without having shipped as deprecated | `docs/concepts.md:152-154`: deletion only after a release in the archived state |
| `serial`, `FaultKinds = {"db"}` | `ServedIsPublished`: the audit update fails after the upload and the stamping is skipped | `prisma/schema.prisma:49-50`: null means never in an artifact |
| `keys_serial`, `Overlapping = TRUE` | `AtMostOneActive`: two overlapping rotations leave two | `docs/api-reference.md:793`: rotation leaves one key active |
| `keys_overlap`, without the exception for `overtaken[r]` in `DeletesActiveOnlyIfOvertaken` | the check is made before an activation of that key, the delete after it | `docs/api-reference.md:859`: the active key cannot be deleted |
| `access_claim`, `Overlap = {"signIn"}` | `OneClaim`: two first sign-ins both find an empty user table and both become ADMIN | `lib/access-control.ts:99-100`: whichever mode bootstraps first claims the instance, once |
| `access_claim`, `Overlap = {"signIn"}` | `SessionsMatchList`: the list changes between the statement that reads the role and the session | none is written down |

`RowOffersAreAccepted` speaks of the list's menu only: the edit page offers to
archive and to delete every flag and shows the server's refusal.

*Bounds.* Two requests are enough for every race on the lock, the uploads and the
rows, and what `concurrent` checks of safety is proved for any number (section
4). The third publish in `serial` follows one that failed and one that took its
place; it lets a flag be released, archived, released again and deleted, with a failed
publish in between. Two days let a request carry yesterday's date into the lock. Two
flag rows let one key pass from a deleted row to another while a second one stays.
Without the renaming: with it, three of the properties of flags fail (run `rename`); the other
two are proved with it (section 4).
`MaxClock` stops the administrators: they act only while the clock, which publishes
advance too, is below it; four readings are a release, the archiving, another release
and the deletion or unarchiving (a creation reads no date that matters). What is checked of safety in `serial` is proved for any number
too. Two faults make an upload fail and its compensation fail too. Four key
requests are two creations and two rotations. `keys_overlap` also starts with two
active keys, a state the table above shows to be reachable, since only then can two
transactions lock the same rows in different orders. Requests and keys are
interchangeable, so symmetry is used, but never with liveness.

Three requests in `access_claim` are two that race for the claim and one that
follows, or a claim, a removal by an administrator and another claim; addresses of
one domain let an entry for the domain and one for the address compete. In
`delivery` the first state already has assignments, a conditional variant and
values in use, as earlier edits would leave them; two edits then suffice to delete
or archive what something else refers to, and two publishes to make a report older
than the live artifact. The users' buckets are 50 and 51 around a share of 50, the
versions 1.9 and 2 lie on both sides of the condition's 2.0, which the second equals
without being the same string, and the path counts lie on both sides of powers of
two. In `experiments` and `flags`, one tab shows what a sequence of
gestures can do, two what stale copies can; three to five gestures are enough to go
to and fro between the modes of a form and submit. Two moves of operators in
`console` are an edit and a deletion, or a visit to the page and a selection; two
requests of a kind are what crossing needs. Three moves in `apps` are a release, a
rename onto the freed identifier and a deletion while the other creation is under
way.

*Deadlock.* Requests are handled once and faults, gestures and moves are bounded, so
every run ends in states where nothing is left to do; TLC's deadlock check is off
everywhere. That nothing waits for ever while there is work is what `Answered` and
`TabConverges` say.

*Fairness.* `FairSpec` of `Publish` and `SigningKeys` assumes weak fairness of each
request's own steps: the runtime resumes a handler whose awaited call has settled,
and every call settles, with a result or an error (the drivers have timeouts).
Nobody has to start a request, no edit has to happen, no fault has to. Weak fairness
is enough for the advisory lock because requests are finitely many; the order
PostgreSQL grants it in is not modelled. In `SigningKeys`, fairness includes that
PostgreSQL detects deadlocks. `Spec` of `Console` assumes that requests are answered
(`ListAnswer`, `AnswerRefresh`, `AnswerLoad`) and that timers fire (`Poll`,
`TimerFires`), which the browser does while the tab is open; no operator has to do
anything. The other specifications have safety properties only and no fairness.

## 4. What is proved

With TLAPS, for every finite set of requests, any flags, keys and days, any
addresses, domains and identifiers, any apps and items, any tabs, gestures and scenarios,
and, but where the last column says otherwise, any overlap and any faults:

| Theorem | Statement | Assumes |
|---|---|---|
| `TypeCorrect` | `Spec => []TypeOK` | - |
| `VersionsStayUnique` | `Spec => []VersionsUnique` | - |
| `ArchivesStay` | `Spec => ArchiveImmutable` | - |
| `LiveConfigKept` | `Spec => []LiveKept` | no "ambiguous" faults |
| `VersionsDenoteOneArtifact` | `Spec => []VersionDenotesOneArtifact` | no "ambiguous" faults |
| `FailureLeavesNothing` | `Spec => []RolledBack` | faults are failing uploads without effect and crashes |
| `LiveMovesForward` | `Spec => NeverRegresses` | one publish at a time, no "ambiguous" faults |
| `HistoryIsOrdered` | `Spec => []HistoryLooksBack` | - |
| `PairSettles` | `Spec => []SettledPair` | one publish at a time, faults are failing database calls and uploads without effect |
| `ServedFlagsArePublished` | `Spec => []ServedIsPublished` | orderly (below), nothing is renamed |
| `RetiredFlagsWereDeprecated` | `Spec => []RetiredWasDeprecated` | orderly |
| `DeletedFlagsWereDeprecated` | `Spec => DeprecatedBeforeDelete` | orderly, nothing is renamed |
| `KeysStayUntilDeprecated` | `Spec => KeysLeaveDeprecated` | orderly, nothing is renamed |
| `LifecycleKept` | `Spec => KeepsLifecycle`, the refinement of `FlagStates` | orderly |
| `KeysTypeCorrect` | `Spec => []TypeOK` of `SigningKeys` | - |
| `KeyLossOnlyAsked` | `Spec => KeyLossIsAsked` | - |
| `AlwaysAKey` | `Spec => [](Active # {})` | nobody deactivates or deletes keys |
| `OneKeyActive` | `Spec => []AtMostOneActive` | one key request at a time, one active key at first |
| `DeletionsOvertaken` | `Spec => DeletesActiveOnlyIfOvertaken` | - |
| `SignsWithLastActivated` | `Spec => SignsWithChosen` | one key request at a time, one active key at first |
| `AccessTypeCorrect` | `Spec => []TypeOK` of `Access` | - |
| `OneClaimHolds` | `Spec => []OneClaim` | sign-ins do not overlap with other requests |
| `ClaimantStaysAdmin` | `Spec => []ClaimantKept` | sign-ins do not overlap with other requests |
| `SessionsMatchListHolds` | `Spec => SessionsMatchList` | sign-ins do not overlap with other requests |
| `RowsInvariant` | `Spec => []RowInvariant` of `Apps` | - |
| `IdentifiersAreUnique` | `Spec => []OneRowPerName` | - |
| `FailuresLeaveNoApp` | `Spec => []FailureLeavesNoApp` | - |
| `StoresInvariant` | `Spec => []StoreInvariant` of `Apps` | - |
| `NewestIsServed` | `Spec => []ServedIsNewest` | - |
| `PlistOpensWhatIsServed` | `Spec => []PlistOpensConfig` | - |
| `ScreensInvariant` | `Spec => []ScreenInvariant` of `Console` | - |
| `ChangelogReleasesOnce` | `Spec => []OneReleasePerChangelog` | - |
| `ReleasesWereReviewed` | `Spec => ReleaseWasReviewed` | - |
| `EditorIsSound` | `Spec => []EditorInvariant` of `FlagEditor` | - |
| `FormsAreStoredFaithfully` | `Spec => []FormsStoreFaithfully` | - |
| `MenusAreAccepted` | `Spec => []RowOffersAreAccepted` | - |
| `HiddenIsKept` | `Spec => HiddenKept` | - |
| `AwaitedEditsAreKept` | `Spec => []AwaitedEditsKept` | - |
| `DeskIsSound` | `Spec => []DeskInvariant` of `Experiments` | - |
| `PreviewsAreStored` | `Spec => []StoredIsPreviewed` | - |
| `FreshDialogsTouchOneEntry` | `Spec => FreshAssignTouchesOneEntry` | - |
| `OnlyStaleFormsUnarchive` | `Spec => UnarchivedOnlyByStaleCopy` | - |
| `QuietListsAreTrue` | `Spec => []QuietListIsTrue` | - |
| `RowsAreTyped` | `Spec => []TypeOK` of `Delivery` | - |
| `LiveConfigsAreWhole` | `Spec => []LiveIsWhole` | - |
| `PreviewIsServed` | `Spec => []PreviewAgrees` | - |
| `PublishScreenTellsChanges` | `Spec => []DiffTellsChanges` | `Null` is not a config |
| `ReportsDecodeToWhatWasServed` | `Spec => []DecodedIsResolved` | - |
| `MistypedCodesAreRejected` | `Spec => []MistypedIsRejected` | - |

*Orderly* (the second part of `PublishProofs`): publishes and flag handlers run one at a time, the
deactivation of keys overlapping as it likes; faults are uploads and deletions that
had no effect. Days, requests, flags and keys are any.

The assumptions are needed: section 3 names a counterexample without each of
them (for the renaming it is the run `rename`), and when an upload of `config.json` takes effect but its response is lost, the
catch block deletes the audit row of the config that is live, and the next publish
takes its version. The constants' assumptions (`FlagAssumption`,
`PublishAssumption`, `KeyAssumption`, `AccessAssumption`, `AppsAssumption`,
`ConsoleAssumption`, `FlagFormAssumption`, `ScenarioAssumption`, `ExperimentsAssumption` and those of the modules
without theorems) are evaluated by TLC in every run. Five more only say that the values
standing for nothing are not taken for something: `NoneIsNoObject` of `Apps`,
`ValuesAssumption` of `Console`, `RefusedAssumption` of `FlagEditor`, `ErrorsAssumption` of
`Fingerprint`, and `NullIsNoConfig` of `DeliveryProofs`. The last is a hypothesis, as it is
about all records with the fields of a config, which TLC cannot enumerate.
`ScenarioAssumption` is about the rows there are at first: they are rows the table can hold
(`WellFormed`), and no two variants of a flag have one identifier, as random
identifiers are; nothing is assumed of the pages, gestures, releases and failures.
`ScenariosAssumption` of `Experiments` says that objects are not null, that the rows there
are at first have a row's columns, and that pages are pages. `BodiesAssumption` of `Delivery`
says the same of rows and bodies, that a body of a PUT leaves the type alone, as its schemas
do, that a conditional variant has a number to be sorted by or none, that `flagIds` is a
list, and that `GroupOrder` lists the names of groups. A value a variant may lack, as
`updateFlagSchema` accepts it.

*Versions.* `VersionsUnique` is not inductive by itself. `VersionInv` adds: a
request inside its transaction holds the lock (`LockHeld`) and has no row yet
(`NotYetReserved`); the number it computed under the lock stays free until it
commits (`AllocatedFresh`), because any other request that could take it would
have to hold the lock; from COMMIT to its catch block a request has its row
(`CommittedRow`); an archive object belongs to a request past its upload whose row
is still there (`ArchivedKept`); and so does the live config, if failed uploads
have no effect (`LiveCommitted`). That `computeNextVersion` returns a free number
is lemma `NextVersionFresh`; it rests on the maximum of a finite set
(`MaxExists`), proved by well-foundedness of strict inclusion. An archive upload
then overwrites nothing: an object with the same name would belong to a row with
the same version, hence to the same request, which has not archived yet.

*Publishes one after another.* `NeverRegresses` speaks of one step, `PutConfig`, and
follows from what `SequenceInv` says of a request before that step: it is the only
one in flight (`OneInFlight`), the dates and clock readings in the state are in the
past (`Past`), and its version, content and remembered config are ahead of, no older
than, and equal to those that are live (`Ahead`). The version comparison goes
through the reservation: rows are of no later day than the one read at `EnsureKey`,
so the number handed out is later than each of them (`NextVersionLater`), and the
live config has a row (`LiveCommitted`). `Paired` adds that only a request between
its two uploads, or before its deletion, can separate signature and config. The
rollback theorem needs no order between publishes: `NothingLeft` says per request
from when to when an object may carry its name.

`HistoryLooksBack` is about publishes that overlap. A publish reads the config it will be
compared with before the date, and that before the lock and the versions; others reserve,
upload and fail in between. `HistoryInv` follows the order of the reads: what was read as
live had its row and its date by then (`ReadUploaded`, `DatesPast`), so the date read after
it is no earlier (`ReadBeforeDate`); and the number computed under the lock is above those of
all rows of that day, so if the row compared with is still there, its version is below it
(`ReadOlder`). If it was rolled back, its number may be used again, but its row is gone from
the history.

*Keys.* `KeyLossOnlyAsked` and `AlwaysAKey` hold because every transaction that deactivates keys commits
an activation with it. For requests one after another `Serial` says that what a
handler read still holds when it writes, that an `updateMany` has each active key
before or behind it, and that no key but the one chosen last can be active.

`SignsWithChosen` follows: only `Sign` ends a publish that signs (`OnlySignSigns`), it signs
with an active key, and `chosen` is the only one that can be active. The property asks it of
every such step, so a publish that kept the key of the one before would break it.

`DeletesActiveOnlyIfOvertaken` needs no assumption on overlap: a DELETE past its check names
a key that is not active or whose activation overtook it (`CheckedOrOvertaken`), which every
commit that activates a key preserves by marking (`ActivationMarks`).

*Flags one after another.* None of the four properties is inductive, since a flag is
stamped in two statements after its config is live, and its dates are compared with a
config that a later publish replaces. `FlagInv` adds: a handler between its read and its
write is alone, and what it checked still holds (`PendingAlone`); a publish in flight
has read what the table still holds (`SnapshotCurrent`), and once it has uploaded it is
the live one until its stamps are written (`Releasing`); no two rows have one key
(`KeysUnique`); every key served as active has its row (`ServedExists`), which is marked
as published except between the upload and the stamps (`ServedMarked`); and a row that
counts as released while archived is served as deprecated (`RetiredMarked`), which needs
that dates lie in the past (`Dated`). A renaming breaks
`ServedExists`, and through it `ServedMarked`, when another flag takes the old key: that is
the finding of the run `rename`, and both parts of the invariant say only what holds if nothing
is renamed. The other parts, and with them `RetiredWasDeprecated` and the refinement, need no
such assumption: a flag that may be renamed is not archived (`RenameWrites`), and its state in
the lifecycle stays, unless the same request archives it (`RenameMoves`). The refinement maps a row to its
state in `FlagStates` and lets a release take effect at the upload of `config.json`; each
action is then one step of that module or a stutter, with the stamps hidden behind the
mapping.

*Access.* `AccessInv` adds to `OneClaim`: nothing runs next to a sign-in (`Alone`), so
what it has read still holds when it writes (`Admitted`); the transaction of a
bootstrap holds the lock (`LockHeld`), so what it has read there holds at its insert;
and an installation that was claimed shows it (`Claimed`), by an entry of the list
or, when the process died before that was written, by an administrator whom nobody
can have demoted, since there is neither a session nor an authorized request yet. The
last part is why neither bootstrap claims an installation twice across a crash or a
restart in the other mode. `SessionsMatchList` follows from `Admitted` at `Issue`.
`ClaimantKept` speaks of states at rest; `ClaimListed` of all: until a process dies,
whoever claimed and was not removed is an ADMIN entry of the list, or is the sign-in
between its two rows that is about to write it.

*Apps.* `RowInvariant` adds to both properties that a creation has no row before
`Insert` (`NoRowYet`): so a failure before it leaves none, a failure after it goes
through `Undo`, and an undo that does not run is recorded in `stuck`. Uniqueness of
identifiers is the unique index at `Insert` and `Rename`; the earlier `Find` is not
needed for it.

`StoreInvariant` is about the objects. `ServedIsNewest` and `PlistOpensConfig` speak of
apps at rest (`Settled`), so they say nothing of the steps that lead there. The
invariant says what the objects under the identifier of an app that was served and not
renamed can be at any step. `Whole`: while nobody has written anew there, they are the
app's newest recorded config and its signature. Otherwise a writer is at work: what one
that met no other has written is what it finds (`Written`), two that met are marked
(`Overlaps`), and where a writer of another app is at work, the app counts as `mixed`
(`Disturbed`) or was renamed (`Elsewhere`). `Recorded` says that a release under way is
the newest of its app and stored nowhere yet, `KeysMatch` that signatures are of the
active keys until a rotation.

*Console.* `ReleaseWasReviewed` is a property of the server's step, the reason for it
lies several steps before, when the page was loaded. `ShowsSelected` says of every
state that a page that shows a diff shows that of the selected app, or one whose load
had answered for another app (`page.mixed`); it is kept because each change of the
selection starts a load and a load that fails hides the diff. `AllReviewed` carries it
to the requests in flight. `OneReleasePerChangelog` counts releases per text; `UsedOnce`
says of which request the one release was, and `OneAtATime` that at most one request is
awaited and the button is disabled from the press until the reload after the answer.

*Flag pages.* `EditorInvariant` says of the rows, the pages and the requests what every
handler and every gesture relies on. Rows, and the copies pages hold, are `WellFormed`: the
defaults are values of the type. A form is `Whole`: what its inputs hold can be processed
for the type chosen last, which is what `setTypeAndReset` is for. A request is `Meant`: it
asks what its page showed, sends back the variants as they were loaded, and names the one it
replaces or removes; and its page's number is used up (`Placed`), so that an answer is never
taken for that of a later page. From it, `FormsStoreFaithfully` needs that the handler
writes what it is sent; `RowOffersAreAccepted` that the menu and the handler
apply the same rules, the request carrying the copy that its menu was made from; and
`HiddenKept` a case for each request of what its body leaves alone.

`AwaitedEditsKept` compares what is stored with what an administrator has saved in the
dialog, when nothing is under way. `SoloInvariant` extends it to every state of one who
works alone and of whose requests none has failed or was left behind: there is at most one
request, and until its page has heard of it that request accounts for the whole difference
between the row, the page's copy and `kept`. A list that is on its way holds what is to be
kept; once written the row does, while the page still shows the list before (`Unheard`). The
dialog edits a variant that the copy lists (`SoloModal`), since an answer that changes the
copy closes the dialog. Replacing by identifier then replaces one variant, because
identifiers are used once: those in a row were given before (`IdsUsed`), by a gesture
that will not be made again, and differ (`IdsDiffer`).

*Test and rollout pages.* Three properties are about one request each, but what makes them
true was decided by the page, any number of steps before. `DeskInvariant` carries it along.
Rows have a row's columns and, like the copies of them on pages and in requests, keep their
type for as long as their id lasts (`RowsKnown`): ids are not given again, so a copy of a
deleted row is never mistaken for one of its successor. A page has a number to itself
(`TabsTyped`). Of a request it says what its page meant (`Carries`): a creation carries the
payload of a form and what the preview of that form showed (`Previewed`), a form of an
existing row sends back whether its copy was archived (`SavesBack`), and an assignment
changes one entry of the copy it was made from (`TouchesOne`). The forms' part is that
each gesture leaves a form of its kind (`FormTyped`), with at least two groups where they
are a test's. `StoredIsPreviewed` then compares payload and preview of one form;
`FreshAssignTouchesOneEntry` needs that the handler writes what it is sent over a row
that equals the copy, and that the dialog sends the flags and the groups' percentages of its
copy back with it; `UnarchivedOnlyByStaleCopy` that no other request writes `archived`
but to set it.

`QuietListIsTrue` is about many requests: sliders released one after another, menus, forms
visited in between, and answers in any order. `QuietInvariant` adds to `DeskInvariant` what
holds before everything is quiet. `InPlace` holds always: a page of the list that is still
open sends only what sliders and menus send; a released slider is out of reach until it has
heard (`Placed`), so at most one of its requests is on its way (`OneRelease`); and turns
count the requests applied (`Turns`). The rest is said of one who works alone while it is
`Calm`: no request failed, none was left behind before it was applied, and no answer overtook
another. Then the value a slider was released at is stored or on its way to be
(`SlidersKept`), and a row on the list is the stored one unless answers about it have not
been heard, of which the one with the latest turn carries the stored row (`ListShown`). The
slider's value stands only until the rollout's form is submitted, whose own percentage
replaces it: `last` is forgotten then.

*Artifacts.* `LiveIsWhole` is about what a generator makes of rows that any sequence of
handlers left, archived and deleted ones among them. The rows keep their columns and types
(`RowsAreTyped`), and that is all the theorem needs of their history: the rest is said of one
call of `GenerateConfig`, for any rows. A variant in one of its lists is a conditional one,
or belongs to a running test or rollout that serves the flag (`VariantsMade`), and a running
test is carried with all of its groups (`GroupsNamed`); so nothing dangles
(`GeneratedComplete`). Of what is served, `JsonValid` says what an empty result of
`ValidateConfig` means, and `ResolvedValue` that the client ends at the default or at a value
of a variant in the list, whatever its attributes and buckets; the value of a conditional
variant may be missing, since the check passes over it (`config-validation.ts:115`), and that
is the one case in which a json flag serves nothing. Both need that sorting and
filtering neither lose nor invent members: `SortedBy` places a member by how many are below
it, and `Places` shows that this is a bijection with `1 .. Cardinality(S)` for every strict
total order; `SortKeeps` and `InOrderIs` follow.

`PreviewAgrees` needs the order of the lists besides (`Layered`): they are ascending, and a
number separates the conditional variants from the others, since `EnvironmentConfig` starts
above the highest conditional order. The preview sorts a list once more, which changes
nothing (`SortAgain`). So when a condition is met in the preview, no test or rollout comes
before it at the client (`PreviewServed`).

*Folds and recursive functions.* The other three properties of `Delivery` rest on what
recursive functions compute for every input: the table of the diff, bit strings, sums,
checksums. The library's induction theorems take an operator as a parameter, which no
installed prover can instantiate, so the principles needed are stated with sets and
functions in their place, and proved from the well-ordering of the naturals. `Induction`
speaks of a set of numbers; `MeasureInduction` of a set and a measure on it; `Recursion` and
`Iteration` say that a function defined by its earlier values exists, which makes the
`CHOOSE` behind a recursive definition meet its equation; `Iterated` is the induction along
such a function. The folds over sequences are functions of this kind.

*The publish screen.* Where two texts differ, the diff takes from either the line the table
prefers. By induction over the lines left, no common subsequence is longer than the table
says (`LcsBounds`), and from any cell on the diff replays both texts and keeps as many lines
as the table says (`DiffTold`); so a diff holds both texts, and none keeps more
(`DiffReplaysBoth`). The comparison and the list of changes agree by sections
(`ChangesTold`). The diff of the two whole artifacts is never without changed lines, since
the stamps differ; what can be asked is whether another line changed. If none did, the lines
besides the stamps are the same on both sides (`MarkedChanges`), and those tell a config from
others up to the order of keys (`TriplesTell`, `LinesTell`). If the configs are equal up to
that order, their lists of lines differ in the places of the stamps only (`Alike`), so a
diff that keeps all others exists; as the one made keeps as many as any, it changes nothing
but stamps (`AlikeMarked`, `ChangeShown`). Of the live config's history the theorem needs only that its
sections hold records with the fields of their section (`Shaped`).

*Codes.* `DecodeInvariant` says of the last report that its code ends in its checksum, was
made for a version that was live, and decodes, against the artifact of that version as long
as there is one, to what was served (`Tells`); and of the archive that no object is of a
version that was never live, and that the one of the live version is the live config. A
publish may lose an object but never replaces one, so the rest is one call of the encoder.
`RoundTrip` follows the bits: a number of `BitWidth(count)` bits holds any index below
`count` (`WidthFits`, `ReadWrite`), the fields lie one behind the other where the decoder's
sums say (`FlattenParts`, `StreamFields`), bytes and digits hold them with zeros behind
(`PiecesAre`, `DigitsAre`), and all but the last byte is what was checked (`PayloadBack`).
`PathServed` adds that the path a client ends at is at the index it reports, with the value
it serves.

A mistyped code has half a byte or differs in one digit or in two neighbours. `ReduceTells`
says that what a byte is reduced to tells it apart, so from the first byte that differs on,
the checksums do until another difference makes up for it (`Differing`). In digits of one
byte there is no other (`OneByteTells`). The hard case is two neighbours of two bytes, low
digit and high digit, where the second could undo the first: `LowDigitTells` shows that bytes that agree in
their high digit are reduced to bytes that differ in the low one, which the second change
leaves alone (`TwoDigitsTell`). It follows the difference of two bytes through the eight
rounds, forward until the polynomial is first applied to it and backward from the low digit.
More is shown than the property asks: any change of two neighbouring digits is found
(`NeighboursTell`), and of the property's two conditions, which spare TLC states, that the
version is live and nothing is pending, the proof uses neither.

What is left to TLC is liveness (`Answered`, both modules, and `TabConverges`): fairness and
ENABLED are beyond the prover.

## 5. Plan

The plan is carried out: every component whose state another part relies on is modelled,
and every safety property of a passing run is a theorem. What could follow is the
composition of `Publish` and `SigningKeys`, each of which takes the other's steps as one,
and the pages that section 6 leaves out.

## 6. What is not modelled, and why

- Signature mathematics, hashing and encryption of private keys: pure functions
  from libraries. A signature is identified with the bytes it was made for.
- Wording of diffs and logs, layout, searching and collapsing: no property is
  about them.
- The read-only routes (history, download, health, activity) and the activity log:
  nothing else reads what they produce.
- The pages for releases, settings, users and sign-in: they show what read-only
  routes return, or send one field to a handler that `Apps`, `Access` or
  `SigningKeys` models. (The delete dialog of the settings page only logs, and the
  page edits the first app of the list.) The version the publish page shows in
  advance is not modelled either.
- The rate limiter: a fixed window per process, approximate by its own comment.
- Components no page imports.
- Maintenance scripts and seed data: run by hand, once, with the server stopped.
- Clock skew between instances and two dates in the same millisecond (section 2).
- Retries inside the AWS SDK: a repeated `PutObject` writes the same bytes, and a
  reported error may be one of the two kinds of fault modelled.
- Two deliveries of one HTTP request: they are two requests.
- The client SDK is not in the repository; `Resolve` is what `docs/`, the
  bucketing and the fingerprint encoder say of it.

Two divergences no run is about. `docs/config-artifact-spec.md:53` describes json values as
embedded objects, not strings; the code and the rest of the repository say the opposite:
publishing refuses a json value that is not a string, because clients reject the whole
artifact for it (`lib/config-validation.ts:79-84`), and `docs/concepts.md:73` calls that
check blocking. `PublishedDecodes` follows the code. And the comment at
`lib/json-diff.ts:1-4` has the screen show "genuine value changes, not incidental
key-ordering differences", while the comparison that decides whether there is anything to
publish does count the order of keys inside an item: migrating a legacy condition by hand
is such a change, for which the diff shows the stamps and nothing else (`DiffTellsChanges`).
