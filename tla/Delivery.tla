------------------------------ MODULE Delivery ------------------------------
(***************************************************************************)
(* From the editors to the devices: the rows behind flags, tests and       *)
(* rollouts and every handler that writes them, the publish that turns     *)
(* them into an artifact, the client that resolves the live artifact and   *)
(* reports what it got as a fingerprint, and the support screen that       *)
(* decodes the report, perhaps long after and perhaps mistyped.            *)
(*                                                                         *)
(* The order of the writes of one publish is the subject of Publish; here  *)
(* a publish is one step, whose archive object may be missing.             *)
(***************************************************************************)
EXTENDS Fingerprint

CONSTANTS
  KeyShapes,    \* the keys administrators type
  FlagPatches,  \* bodies of PUT /api/flags/[id]
  ExpPatches,   \* [{"TEST", "ROLLOUT"} -> bodies of PUT], of the three PUT routes
  Percentages,  \* bodies of PUT /api/rollouts/[id]/percentage
  NewTests,     \* bodies of POST /api/tests: lists of pairs of a name and a percentage
  ReportEnvs,   \* environments of the devices that report
  Versions,     \* the values app_version takes on a device
  NewTestRollouts,  \* bodies of POST /api/test-rollouts
  NewFlags,     \* POST /api/flags: pairs of a type and the value of all three defaults
  Starts,       \* pairs of flag and experiment rows: earlier edits
  MaxEdits,     \* bound: handlers that write rows
  MaxPublishes  \* bound: published versions

ASSUME DeliveryAssumption ==
  /\ MaxEdits \in Nat /\ MaxPublishes \in Nat
  /\ \A key \in KeyShapes : key # <<>> /\ key \in Seq(Segment)
  /\ Percentages \subseteq 0 .. 100 /\ ReportEnvs \subseteq Envs

FlagColumns == {"key", "type", "defaults", "variants"}

ExpColumns == {"key", "type", "conditions", "flagIds", "variants", "percentage",
               "rolloutValues", "archived"}

\* Conditional variants have numbers to be sorted by, if any; a value they may lack.
ConditionalsTyped(variants) ==
  \A env \in Envs :
    /\ variants[env] \in Seq(Range(variants[env]))
    /\ \A v \in Range(variants[env]) : v.order \in Int \cup {Null}

GroupsTyped(variants) == variants # Null => DOMAIN variants \subseteq Groups

\* What a body may write of a row.
FlagPatchTyped(patch) ==
  /\ DOMAIN patch \subseteq FlagColumns
  /\ "variants" \in DOMAIN patch => ConditionalsTyped(patch.variants)

ExpPatchTyped(patch) ==
  /\ DOMAIN patch \subseteq ExpColumns
  /\ "variants" \in DOMAIN patch => GroupsTyped(patch.variants)
  /\ "flagIds" \in DOMAIN patch => patch.flagIds \in Seq(Range(patch.flagIds))

FlagTyped(row) == DOMAIN row = FlagColumns /\ FlagPatchTyped(row)

ExpTyped(row) == DOMAIN row = ExpColumns /\ row.type \in {"TEST", "ROLLOUT"} /\ ExpPatchTyped(row)

\* Rows and bodies have their columns, and a body does not change a row's type.
ASSUME BodiesAssumption ==
  /\ FlagOrder \in Seq(Flags) /\ ExpOrder \in Seq(Experiments) /\ GroupOrder \in Seq(Groups)
  /\ \A patch \in FlagPatches : FlagPatchTyped(patch)
  /\ \A type \in {"TEST", "ROLLOUT"} : \A patch \in ExpPatches[type] :
       ExpPatchTyped(patch) /\ "type" \notin DOMAIN patch
  /\ \A split \in NewTests : \A i \in DOMAIN split : split[i][1] \in Groups
  /\ \A body \in NewTestRollouts :
       ExpPatchTyped(body) /\ "type" \in DOMAIN body /\ body.type \in {"TEST", "ROLLOUT"}
  /\ \A start \in Starts :
       /\ DOMAIN start[1] = Flags
       /\ \A f \in Flags : start[1][f] # Null => FlagTyped(start[1][f])
       /\ DOMAIN start[2] = Experiments
       /\ \A e \in Experiments : start[2][e] # Null => ExpTyped(start[2][e])

VARIABLES
  flags,    \* flag rows
  exps,     \* test and rollout rows
  live,     \* the object config.json: a version and a config
  archive,  \* the objects config-<version>.json
  report,   \* one client's report: what it was served and its code
  edits     \* handlers run so far

vars == <<flags, exps, live, archive, report, edits>>

Environments(value) == [env \in Envs |-> value]

\* Every row has the columns of its table.
TypeOK ==
  /\ DOMAIN flags = Flags /\ DOMAIN exps = Experiments
  /\ \A f \in Flags : flags[f] # Null => FlagTyped(flags[f])
  /\ \A e \in Experiments : exps[e] # Null => ExpTyped(exps[e])

\* A new app: its first artifact, version 0 here, is empty.
Init ==
  /\ \E start \in Starts : flags = start[1] /\ exps = start[2]
  /\ live = [version |-> 0, config |-> [flags |-> <<>>, tests |-> <<>>, rollouts |-> <<>>]]
  /\ archive = <<>>
  /\ report = Null
  /\ edits = 0

-----------------------------------------------------------------------------
(* The rows. *)

Edit ==
  /\ edits < MaxEdits
  /\ edits' = edits + 1
  /\ UNCHANGED <<live, archive, report>>

\* A row with the columns that are written.
Over(row, body) ==
  [x \in DOMAIN row \cup DOMAIN body |-> IF x \in DOMAIN body THEN body[x] ELSE row[x]]

CreateFlag(f, key, type, value) ==
  /\ flags[f] = Null
  /\ flags' = [flags EXCEPT ![f] =
       [key |-> key, type |-> type, defaults |-> Environments(value),
        variants |-> Environments(<<>>)]]
  /\ UNCHANGED exps
  /\ Edit

UpdateFlag(f, patch) ==
  /\ flags[f] # Null
  /\ flags' = [flags EXCEPT ![f] = Over(@, patch)]
  /\ UNCHANGED exps
  /\ Edit

\* The rows that name the flag in flagIds are not touched.
DeleteFlag(f) ==
  /\ flags[f] # Null
  /\ flags' = [flags EXCEPT ![f] = Null]
  /\ UNCHANGED exps
  /\ Edit

\* A name given twice is one group, with the percentage given last.
TestRow(key, split) ==
  [key |-> key, type |-> "TEST", conditions |-> <<>>, flagIds |-> <<>>,
   variants |-> [g \in {split[i][1] : i \in DOMAIN split} |->
                   [percentage |-> split[Max({i \in DOMAIN split : split[i][1] = g})][2],
                    values |-> Environments(Null)]],
   percentage |-> Null, rolloutValues |-> Null, archived |-> FALSE]

CreateTest(e, key, split) ==
  /\ exps[e] = Null
  /\ FoldLeft(LAMBDA sum, group : sum + group[2], 0, split) = 100
  /\ Len(split) >= 2
  /\ exps' = [exps EXCEPT ![e] = TestRow(key, split)]
  /\ UNCHANGED flags
  /\ Edit

RolloutRow(key, percentage) ==
  [key |-> key, type |-> "ROLLOUT", conditions |-> <<>>, flagIds |-> <<>>,
   variants |-> Null, percentage |-> percentage,
   rolloutValues |-> Environments(Null), archived |-> FALSE]

CreateRollout(e, key, percentage) ==
  /\ exps[e] = Null
  /\ exps' = [exps EXCEPT ![e] = RolloutRow(key, percentage)]
  /\ UNCHANGED flags
  /\ Edit

\* POST /api/test-rollouts: the key is made from the name, and nothing is added up.
CreateTestRollout(e, key, body) ==
  /\ exps[e] = Null
  /\ exps' = [exps EXCEPT ![e] =
       Over(IF body.type = "TEST" THEN TestRow(key, <<>>) ELSE RolloutRow(key, Null), body)]
  /\ UNCHANGED flags
  /\ Edit

\* What the body names changes.
Put(e, patch) ==
  /\ exps' = [exps EXCEPT ![e] = Over(@, patch)]
  /\ UNCHANGED flags
  /\ Edit

UpdateTest(e, patch) == exps[e] # Null /\ exps[e].type = "TEST" /\ Put(e, patch)

UpdateRollout(e, patch) == exps[e] # Null /\ exps[e].type = "ROLLOUT" /\ Put(e, patch)

\* PUT /api/test-rollouts/[id]: what the body leaves out is reset, if the
\* database client takes null for a JSON column; if not, nothing changes.
UpdateTestRollout(e, patch) ==
  /\ exps[e] # Null
  /\ Put(e, Over([conditions |-> <<>>, flagIds |-> <<>>, archived |-> FALSE,
                  variants |-> Null, rolloutValues |-> Null], patch))

SetPercentage(e, percentage) ==
  /\ exps[e] # Null /\ exps[e].type = "ROLLOUT"
  /\ exps' = [exps EXCEPT ![e].percentage = percentage]
  /\ UNCHANGED flags
  /\ Edit

ArchiveExperiment(e, kind) ==
  /\ exps[e] # Null
  /\ exps' = [exps EXCEPT
       ![e].archived = TRUE,
       ![e].percentage = IF exps[e].type # "ROLLOUT" THEN @
                         ELSE IF kind = "cancel" THEN 0 ELSE 100]
  /\ UNCHANGED flags
  /\ Edit

DeleteTestRollout(e) ==
  /\ exps[e] # Null
  /\ exps' = [exps EXCEPT ![e] = Null]
  /\ UNCHANGED flags
  /\ Edit

DeleteTest(e) == exps[e] # Null /\ exps[e].type = "TEST" /\ DeleteTestRollout(e)

DeleteRollout(e) == exps[e] # Null /\ exps[e].type = "ROLLOUT" /\ DeleteTestRollout(e)

-----------------------------------------------------------------------------
(* Publishing, fetching, reporting. *)

Publish(archived) ==
  /\ live.version < MaxPublishes
  /\ ~GenerationThrows(flags, exps)
  /\ LET config == GenerateConfig(flags, exps)
         version == live.version + 1
     IN  /\ ValidateConfig(config) = {}
         /\ live' = [version |-> version, config |-> config]
         /\ archive' = IF archived THEN [v \in DOMAIN archive \cup {version} |->
                                          IF v = version THEN config ELSE archive[v]]
                         ELSE archive
  /\ UNCHANGED <<flags, exps, report, edits>>

Attributes(version) ==
  [type \in VersionTypes \cup ListTypes |-> IF type = "app_version" THEN version ELSE Null]

Report(u, env, version) ==
  /\ report = Null /\ live.version > 0
  /\ LET served == [f \in DOMAIN live.config.flags |->
                      Resolve(live.config, f, env, u, Attributes(version))]
     IN  report' = [env |-> env,
                    values |-> [f \in DOMAIN served |-> served[f].value],
                    code |-> EncodeFingerprint(live.version, live.config, env,
                               [f \in DOMAIN served |-> served[f].path])]
  /\ UNCHANGED <<flags, exps, live, archive, edits>>

\* What the support screen decodes a code of that version against.
FetchArtifact(version) ==
  IF version \in DOMAIN archive THEN archive[version]
  ELSE IF live.version = version THEN live.config ELSE Null

Next ==
  \/ \E f \in Flags :
       \/ \E key \in KeyShapes, new \in NewFlags : CreateFlag(f, key, new[1], new[2])
       \/ \E patch \in FlagPatches : UpdateFlag(f, patch)
       \/ DeleteFlag(f)
  \/ \E e \in Experiments :
       \/ \E key \in KeyShapes, split \in NewTests : CreateTest(e, key, split)
       \/ \E key \in KeyShapes, p \in Percentages : CreateRollout(e, key, p)
       \/ \E key \in KeyShapes, body \in NewTestRollouts : CreateTestRollout(e, key, body)
       \/ exps[e] # Null /\ \E patch \in ExpPatches[exps[e].type] :
            \/ UpdateTest(e, patch)
            \/ UpdateRollout(e, patch)
            \/ UpdateTestRollout(e, patch)
       \/ \E p \in Percentages : SetPercentage(e, p)
       \/ \E kind \in {"cancel", "complete"} : ArchiveExperiment(e, kind)
       \/ DeleteTest(e) \/ DeleteRollout(e) \/ DeleteTestRollout(e)
  \/ \E archived \in BOOLEAN : Publish(archived)
  \/ \E u \in Users, env \in ReportEnvs, version \in Versions : Report(u, env, version)

Spec == Init /\ [][Next]_vars

-----------------------------------------------------------------------------
(* Properties. *)

\* A code that can be decoded at all decodes to what the client was served,
\* whatever was edited and published since (fingerprint.ts, decode/route.ts).
DecodedIsResolved ==
  report # Null =>
    LET artifact == FetchArtifact(report.code.version)
        decoded == DecodeFingerprint(artifact, report.code.hex)
    IN  artifact # Null =>
          /\ decoded.error = Null
          /\ decoded.env = report.env
          /\ \A f \in DOMAIN report.values : decoded.flags[f].value = report.values[f]

\* One digit misread, two neighbours swapped, a digit lost or doubled.
Mistyped(hex) ==
  {[hex EXCEPT ![i] = digit] : i \in DOMAIN hex, digit \in {Write(n, 4) : n \in 0 .. 15}}
  \cup {[hex EXCEPT ![i] = hex[i + 1], ![i + 1] = hex[i]] : i \in 1 .. Len(hex) - 1}
  \cup {RemoveAt(hex, i) : i \in DOMAIN hex}
  \cup {InsertAt(hex, i, hex[i]) : i \in DOMAIN hex}

\* A mistyped payload is rejected, never decoded to another configuration
\* (docs/config-fingerprint-spec.md, "Transcription error in HEX").  A code depends
\* on its artifact only: states that add pending edits are not examined again.
MistypedIsRejected ==
  /\ report # Null
  /\ report.code.version = live.version
  /\ ~HasConfigChanges(GenerateConfig(flags, exps), live.config)
  =>
    \A hex \in Mistyped(report.code.hex) \ {report.code.hex} :
       DecodeFingerprint(live.config, hex).error # Null

\* The preview shows a conditional value exactly when that is what a device is
\* served, if no custom attribute is involved: the generator numbers tests and
\* rollouts after every conditional variant (config-generator.ts:247,299).
PreviewAgrees ==
  \A f \in DOMAIN live.config.flags, env \in Envs, u \in Users, version \in Versions :
    LET preview == EvaluateFlag(live.config.flags[f], env, Attributes(version))
        served == Resolve(live.config, f, env, u, Attributes(version))
    IN  Host[u] = {} =>
          /\ preview.reason = "conditional" <=> served.by = "conditional"
          /\ served.by \in {"conditional", "default"} => preview.value = served.value

\* Every variant of a live artifact refers to a test or rollout the artifact
\* defines, and to groups that test has, after any archiving and deletion.
NoDanglingReference ==
  \A f \in DOMAIN live.config.flags, env \in Envs :
    \A variant \in Range(live.config.flags[f].envs[env].variants) :
      /\ variant.type = "rollout" => variant.rollout \in DOMAIN live.config.rollouts
      /\ variant.type = "test" =>
           /\ variant.test \in DOMAIN live.config.tests
           /\ DOMAIN variant.values \subseteq
                {g.name : g \in Range(live.config.tests[variant.test].groups)}

\* A json value that is not JSON text never goes live, in any default, variant or group:
\* publishing blocks it (docs/concepts.md:73), since clients reject such an artifact whole
\* (config-validation.ts:79-84).  The check passes over a conditional variant without a
\* value, which a device is then served nothing for.
PublishedDecodes ==
  \A f \in DOMAIN live.config.flags :
    live.config.flags[f].type = "json" =>
      \A env \in Envs, u \in Users, version \in Versions :
        LET served == Resolve(live.config, f, env, u, Attributes(version))
        IN  /\ live.config.flags[f].envs[env].default \in JsonTexts
            /\ \/ served.value \in JsonTexts
               \/ served.value = Null /\ served.by = "conditional"

\* Whatever was created, edited, archived and deleted before it, a live artifact is whole:
\* what it refers to it defines, and what it serves clients can parse.
LiveIsWhole == NoDanglingReference /\ PublishedDecodes

\* The line diff contains both texts, and no diff keeps one line more.
DiffReplays(before, after, diff) ==
  LET Kept(kinds) == {i \in DOMAIN diff : diff[i].kind \in kinds}
      Side(kind) == Entries([i \in DOMAIN diff |-> diff[i].text], Kept({kind, "context"}))
      Longer(text) == {Entries(text, P) :
                         P \in kSubset(Cardinality(Kept({"context"})) + 1, DOMAIN text)}
  IN  /\ Side("del") = before
      /\ Side("add") = after
      /\ Longer(before) \cap Longer(after) = {}

\* The comparison and the list of changes of the publish screen agree on whether there is
\* anything to publish.  The line diff, shown only then (publish/page.tsx:580), leads from one
\* text to the other; it changes another line than the two stamps exactly when more than the
\* order of keys differs: migrating a legacy condition by hand is a change without such a line
\* (config-comparison.ts, json-diff.ts).
DiffTellsChanges ==
  LET draft == GenerateConfig(flags, exps)
      before == Lines(live.version, live.config)
      after == Lines(Null, draft)
      diff == DiffLines(before, after)
      changed == HasConfigChanges(draft, live.config)
  IN  /\ changed <=> GetConfigChanges(draft, live.config) # {}
      /\ changed =>
           /\ DiffReplays(before, after, diff)
           /\ StableConfig(draft) # StableConfig(live.config) <=>
                \E line \in Range(diff) : line.kind # "context" /\ ~IsStamp(line.text)

=============================================================================
