----------------------------- MODULE Evaluation -----------------------------
(***************************************************************************)
(* What a user gets from an artifact: the admin's preview                  *)
(* (lib/flag-evaluation.ts), the bucketing (lib/bucketing.ts), and the     *)
(* client, which the preview and the bucketing describe.                   *)
(*                                                                         *)
(* A version is its sequence of numbers; "1" and "1.0" are different       *)
(* strings and equal versions.  SHA-256 is the constant BucketOf.          *)
(***************************************************************************)
EXTENDS Artifact

CONSTANTS
  Users,     \* devices, told apart by localId
  BucketOf,  \* [Experiments -> [Users -> 1 .. 100]]: the hash of salt and localId
  Host       \* [Users -> SUBSET Values]: custom attributes the host app answers

VersionTypes == {"app_version", "os_version", "build_number"}
ListTypes == {"language", "platform", "device_model", "region"}

CompareVersions(a, b) ==
  LET Part(v, i) == IF i <= Len(v) THEN v[i] ELSE 0
      differ == {i \in DOMAIN a \cup DOMAIN b : Part(a, i) # Part(b, i)}
  IN  IF differ = {} THEN 0
      ELSE IF Part(a, Min(differ)) < Part(b, Min(differ)) THEN -1 ELSE 1

EvaluateVersionCondition(user, operator, values) ==
  /\ user # Null /\ values # <<>>
  /\ LET order == CompareVersions(user, values[1])
     IN  CASE operator = "equals" -> user = values[1]
           [] operator = "does_not_equals" -> user # values[1]
           [] operator = "greater_than" -> order > 0
           [] operator = "greater_than_or_equal" -> order >= 0
           [] operator = "less_than" -> order < 0
           [] operator = "less_than_or_equal" -> order <= 0
           [] operator = "between" ->
                Len(values) >= 2 /\ order >= 0 /\ CompareVersions(user, values[2]) <= 0
           [] OTHER -> FALSE

EvaluateListCondition(user, operator, values) ==
  /\ user # Null
  /\ \/ operator = "in" /\ user \in Range(values)
     \/ operator = "not_in" /\ user \notin Range(values)

\* custom: the answer to custom attributes, FALSE in the preview.
EvaluateCondition(c, attributes, custom) ==
  \/ /\ c.type \in VersionTypes
     /\ EvaluateVersionCondition(attributes[c.type], c.operator, c.values)
  \/ /\ c.type \in ListTypes
     /\ EvaluateListCondition(attributes[c.type], c.operator, c.values)
  \/ /\ c.type = "custom_attribute"
     /\ c.values # <<>> /\ c.values[1] \in custom

EvaluateConditions(conditions, attributes, custom) ==
  \A i \in DOMAIN conditions : EvaluateCondition(conditions[i], attributes, custom)

\* The preview: tests and rollouts are passed over.
EvaluateFlag(flag, env, attributes) ==
  LET variants == SortByOrder(flag.envs[env].variants)
      hits == {i \in DOMAIN variants :
                 /\ variants[i].type = "conditional"
                 /\ EvaluateConditions(variants[i].conditions, attributes, {})}
  IN  IF hits = {} THEN [value |-> flag.envs[env].default, reason |-> "default"]
      ELSE [value |-> variants[Min(hits)].value, reason |-> "conditional"]

-----------------------------------------------------------------------------
(* lib/bucketing.ts *)

IsInRollout(e, user, percentage) ==
  /\ percentage > 0
  /\ percentage >= 100 \/ BucketOf[e][user] <= percentage

\* The sums of the first k numbers, for every k.
Sums(numbers) ==
  LET sum[k \in 0 .. Len(numbers)] == IF k = 0 THEN 0 ELSE sum[k - 1] + numbers[k]
  IN  sum

\* The group whose share of 1 .. 100 holds the bucket; Null beyond the last share.
AssignVariant(e, user, groups) ==
  LET upto == Sums([i \in DOMAIN groups |-> groups[i].percentage])
      hits == {i \in DOMAIN groups : BucketOf[e][user] <= upto[i]}
  IN  IF hits = {} THEN Null ELSE groups[Min(hits)].name

-----------------------------------------------------------------------------
(* The client. *)

\* Number of resolution paths a variant has.
Width(config, variant) ==
  IF variant.type = "test" THEN Len(config.tests[variant.test].groups) ELSE 1

\* The position of the path a variant serves the user by, 0 if it does not.
Taken(config, variant, user, attributes) ==
  CASE variant.type = "conditional" ->
         IF EvaluateConditions(variant.conditions, attributes, Host[user]) THEN 1 ELSE 0
    [] variant.type = "rollout" ->
         LET rollout == config.rollouts[variant.rollout]
         IN  IF /\ EvaluateConditions(rollout.conditions, attributes, Host[user])
                /\ IsInRollout(variant.rollout, user, rollout.percentage)
             THEN 1 ELSE 0
    [] variant.type = "test" ->
         LET test == config.tests[variant.test]
             group == AssignVariant(variant.test, user, test.groups)
         IN  IF /\ EvaluateConditions(test.conditions, attributes, Host[user])
                /\ group \in DOMAIN variant.values
             THEN CHOOSE i \in DOMAIN test.groups : test.groups[i].name = group
             ELSE 0

\* Paths of the variants before the i-th.
PathsBefore(config, variants, i) ==
  Sums([k \in DOMAIN variants |-> Width(config, variants[k])])[i - 1]

\* The value served and the index of its path: 0 is the default.
Resolve(config, f, env, user, attributes) ==
  LET cfg == config.flags[f].envs[env]
      variants == cfg.variants
      hits == {i \in DOMAIN variants : Taken(config, variants[i], user, attributes) > 0}
  IN  IF hits = {} THEN [value |-> cfg.default, path |-> 0, by |-> "default"]
      ELSE LET i == Min(hits)
               v == variants[i]
               at == Taken(config, v, user, attributes)
           IN  [value |-> IF v.type = "test"
                          THEN v.values[config.tests[v.test].groups[at].name]
                          ELSE v.value,
                path |-> PathsBefore(config, variants, i) + at,
                by |-> v.type]

=============================================================================
