------------------------------ MODULE Artifact ------------------------------
(***************************************************************************)
(* From rows to the published config: lib/config-generator.ts, the         *)
(* publish-time checks of lib/config-validation.ts, the key rule of        *)
(* lib/validation.ts, and the comparison of two configs                    *)
(* (lib/config-comparison.ts, lib/json-diff.ts).                           *)
(*                                                                         *)
(* A row is named by its id, and ids are listed in the order of their      *)
(* keys; of the key itself only the shape matters.  A stored assigned      *)
(* value is Null, a boolean, a string, a raw object, or a map from flags   *)
(* to values.                                                              *)
(***************************************************************************)
EXTENDS Integers, Sequences, FiniteSets, SequencesExt

CONSTANTS
  FlagOrder,   \* the flag rows, ascending by key
  ExpOrder,    \* the test and rollout rows, ascending by key
  GroupOrder,  \* the names of test groups, in the order the column keeps them
  Booleans,    \* boolean values
  JsonTexts,   \* strings that parse as JSON
  PlainTexts,  \* strings that do not
  Objects,     \* values of other kinds: raw objects, arrays, a null inside a map
  Null         \* null, undefined or an absent row

Flags == Range(FlagOrder)
Experiments == Range(ExpOrder)
Groups == Range(GroupOrder)
Texts == JsonTexts \cup PlainTexts
Values == Booleans \cup Texts \cup Objects

EnvNames == <<"development", "beta", "production">>
Envs == Range(EnvNames)

-----------------------------------------------------------------------------
(* Keys: one record per /-separated segment. *)

Segment == [length : Nat, underscore : BOOLEAN]

KeyLength(key) ==
  FoldLeft(LAMBDA n, s : n + s.length, Len(key) - 1, key)

\* What config generation accepts.
ValidateIdentifierKey(key) ==
  /\ ~Last(key).underscore
  /\ KeyLength(key) <= 64
  /\ KeyLength(key) >= 2

-----------------------------------------------------------------------------
(* lib/config-generator.ts *)

\* A finite set as a list, by a strict total order: a member has as many before it
\* as are below it.
SortedBy(S, order) ==
  [k \in 1 .. Cardinality(S) |->
     CHOOSE x \in S : Cardinality({y \in S : <<y, x>> \in order}) = k - 1]

\* The entries of a list at a set of places, in the order of the list.
Entries(list, P) ==
  LET at == SortedBy(P, {p \in P \X P : p[1] < p[2]})
  IN  [k \in DOMAIN at |-> list[at[k]]]

\* The members of S in the order of a list without repetition.
InOrder(list, S) == Entries(list, {i \in DOMAIN list : list[i] \in S})

\* The key values of a condition migrated without one comes after its other keys; the
\* database keeps it before operator.  Only legacy conditions lack values or have an attribute.
NormalizeCondition(c) ==
  LET migrated == /\ c.type = "custom_attribute"
                  /\ c.attribute # Null /\ c.values \in {Null, <<>>}
  IN  [type |-> c.type, operator |-> c.operator,
       values |-> IF migrated THEN <<c.attribute>> ELSE c.values,
       attribute |-> IF migrated THEN Null ELSE c.attribute,
       valuesLast |-> migrated /\ c.values = Null]

\* A raw object has no entry for a flag.
ResolveFlagSpecificValue(stored, f) ==
  IF stored \in {Null} \cup Objects THEN Null
  ELSE IF stored \in Booleans \cup Texts THEN stored
  ELSE IF f \in DOMAIN stored THEN stored[f] ELSE Null

\* Slip: an assigned variant is numbered from zero, so it may precede conditional ones.
NoOrder(variants) == -10

HighestOrder(variants) ==
  IF variants = <<>> THEN 0 ELSE Max({v.order : v \in Range(variants)})

NormalizedConditions(conditions) ==
  [i \in DOMAIN conditions |-> NormalizeCondition(conditions[i])]

Conditional(variant) ==
  [type |-> "conditional", value |-> variant.value,
   order |-> IF variant.order = Null THEN 0 ELSE variant.order,
   conditions |-> NormalizedConditions(variant.conditions)]

StoredVariants(row) == IF row.variants = Null THEN <<>> ELSE row.variants

\* What a test serves for a flag: a value for each group that has one.
GroupValues(row, f, env) ==
  LET variants == StoredVariants(row)
      ValueOf(g) == ResolveFlagSpecificValue(variants[g].values[env], f)
  IN  [g \in {h \in DOMAIN variants : ValueOf(h) # Null} |-> ValueOf(g)]

RolloutValue(row, f, env) ==
  IF row.rolloutValues = Null THEN Null ELSE ResolveFlagSpecificValue(row.rolloutValues[env], f)

Serves(row, f, env) ==
  /\ f \in Range(row.flagIds)
  /\ IF row.type = "TEST" THEN DOMAIN GroupValues(row, f, env) # {}
     ELSE RolloutValue(row, f, env) # Null

Assigned(e, row, f, env, order) ==
  IF row.type = "TEST"
  THEN [type |-> "test", order |-> order, test |-> e, values |-> GroupValues(row, f, env)]
  ELSE [type |-> "rollout", order |-> order, rollout |-> e, value |-> RolloutValue(row, f, env)]

SortByOrder(variants) ==
  LET places == DOMAIN variants
      Before(i, j) == \/ variants[i].order < variants[j].order
                      \/ variants[i].order = variants[j].order /\ i < j
      place == SortedBy(places, {p \in places \X places : Before(p[1], p[2])})
  IN  [i \in DOMAIN variants |-> variants[place[i]]]

\* Slip: groups without traffic are left out.
GroupsWithTraffic(row) ==
  LET named == InOrder(GroupOrder, {g \in DOMAIN StoredVariants(row) :
                                      row.variants[g].percentage > 0})
  IN  [i \in DOMAIN named |->
         [name |-> named[i], percentage |-> row.variants[named[i]].percentage]]

TestGroups(row) ==
  LET named == InOrder(GroupOrder, DOMAIN StoredVariants(row))
  IN  [i \in DOMAIN named |->
         [name |-> named[i], percentage |-> row.variants[named[i]].percentage]]

Running(exps) == {e \in Experiments : exps[e] # Null /\ ~exps[e].archived}

OfType(exps, type) == {e \in Running(exps) : exps[e].type = type}

GenerationThrows(flags, exps) ==
  \/ \E f \in Flags : flags[f] # Null /\ ~ValidateIdentifierKey(flags[f].key)
  \/ \E e \in Running(exps) : ~ValidateIdentifierKey(exps[e].key)

\* The tests and rollouts that serve a flag, one entry for each time flagIds names it.
Serving(f, env, exps) ==
  LET serve == {k \in DOMAIN ExpOrder :
                  ExpOrder[k] \in Running(exps) /\ Serves(exps[ExpOrder[k]], f, env)}
      slots == UNION {{k} \X {j \in DOMAIN exps[ExpOrder[k]].flagIds :
                                exps[ExpOrder[k]].flagIds[j] = f} : k \in serve}
      at == SortedBy(slots, {p \in slots \X slots :
                               \/ p[1][1] < p[2][1]
                               \/ p[1][1] = p[2][1] /\ p[1][2] < p[2][2]})
  IN  [i \in DOMAIN at |-> ExpOrder[at[i][1]]]

\* Each assigned variant is pushed ten above the highest order so far.
EnvironmentConfig(f, env, flags, exps) ==
  LET stored == flags[f].variants[env]
      conditional == [i \in DOMAIN stored |-> Conditional(stored[i])]
      serving == Serving(f, env, exps)
      assigned == [k \in DOMAIN serving |->
                     Assigned(serving[k], exps[serving[k]], f, env,
                              HighestOrder(conditional) + 10 * k)]
  IN  [default |-> flags[f].defaults[env], variants |-> SortByOrder(conditional \o assigned)]

GenerateConfig(flags, exps) ==
  [flags |->
     [f \in {g \in Flags : flags[g] # Null} |->
        [type |-> flags[f].type,
         envs |-> [env \in Envs |-> EnvironmentConfig(f, env, flags, exps)]]],
   tests |->
     [e \in OfType(exps, "TEST") |->
        [conditions |-> NormalizedConditions(exps[e].conditions), groups |-> TestGroups(exps[e])]],
   rollouts |->
     [e \in OfType(exps, "ROLLOUT") |->
        [conditions |-> NormalizedConditions(exps[e].conditions),
         percentage |-> IF exps[e].percentage = Null THEN 0 ELSE exps[e].percentage]]]

-----------------------------------------------------------------------------
(* lib/config-validation.ts *)

VariantValues(variant) ==
  IF variant.type = "test" THEN Range(variant.values) ELSE {variant.value}

ServedValues(flag, env) ==
  {flag.envs[env].default} \cup
    UNION {VariantValues(v) : v \in Range(flag.envs[env].variants)}

JsonStrings(flag) ==
  \A env \in Envs : ServedValues(flag, env) \subseteq JsonTexts \cup {Null}

FlagTypes == {"bool", "string", "json"}

ValidateFlagValue(type, value) ==
  CASE type = "bool" -> value \in Booleans
    [] type = "string" -> value \in Texts
    [] type = "json" -> value \in JsonTexts

ValidateConfig(config) ==
  {error \in (DOMAIN config.flags) \X {"missing_default", "invalid_type", "invalid_json"} :
     LET flag == config.flags[error[1]]
     IN  CASE error[2] = "missing_default" -> \E env \in Envs : flag.envs[env].default = Null
           [] error[2] = "invalid_type" -> flag.type \notin FlagTypes
           [] error[2] = "invalid_json" -> flag.type = "json" /\ ~JsonStrings(flag)}

-----------------------------------------------------------------------------
(* lib/config-comparison.ts: JSON.stringify keeps the order of keys inside an item, *)
(* so the place of a condition's values (valuesLast) counts.                        *)

HasConfigChanges(current, published) ==
  \/ published = Null
  \/ current.flags # published.flags
  \/ current.tests # published.tests
  \/ current.rollouts # published.rollouts

\* Slip: an item that disappeared is not a change.
DiffPresent(kind, current, published) ==
  {[type |-> kind, key |-> k,
    action |-> IF k \notin DOMAIN published THEN "added" ELSE "modified"] :
     k \in {x \in DOMAIN current :
              x \in DOMAIN published => current[x] # published[x]}}

DiffSection(kind, current, published) ==
  {[type |-> kind, key |-> k,
    action |-> IF k \notin DOMAIN published THEN "added"
               ELSE IF k \notin DOMAIN current THEN "removed" ELSE "modified"] :
     k \in {x \in DOMAIN current \cup DOMAIN published :
              x \in DOMAIN current \cap DOMAIN published => current[x] # published[x]}}

GetConfigChanges(current, published) ==
  IF published = Null
  THEN {[type |-> "flag", key |-> k, action |-> "added"] : k \in DOMAIN current.flags}
  ELSE DiffSection("flag", current.flags, published.flags)
       \cup DiffSection("test", current.tests, published.tests)
       \cup DiffSection("rollout", current.rollouts, published.rollouts)

-----------------------------------------------------------------------------
(* lib/json-diff.ts: a line here is any value compared for equality. *)

\* Slip: the table is allocated but never filled.
LcsUnfilled(a, b) ==
  [p \in (1 .. Len(a) + 1) \X (1 .. Len(b) + 1) |-> 0]

Lcs(a, b) ==
  LET dp[p \in (1 .. Len(a) + 1) \X (1 .. Len(b) + 1)] ==
        IF p[1] > Len(a) \/ p[2] > Len(b) THEN 0
        ELSE IF a[p[1]] = b[p[2]] THEN dp[<<p[1] + 1, p[2] + 1>>] + 1
        ELSE Max({dp[<<p[1] + 1, p[2]>>], dp[<<p[1], p[2] + 1>>]})
  IN  dp

\* The diff of what the lists hold from a place of each on.
DiffFrom(a, b) ==
  LET dp == Lcs(a, b)
      from[p \in (1 .. Len(a) + 1) \X (1 .. Len(b) + 1)] ==
        LET Del == <<[kind |-> "del", text |-> a[p[1]]]>> \o from[<<p[1] + 1, p[2]>>]
            Add == <<[kind |-> "add", text |-> b[p[2]]]>> \o from[<<p[1], p[2] + 1>>]
        IN  CASE p[1] > Len(a) /\ p[2] > Len(b) -> <<>>
              [] p[1] > Len(a) /\ p[2] <= Len(b) -> Add
              [] p[1] <= Len(a) /\ p[2] > Len(b) -> Del
              [] OTHER ->
                   IF a[p[1]] = b[p[2]]
                   THEN <<[kind |-> "context", text |-> a[p[1]]]>>
                        \o from[<<p[1] + 1, p[2] + 1>>]
                   ELSE IF dp[<<p[1] + 1, p[2]>>] >= dp[<<p[1], p[2] + 1>>] THEN Del ELSE Add
  IN  from

DiffLines(a, b) == DiffFrom(a, b)[<<1, 1>>]

\* What stableStringify makes of conditions: the order of keys no longer counts.
StableConditions(conditions) ==
  [i \in DOMAIN conditions |-> [conditions[i] EXCEPT !.valuesLast = FALSE]]

StableItem(item) == [item EXCEPT !.conditions = StableConditions(@)]

StableFlag(flag) ==
  LET StableVariant(v) == IF v.type = "conditional" THEN StableItem(v) ELSE v
      StableEnv(cfg) ==
        [default |-> cfg.default,
         variants |-> [i \in DOMAIN cfg.variants |-> StableVariant(cfg.variants[i])]]
  IN  [type |-> flag.type, envs |-> [env \in Envs |-> StableEnv(flag.envs[env])]]

StableConfig(config) ==
  [flags |-> [f \in DOMAIN config.flags |-> StableFlag(config.flags[f])],
   tests |-> [e \in DOMAIN config.tests |-> StableItem(config.tests[e])],
   rollouts |-> [e \in DOMAIN config.rollouts |-> StableItem(config.rollouts[e])]]

\* The items of a section in the order of their keys, one line each.
Section(name, items, order) ==
  LET keys == InOrder(order, DOMAIN items)
  IN  [i \in DOMAIN keys |-> <<name, keys[i], items[keys[i]]>>]

\* The lines of an artifact, keys sorted.  Its identifier and schema, the same in both, are
\* left out; config_version and published_at are Null until it is published.
Lines(stamp, config) ==
  LET stable == StableConfig(config)
  IN  <<<<"config_version", stamp>>>> \o Section("flags", stable.flags, FlagOrder)
        \o <<<<"published_at", stamp>>>> \o Section("rollouts", stable.rollouts, ExpOrder)
        \o Section("tests", stable.tests, ExpOrder)

IsStamp(text) == text[1] \in {"config_version", "published_at"}

=============================================================================
