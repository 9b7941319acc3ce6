----------------------------- MODULE MCDelivery -----------------------------
(* A small instance of Delivery for TLC. *)
EXTENDS Delivery

CONSTANTS f1, f2, r, t, control, extra, on, off, json, text, object, null, u1, u2

MCFlagOrder == <<f1, f2>>
MCExpOrder == <<r, t>>
MCGroupOrder == <<control, extra>>

\* Buckets on both sides of a boundary.
MCBucketOf == [e \in Experiments |-> [u \in Users |-> IF u = u1 THEN 50 ELSE 51]]

\* The host app of u2 answers a custom attribute with "json".
MCHost == [u \in Users |-> IF u = u1 THEN {} ELSE {text}]

Plain == <<[length |-> 8, underscore |-> FALSE]>>
OneLetter == <<[length |-> 1, underscore |-> FALSE]>>
MCKeyShapes == {Plain, OneLetter}

Condition(type, operator, values) ==
  [type |-> type, operator |-> operator, values |-> values, attribute |-> Null]

FromTwo == <<Condition("app_version", "greater_than_or_equal", <<<<2, 0>>>>)>>

\* A condition of an older release, and the same one saved by the editor of today.
Legacy == <<[Condition("custom_attribute", "custom", Null) EXCEPT !.attribute = text]>>
Member == <<Condition("custom_attribute", "custom", <<text>>)>>

MCVersions == {<<1, 9>>, <<2>>}

InProduction(value, other) ==
  [env \in Envs |-> IF env = "production" THEN value ELSE other]

Variants(conditions, value) ==
  InProduction(<<[order |-> 1, value |-> value, conditions |-> conditions]>>, <<>>)

\* A variant stored without an order and without a value.
Bare == InProduction(<<[order |-> Null, value |-> Null, conditions |-> FromTwo]>>, <<>>)

MCFlagPatches ==
  {[type |-> "json", defaults |-> InProduction(json, json), variants |-> Variants(Member, value)] :
     value \in {json, object}}
  \cup {[variants |-> Bare]}

Split(a, b) == [g \in Groups |-> IF g = control THEN a ELSE b]

Assign(f, value) == InProduction([g \in {f} |-> value], Null)

MCExpPatches ==
  [type \in {"TEST", "ROLLOUT"} |->
     IF type = "TEST"
     THEN {[flagIds |-> <<f1, f1>>,
            variants |-> [g \in Groups |->
              [percentage |-> Split(100, 0)[g], values |-> Assign(f1, on)]]],
           [conditions |-> FromTwo]}
     ELSE {[flagIds |-> <<f1, f2>>, rolloutValues |-> Assign(f1, on)],
           [flagIds |-> <<f2>>, rolloutValues |-> Assign(f2, null)],
           [conditions |-> FromTwo, archived |-> FALSE]}]

MCNewTestRollouts ==
  {[type |-> "TEST", flagIds |-> <<f2>>,
    variants |-> [g \in {control} |-> [percentage |-> 100, values |-> Assign(f2, json)]]],
   [type |-> "ROLLOUT", percentage |-> 50, conditions |-> FromTwo]}

MCNewFlags == {<<"bool", on>>, <<"json", object>>}

MCNewTests ==
  {<<<<control, 50>>, <<extra, 50>>>>, <<<<control, 50>>, <<control, 50>>>>,
   <<<<control, 100>>, <<extra, 100>>>>}

Row(type) ==
  [key |-> Plain, type |-> type, conditions |-> <<>>, flagIds |-> <<f1>>,
   variants |-> IF type = "TEST"
                THEN [g \in Groups |-> [percentage |-> 50,
                        values |-> Assign(f1, IF g = control THEN off ELSE on)]]
                ELSE Null,
   percentage |-> IF type = "TEST" THEN Null ELSE 50,
   rolloutValues |-> IF type = "TEST" THEN Null ELSE Assign(f1, on),
   archived |-> FALSE]

FlagRow(type, value) ==
  [key |-> Plain, type |-> type, defaults |-> Environments(value),
   variants |-> IF type = "bool" THEN Variants(FromTwo, on) ELSE Variants(Legacy, json)]

MCStarts ==
  {<<[f \in Flags |-> IF f = f1 THEN FlagRow("bool", off) ELSE FlagRow("json", json)],
     [e \in Experiments |-> Row(IF e = r THEN "ROLLOUT" ELSE "TEST")]>>}

=============================================================================
