-------------------------- MODULE ExperimentForms --------------------------
(***************************************************************************)
(* The two forms in which tests and rollouts are created and edited        *)
(* (components/features/tests/test-form.tsx, rollouts/rollout-form.tsx):   *)
(* what they hold, what one gesture in each section makes of it, what they *)
(* derive and show, when they let it be saved, and what they then send.    *)
(*                                                                         *)
(* A section is the set of forms one gesture in it leads to.  A text is a  *)
(* sequence of characters; the two optional texts that change nothing else *)
(* (description or hypothesis, and the list heading) are one, `notes`.     *)
(***************************************************************************)
EXTENDS Integers, Sequences, FiniteSets, SequencesExt, FiniteSetsExt

CONSTANTS
  Null,
  Names,       \* what administrators type as the name of a test or rollout
  GroupNames,  \* ... of a group
  Numbers,     \* ... as a weight or percentage; Null is no number at all
  Texts,       \* ... as the value of a condition: the words between the commas
  Types,       \* the condition types they choose
  Notes,       \* the optional texts
  KeyOrder,    \* the names of groups in the order jsonb keeps keys: shorter ones first, then by bytes
  MaxSegment   \* longest segment of a key (50)

ASSUME FormAssumption ==
  /\ Numbers \subseteq Nat \cup {Null}
  /\ MaxSegment \in Nat \ {0}
  /\ \A text \in Texts : text \in Seq(STRING)
  /\ GroupNames \cup {"Treatment", "Control", "Group 3", "Group 4", "Group 5"}
       \subseteq Range(KeyOrder)

-----------------------------------------------------------------------------
(* Keys. *)

Letters == {"a", "b"}
Digits  == {"1", "2"}

Lower(text) == [i \in DOMAIN text |-> CASE text[i] = "A" -> "a" [] text[i] = "B" -> "b"
                                        [] OTHER -> text[i]]

Collapse(text, c) ==
  FoldLeft(LAMBDA kept, x : IF x = c /\ kept # <<>> /\ Last(kept) = c THEN kept ELSE Append(kept, x),
           <<>>, text)

\* One character off either end.
Strip(text, c) ==
  LET tail == IF text # <<>> /\ Head(text) = c THEN Tail(text) ELSE text
  IN  IF tail # <<>> /\ Last(tail) = c THEN Front(tail) ELSE tail

Slug(text) ==
  LET low == Lower(text)
  IN  Strip(Collapse([i \in DOMAIN low |-> IF low[i] \in Letters \cup Digits THEN low[i] ELSE "_"],
                     "_"), "_")

NormalizeKey(text) ==
  LET kept == SelectSeq(Lower(text), LAMBDA c : c \in Letters \cup Digits \cup {"/", " "})
      words == Collapse([i \in DOMAIN kept |-> IF kept[i] = " " THEN "_" ELSE kept[i]], "_")
  IN  Strip(Collapse(Strip(words, "_"), "/"), "/")

ValidKey(key) ==
  /\ key # <<>> /\ key[1] \in Letters
  /\ \A i \in DOMAIN key :
       /\ key[i] \in Letters \cup Digits \cup {"_", "/"}
       /\ key[i] = "/" => i < Len(key) /\ key[i + 1] \in Letters
       /\ key[i] = "_" => i < Len(key) /\ key[i + 1] # "/"
       /\ i + MaxSegment <= Len(key) => \E j \in i .. i + MaxSegment : key[j] = "/"

-----------------------------------------------------------------------------
(* What the forms hold. *)

\* As even as whole numbers allow; the first ones take what is left over.
EvenSplit(groups) ==
  LET base == 100 \div Len(groups)
      rem == 100 - base * Len(groups)
  IN  [i \in DOMAIN groups |->
         [groups[i] EXCEPT !.weight = base + IF i <= rem THEN 1 ELSE 0]]

Sum(groups) == FoldSeq(LAMBDA g, sum : g.weight + sum, 0, groups)

NewTest ==
  [type |-> "TEST", mode |-> "create", key |-> <<>>, name |-> <<>>,
   groups |-> <<[name |-> "Treatment", weight |-> 50], [name |-> "Control", weight |-> 50]>>,
   adjust |-> FALSE, percentage |-> Null, on |-> FALSE, conditions |-> <<>>, notes |-> Null]

NewRollout ==
  [NewTest EXCEPT !.type = "ROLLOUT", !.groups = <<>>, !.percentage = 10]

\* A stored row as the edit page hands it to the form.  The groups come
\* back in the order of the column's keys, which decides whether they count as an even split.
EditTest(row) ==
  LET names == SelectSeq(KeyOrder, LAMBDA name : name \in DOMAIN row.variants)
      groups == [i \in DOMAIN names |->
                   [name |-> names[i], weight |-> row.variants[names[i]].percentage]]
  IN  [type |-> "TEST", mode |-> "edit", key |-> row.key, name |-> row.name,
       groups |-> IF groups = <<>> THEN NewTest.groups ELSE groups,
       adjust |-> groups # <<>> /\ groups # EvenSplit(groups),
       percentage |-> Null, on |-> row.conditions # <<>>, conditions |-> row.conditions,
       notes |-> row.notes]

EditRollout(row) ==
  [type |-> "ROLLOUT", mode |-> "edit", key |-> row.key, name |-> row.name, groups |-> <<>>,
   adjust |-> FALSE, percentage |-> IF row.percentage = Null THEN 0 ELSE row.percentage,
   on |-> row.conditions # <<>>, conditions |-> row.conditions, notes |-> row.notes]

-----------------------------------------------------------------------------
(* What they derive. *)

\* A test's key follows its name, even where the API will not change it.
KeyText(form) ==
  IF form.type = "TEST" THEN Slug(form.name)
  ELSE IF form.mode = "edit" THEN form.key ELSE NormalizeKey(form.name)

KeyChanged(form) ==
  form.mode = "edit" /\ KeyText(form) # form.key /\ KeyText(form) # <<>>

EffGroups(form) ==
  IF form.adjust \/ form.type = "ROLLOUT" THEN form.groups ELSE EvenSplit(form.groups)

Valid(form) == form.type = "TEST" => Sum(EffGroups(form)) = 100

Audience(form) == IF form.on THEN form.conditions ELSE <<>>

\* The panel of pending changes compares audiences by how many conditions they have.
TestChanges(form, initial) ==
  {field \in {"NAME", "KEY", "GROUPS", "AUDIENCE", "NOTES"} :
     CASE field = "NAME" -> form.name # initial.name
       [] field = "KEY" -> KeyChanged(form)
       [] field = "GROUPS" -> EffGroups(form) # EffGroups(initial)
       [] field = "AUDIENCE" -> Len(Audience(form)) # Len(initial.conditions)
       [] field = "NOTES" -> form.notes # initial.notes}

RolloutChanges(form, initial) ==
  {field \in {"NAME", "PERCENTAGE", "AUDIENCE", "NOTES"} :
     CASE field = "NAME" -> form.name # initial.name
       [] field = "PERCENTAGE" -> form.percentage # initial.percentage
       [] field = "AUDIENCE" -> Len(form.conditions) # Len(initial.conditions)
       [] field = "NOTES" -> form.notes # initial.notes}

TestSavable(form, initial) ==
  /\ IF form.mode = "edit" THEN TestChanges(form, initial) # {} ELSE KeyText(form) # <<>>
  /\ Valid(form)
  /\ ValidKey(KeyText(form))

RolloutSavable(form, initial) ==
  /\ IF form.mode = "edit" THEN RolloutChanges(form, initial) # {} ELSE KeyText(form) # <<>>
  /\ ValidKey(KeyText(form))

Savable(form, initial) ==
  IF form.type = "TEST" THEN TestSavable(form, initial) ELSE RolloutSavable(form, initial)

\* The preview beside the form, which says "live".
TestPreview(form) ==
  [key |-> KeyText(form), groups |-> EffGroups(form), percentage |-> Null,
   audience |-> Audience(form)]

RolloutPreview(form) ==
  [key |-> KeyText(form), groups |-> <<>>, percentage |-> form.percentage,
   audience |-> form.conditions]

TestPanel(form, initial) ==
  [pending |-> IF form.mode = "edit" THEN TestChanges(form, initial) ELSE {},
   live |-> TestPreview(form)]

RolloutPanel(form, initial) ==
  [pending |-> IF form.mode = "edit" THEN RolloutChanges(form, initial) ELSE {},
   live |-> RolloutPreview(form)]

Panel(form, initial) ==
  IF form.type = "TEST" THEN TestPanel(form, initial) ELSE RolloutPanel(form, initial)

\* "Complete" and "Delete" above the form.
HeaderButtons(form) == IF form.mode = "edit" THEN {"complete", "delete"} ELSE {}

\* Slip: the weights last typed, whatever the switch says.
StaleTestPayload(form) ==
  [key |-> KeyText(form), name |-> form.name, notes |-> form.notes,
   conditions |-> Audience(form), groups |-> form.groups]

\* What handleSubmit passes on.
TestPayload(form) ==
  [key |-> KeyText(form), name |-> form.name, notes |-> form.notes,
   conditions |-> Audience(form), groups |-> EffGroups(form)]

RolloutPayload(form) ==
  [key |-> KeyText(form), name |-> form.name, notes |-> form.notes,
   conditions |-> form.conditions, percentage |-> form.percentage]

-----------------------------------------------------------------------------
(* What one gesture changes. *)

NewName == <<"Group 1", "Group 2", "Group 3", "Group 4", "Group 5">>

AddGroup(form) ==
  IF Len(form.groups) >= 5 THEN form
  ELSE [form EXCEPT !.groups = Append(@, [name |-> NewName[Len(@) + 1], weight |-> 0])]

RemoveGroup(form, i) ==
  IF Len(form.groups) <= 2 THEN form ELSE [form EXCEPT !.groups = RemoveAt(@, i)]

\* Turning the switch off forgets the typed weights.
ToggleAdjust(form) ==
  IF form.adjust THEN [form EXCEPT !.groups = EvenSplit(@), !.adjust = FALSE]
  ELSE [form EXCEPT !.adjust = TRUE]

Clamp(n) == IF n = Null THEN 0 ELSE IF n > 100 THEN 100 ELSE n

GroupRows(form) ==
  UNION {{[form EXCEPT !.groups[i].name = name] : name \in GroupNames}
           \cup (IF form.adjust THEN {[form EXCEPT !.groups[i].weight = Clamp(n)] : n \in Numbers}
                 ELSE {})
           \cup {RemoveGroup(form, i)} : i \in DOMAIN form.groups}

GroupButtons(form) ==
  {ToggleAdjust(form), AddGroup(form)}
    \cup IF form.adjust THEN {[form EXCEPT !.groups = EvenSplit(@)]} ELSE {}

PercentageSection(form) == {[form EXCEPT !.percentage = Clamp(n)] : n \in Numbers}

NameSection(form) == {[form EXCEPT !.name = name] : name \in Names}

NotesSection(form) == {[form EXCEPT !.notes = notes] : notes \in Notes}

Versions == <<"equals", "does_not_equals", "greater_than", "greater_than_or_equal",
              "less_than", "less_than_or_equal", "between">>

OperatorsForType(type) ==
  CASE type \in {"app_version", "os_version", "build_number"} -> Versions
    [] type = "custom_attribute" -> <<"custom">>
    [] OTHER -> <<"in", "not_in">>

Condition(type, operator, values) == [type |-> type, operator |-> operator, values |-> values]

RemoveCondition(form, i) ==
  LET next == RemoveAt(form.conditions, i)
  IN  [form EXCEPT !.conditions = next, !.on = @ /\ next # <<>>]

\* Another type starts with its first operator and no value.
Retype(form, i, type) ==
  [form EXCEPT !.conditions[i] = Condition(type, OperatorsForType(type)[1], <<>>)]

ConditionRow(form, i) ==
  {RemoveCondition(form, i)}
    \cup {Retype(form, i, type) : type \in Types}
    \cup {[form EXCEPT !.conditions[i].operator = op] :
            op \in Range(OperatorsForType(form.conditions[i].type))}

\* A value is a list of words: commas separate values only where the operator takes a list.
TestValues(operator, text) ==
  IF operator \in {"in", "not_in"} THEN [i \in DOMAIN text |-> <<text[i]>>]
  ELSE IF text = <<>> THEN <<>> ELSE <<text>>

ConditionRows(form) == UNION {ConditionRow(form, i) : i \in DOMAIN form.conditions}

\* Switching to "Everyone" keeps the conditions, unsent.
TestSwitch(form) ==
  {[form EXCEPT !.on = on,
                !.conditions = IF on /\ @ = <<>>
                               THEN <<Condition("platform", "in", <<<<"iOS">>>>)>> ELSE @] :
     on \in BOOLEAN}

TestAdd(form) ==
  [form EXCEPT !.conditions = Append(@, Condition("app_version", "greater_than_or_equal", <<>>))]

TestTyped(form) ==
  {[form EXCEPT !.conditions[i].values = TestValues(form.conditions[i].operator, text)] :
     i \in DOMAIN form.conditions, text \in Texts}

TestAudience(form) ==
  TestSwitch(form) \cup
    IF ~form.on THEN {} ELSE {TestAdd(form)} \cup ConditionRows(form) \cup TestTyped(form)

\* Switching to "Everyone" drops the conditions; a typed text is one value.
RolloutSwitch(form) ==
  {[form EXCEPT !.on = FALSE, !.conditions = <<>>],
   [form EXCEPT !.on = TRUE,
                !.conditions = IF @ = <<>>
                               THEN <<Condition("app_version", "greater_than_or_equal", <<>>)>> ELSE @]}

RolloutAdd(form) ==
  [form EXCEPT !.conditions = Append(@, Condition("platform", "in", <<>>))]

RolloutTyped(form) ==
  {[form EXCEPT !.conditions[i].values = IF text = <<>> THEN <<>> ELSE <<text>>] :
     i \in DOMAIN form.conditions, text \in Texts}

RolloutAudience(form) ==
  RolloutSwitch(form) \cup
    IF ~form.on THEN {} ELSE {RolloutAdd(form)} \cup ConditionRows(form) \cup RolloutTyped(form)

\* All that can be done to a form, by section.
TestSections(form) ==
  [name |-> NameSection(form), groups |-> GroupRows(form) \cup GroupButtons(form),
   audience |-> TestAudience(form), notes |-> NotesSection(form)]

RolloutSections(form) ==
  [name |-> NameSection(form), percentage |-> PercentageSection(form),
   audience |-> RolloutAudience(form), notes |-> NotesSection(form)]

Sections(form) == IF form.type = "TEST" THEN TestSections(form) ELSE RolloutSections(form)

=============================================================================
