------------------------------ MODULE FlagForms ------------------------------
(***************************************************************************)
(* The form in which flags are created and edited and the dialog in which  *)
(* their conditional variants are (components/features/flags/flag-form.tsx,*)
(* flag-value-input.tsx, conditions/variant-creator-modal.tsx): what they  *)
(* hold, what one gesture makes of it, when they let it be saved, and what *)
(* they then hand to the page.                                             *)
(*                                                                         *)
(* A value is a pair: the JavaScript type it has, and its text.  Keys and  *)
(* conditions are those of the test and rollout forms.                     *)
(***************************************************************************)
EXTENDS ExperimentForms

CONSTANTS
  Envs,
  FlagTypes,   \* the types administrators choose
  NumberTexts, \* what they type as a number; "" is nothing
  JsonTexts,   \* ... as JSON, once it parses
  StringTexts, \* ... as a string
  DateTexts    \* ... as a date; "today" is today's

ASSUME FlagFormAssumption ==
  /\ FlagTypes \subseteq {"bool", "string", "int", "double", "date", "json"}
  /\ "{}" \in JsonTexts /\ "today" \in DateTexts

Value(kind, text) == <<kind, text>>

Kind(value) == value[1]
Text(value) == value[2]

-----------------------------------------------------------------------------
(* Values. *)

GetDefaultValueForType(type) ==
  CASE type = "bool" -> Value("boolean", "false")
    [] type = "string" -> Value("string", "")
    [] type \in {"int", "double"} -> Value("number", "0")
    [] type = "date" -> Value("string", "today")
    [] type = "json" -> Value("string", "{}")

\* What the input for a type emits: numbers come as text, and JSON only when it parses.
FlagValueInput(type) ==
  CASE type = "bool" -> {Value("boolean", text) : text \in {"true", "false"}}
    [] type \in {"int", "double"} -> {Value("string", text) : text \in NumberTexts}
    [] type = "json" -> {Value("string", text) : text \in JsonTexts}
    [] type = "date" -> {Value("string", text) : text \in DateTexts}
    [] type = "string" -> {Value("string", text) : text \in StringTexts}

ParseInt(text) == IF text = "1.5" THEN "1" ELSE text

ProcessValueForType(value, type) ==
  CASE type = "bool" -> Value("boolean", IF Text(value) = "true" THEN "true" ELSE "false")
    [] type \in {"int", "double"} ->
         Value("number", IF Text(value) \notin NumberTexts \ {""} THEN "0"
                         ELSE IF type = "int" THEN ParseInt(Text(value)) ELSE Text(value))
    [] type = "json" -> IF Text(value) \in JsonTexts THEN Value("string", Text(value))
                        ELSE Value("string", "{}")
    [] OTHER -> value

ValidateValue(value, type) ==
  CASE type = "json" -> Text(value) \in JsonTexts \cup {""}
    [] type \in {"int", "double"} -> Text(value) \in NumberTexts \cup {"", "0"}
    [] OTHER -> TRUE

-----------------------------------------------------------------------------
(* The form. *)

NewFlag ==
  [mode |-> "create", key |-> <<>>, name |-> <<>>, type |-> "bool", notes |-> Null,
   defaults |-> [env \in Envs |-> Value("boolean", "false")], locked |-> FALSE]

\* The edit page remounts the form whenever it has loaded the flag.
EditFlag(row) ==
  [mode |-> "edit", key |-> row.key, name |-> row.name, type |-> row.type, notes |-> row.notes,
   defaults |-> row.defaults, locked |-> row.archived]

\* A flag keeps its key whatever becomes of its name.
FlagKeyText(form) == IF form.mode = "edit" THEN form.key ELSE NormalizeKey(form.name)

\* Defaults are compared as text.
FlagChanges(form, initial) ==
  {field \in {"name", "key", "type", "notes"} \cup Envs :
     CASE field = "name" -> form.name # initial.name
       [] field = "key" -> FlagKeyText(form) # initial.key /\ FlagKeyText(form) # <<>>
       [] field = "type" -> form.type # initial.type
       [] field = "notes" -> form.notes # initial.notes
       [] OTHER -> Text(form.defaults[field]) # Text(initial.defaults[field])}

ValuesFit(form) == \A env \in Envs : ValidateValue(form.defaults[env], form.type)

FlagSavable(form, initial) ==
  /\ ~form.locked
  /\ IF form.mode = "edit" THEN FlagChanges(form, initial) # {} ELSE FlagKeyText(form) # <<>>
  /\ ValidKey(FlagKeyText(form))
  /\ ValuesFit(form)

Processed(form) == [env \in Envs |-> ProcessValueForType(form.defaults[env], form.type)]

\* The "live" JSON beside the form, under the changes still to be saved.
FlagPanel(form, initial) ==
  [pending |-> IF form.mode = "edit" THEN FlagChanges(form, initial) ELSE {},
   key |-> FlagKeyText(form), type |-> form.type, defaults |-> Processed(form)]

FlagPayload(form) ==
  [key |-> FlagKeyText(form), name |-> form.name, type |-> form.type, notes |-> form.notes,
   defaults |-> Processed(form)]

\* Slip: choosing a type leaves the defaults as they are.
TypeKept(form, type) == [form EXCEPT !.type = type]

SetTypeAndReset(form, type) ==
  [form EXCEPT !.type = type, !.defaults = [env \in Envs |-> GetDefaultValueForType(type)]]

\* The type of a flag that exists is shown, not chosen.
TypeSection(form) ==
  IF form.mode = "edit" THEN {} ELSE {SetTypeAndReset(form, type) : type \in FlagTypes}

DefaultsSection(form) ==
  {[form EXCEPT !.defaults[env] = value] : env \in Envs, value \in FlagValueInput(form.type)}

FlagNameSection(form) == {[form EXCEPT !.name = name] : name \in Names}

FlagNotesSection(form) == {[form EXCEPT !.notes = notes] : notes \in Notes}

\* An archived flag's form is shown but takes no input.
FlagSections(form) ==
  [section \in {"name", "type", "defaults", "notes"} |->
     IF form.locked THEN {}
     ELSE CASE section = "name" -> FlagNameSection(form)
            [] section = "type" -> TypeSection(form)
            [] section = "defaults" -> DefaultsSection(form)
            [] section = "notes" -> FlagNotesSection(form)]

\* The two buttons above the form are there for every flag.
FlagHeader(form) ==
  IF form.mode = "edit" THEN {IF form.locked THEN "unarchive" ELSE "archive", "delete"} ELSE {}

-----------------------------------------------------------------------------
(* The variant dialog. *)

\* Unlike the form's, its JSON value starts as an object.
VariantDefault(type) ==
  IF type = "json" THEN Value("object", "{}") ELSE GetDefaultValueForType(type)

\* Every new variant has order 1; an old one keeps its own.
NewVariant(type) == [value |-> VariantDefault(type), conditions |-> <<>>, order |-> 1]

EditVariant(variant) ==
  [value |-> variant.value, conditions |-> variant.conditions, order |-> variant.order]

ValueMode(operator) ==
  CASE operator = "between" -> "between"
    [] operator \in {"in", "not_in"} -> "multi"
    [] OTHER -> "single"

AddValue(values, text) ==
  IF text = <<>> \/ text \in Range(values) THEN values ELSE Append(values, text)

\* One side of a range may stay empty.
SetBetweenValue(values, i, text) ==
  LET sides == [[j \in 1 .. 2 |-> IF j \in DOMAIN values THEN values[j] ELSE <<>>] EXCEPT ![i] = text]
  IN  IF sides = <<<<>>, <<>>>> THEN <<>> ELSE sides

VariantValues(c) ==
  CASE ValueMode(c.operator) = "single" -> {IF text = <<>> THEN <<>> ELSE <<text>> : text \in Texts}
    [] ValueMode(c.operator) = "multi" ->
         {AddValue(c.values, text) : text \in Texts} \cup {RemoveAt(c.values, i) : i \in DOMAIN c.values}
    [] ValueMode(c.operator) = "between" ->
         {SetBetweenValue(c.values, i, text) : i \in 1 .. 2, text \in Texts}

\* Choosing another operator keeps the values.
VariantConditionRow(c) ==
  {Condition(type, OperatorsForType(type)[1], <<>>) : type \in Types}
    \cup {[c EXCEPT !.operator = op] : op \in Range(OperatorsForType(c.type))}
    \cup {[c EXCEPT !.values = values] : values \in VariantValues(c)}

VariantGestures(edit, type) ==
  {[edit EXCEPT !.value = value] : value \in FlagValueInput(type)}
    \cup {[edit EXCEPT !.conditions = Append(@, Condition("app_version", "equals", <<>>))]}
    \cup {[edit EXCEPT !.conditions = RemoveAt(@, i)] : i \in DOMAIN edit.conditions}
    \cup UNION {{[edit EXCEPT !.conditions[i] = c] : c \in VariantConditionRow(edit.conditions[i])} :
                  i \in DOMAIN edit.conditions}

\* Neither numbers nor the type of the value are looked at.
ValidateVariant(edit, type) ==
  /\ type = "string" => Text(edit.value) # ""
  /\ edit.conditions # <<>>
  /\ \A c \in Range(edit.conditions) : c.values # <<>>

=============================================================================
