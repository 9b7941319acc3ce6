-------------------------- MODULE ExperimentProofs --------------------------
(***************************************************************************)
(* Theorems about Experiments, for any rows, tabs, flags, environments and *)
(* scenarios: what the requests of the pages and dialogs make of a row,    *)
(* and what a list shows once everything it asked for has been answered.   *)
(***************************************************************************)
EXTENDS Experiments, FiniteSetTheorems, TLAPS

-----------------------------------------------------------------------------
(* What holds of the rows, the pages and the requests.                      *)

\* A copy of a row, when `store` holds the rows and `given` is the ids they have been
\* given: there has been such a row, and a row does not change its type.
KnownRow(item, row, store, given) ==
  row # Null =>
    /\ RowTyped(row) /\ item \in given
    /\ store[item] # Null => store[item].type = row.type

KnownRows(copy, store, given) ==
  DOMAIN copy = Items /\ \A item \in Items : KnownRow(item, copy[item], store, given)

RowsKnown == ids \subseteq Items /\ KnownRows(rows, rows, ids)

DeskTyped ==
  /\ DOMAIN desk = Tabs
  /\ \A t \in Tabs :
       /\ DOMAIN desk[t] = {"pages", "sections", "gestures", "opens"}
       /\ desk[t].opens \in Nat
       /\ \A page \in desk[t].pages : PageTyped(page)

\* The values typed into a dialog are for the groups of the row it works on.
ValsTyped(row, vals) ==
  /\ IF row.type = "TEST" THEN DOMAIN vals = DOMAIN row.variants
     ELSE DOMAIN vals \subseteq {"rollout"}
  /\ \A g \in DOMAIN vals : vals[g] \in FlagValues

DialogTyped(modal, store, given) ==
  /\ DOMAIN modal = {"at", "env", "item", "copy", "vals"}
  /\ modal.at \in {"assign", "values"} /\ modal.env \in Envs
  /\ KnownRows(modal.copy, store, given)
  /\ modal.at = "values" => modal.item # Null
  /\ modal.item # Null =>
       /\ modal.item \in Items /\ modal.copy[modal.item] # Null
       /\ ValsTyped(modal.copy[modal.item], modal.vals)

FormFields == {"type", "mode", "key", "name", "groups", "adjust", "percentage", "on",
               "conditions", "notes"}

Groups == [name : GroupNames \cup {"Treatment", "Control"} \cup Range(NewName), weight : Int]

FormTyped(form) ==
  /\ DOMAIN form = FormFields /\ form.type \in {"TEST", "ROLLOUT"}
  /\ form.groups \in Seq(Groups)
  /\ form.type = "TEST" => Len(form.groups) >= 2

TabFields == {"page", "n", "copy", "form", "initial", "modal", "saving", "updating"}

TabTyped(tab, store, given) ==
  /\ DOMAIN tab = TabFields
  /\ PageTyped(tab.page) /\ KnownRows(tab.copy, store, given) /\ tab.n \in Nat
  /\ tab.page.at = "edit" => tab.copy[tab.page.item] # Null
  /\ tab.page.at = "new" => FormTyped(tab.form) /\ tab.form.type = tab.page.type
  /\ tab.modal # Null => tab.page.at = "flag" /\ DialogTyped(tab.modal, store, given)

\* Openings of a tab are counted down, so a page has its number to itself.
TabsTyped ==
  /\ DOMAIN tabs = Tabs
  /\ \A t \in Tabs : tabs[t] # Null => TabTyped(tabs[t], rows, ids) /\ tabs[t].n > desk[t].opens

\* What a request may write into a row of a type.
BodyTyped(type, body) ==
  /\ DOMAIN body \subseteq Columns \ {"type"}
  /\ "variants" \in DOMAIN body => type = "TEST" /\ VariantsTyped(body.variants)
  /\ "rolloutValues" \in DOMAIN body =>
       type = "ROLLOUT" /\ body.rolloutValues \in EnvValues

\* A form sends back whether its copy was archived, and all variants of a test.
SavesBack(q) ==
  /\ "archived" \in DOMAIN q.body /\ q.body.archived = q.copy.archived
  /\ q.copy.type = "TEST" => "variants" \in DOMAIN q.body

\* What a form sends to create a test or rollout, and what its preview shows by then.
Payload(form) == IF form.type = "TEST" THEN TestPayload(form) ELSE RolloutPayload(form)

Preview(form) == IF form.type = "TEST" THEN TestPreview(form) ELSE RolloutPreview(form)

Previewed(q) ==
  \E form : /\ FormTyped(form) /\ q.type = form.type
            /\ q.body = Payload(form) /\ q.shown = Preview(form)

\* What a dialog sends changes one entry of the copy it worked on.
TouchesOne(old, new, at, entry, shown) ==
  /\ new.flagIds = old.flagIds \cup (IF at = "assign" THEN {entry[2]} ELSE {})
  /\ \A field \in DOMAIN old \ {"flagIds", IF old.type = "TEST" THEN "variants" ELSE "rolloutValues"} :
       new[field] = old[field]
  /\ old.type = "TEST" => Percentages(new) = Percentages(old)
  /\ \A g \in DOMAIN shown : Entry(new, entry[1], entry[2])[g] = shown[g]
  /\ \A env \in Envs, flag \in Flags :
       <<env, flag>> # entry => Entry(new, env, flag) = Entry(old, env, flag)

Operations == {"load", "create", "save", "assign", "percentage", "archive", "delete"}

RequestFields == {"tab", "n", "id", "at", "op", "type", "item", "body", "copy", "shown",
                  "entry", "status", "turn", "reply"}

\* A request: who sent it, and what it carries.
Addressed(q) ==
  /\ DOMAIN q = RequestFields
  /\ q.tab \in Tabs /\ q.n \in Nat /\ q.n > desk[q.tab].opens
  /\ q.op \in Operations /\ q.status \in {"sent", "applied", "failed"}
  /\ q.op # "load" => q.item \in Items
  /\ q.op = "load" => q.at \in {"list", "flag"}
  /\ q.op = "percentage" => q.at = "list"
  /\ There(q) => \/ q.at = tabs[q.tab].page.at
                 \/ q.at \in {"assign", "values"} /\ tabs[q.tab].page.at = "flag"

Carries(q) ==
  /\ q.op = "create" => q.type \in {"TEST", "ROLLOUT"} /\ Previewed(q)
  /\ q.op \in {"save", "assign"} =>
       /\ q.copy # Null /\ KnownRow(q.item, q.copy, rows, ids) /\ BodyTyped(q.copy.type, q.body)
  /\ q.op = "save" => SavesBack(q)
  /\ q.op = "assign" => /\ DOMAIN q.body \subseteq {"variants", "rolloutValues", "flagIds"}
                        /\ TouchesOne(q.copy, Over(q.copy, q.body), q.at, q.entry, q.shown)
  /\ q.op = "percentage" => DOMAIN q.body = {"percentage"}

\* An answer: the row, or all rows, as they were.
Answered(q) ==
  q.status = "applied" =>
    /\ q.op = "load" => KnownRows(q.reply, rows, ids)
    /\ q.op = "create" => q.reply = Row(q.type, q.body)
    /\ q.op \in {"percentage", "archive", "delete"} => KnownRow(q.item, q.reply, rows, ids)

\* An id is given to one row, and to none before it is stored.
IdsApart ==
  /\ \A q \in net : q.op = "create" /\ q.status = "sent" => q.item \notin ids
  /\ \A p, q \in net : p.op = "create" /\ q.op = "create" /\ p.item = q.item => p = q

RequestsSound == IdsApart /\ \A q \in net : Addressed(q) /\ Carries(q) /\ Answered(q)

DeskInvariant == RowsKnown /\ DeskTyped /\ TabsTyped /\ RequestsSound

-----------------------------------------------------------------------------
(* What the handlers make of a row.                                         *)

\* Rows come with new ids, and keep their type.
RowsGrow ==
  /\ ids \subseteq ids'
  /\ \A item \in ids : rows'[item] # Null =>
       rows[item] # Null /\ rows'[item].type = rows[item].type

LEMMA KnownStays ==
  ASSUME RowsGrow, NEW item, NEW row, KnownRow(item, row, rows, ids)
  PROVE  KnownRow(item, row, rows', ids')
BY DEF RowsGrow, KnownRow

LEMMA KnownRowsStay ==
  ASSUME RowsGrow, NEW copy, KnownRows(copy, rows, ids)
  PROVE  KnownRows(copy, rows', ids')
BY KnownStays DEF KnownRows

LEMMA TabStays ==
  ASSUME RowsGrow, NEW tab, TabTyped(tab, rows, ids)
  PROVE  TabTyped(tab, rows', ids')
BY KnownRowsStay DEF TabTyped, DialogTyped

LEMMA SameRowsGrow ==
  ASSUME UNCHANGED table
  PROVE  RowsGrow
BY DEF RowsGrow, table

\* Writing well-typed columns into a row leaves a row of that type.
LEMMA OverTyped ==
  ASSUME NEW row, RowTyped(row), NEW body, BodyTyped(row.type, body)
  PROVE  RowTyped(Over(row, body)) /\ Over(row, body).type = row.type
<1> DEFINE new == Over(row, body)
<1>1. DOMAIN new = Columns /\ new.type = row.type
  BY DEF Over, RowTyped, BodyTyped, Columns
<1>2. new.variants = IF "variants" \in DOMAIN body THEN body.variants ELSE row.variants
  BY DEF Over, RowTyped, Columns
<1>3. new.rolloutValues =
        IF "rolloutValues" \in DOMAIN body THEN body.rolloutValues ELSE row.rolloutValues
  BY DEF Over, RowTyped, Columns
<1> HIDE DEF new
<1>4. RowTyped(new) /\ new.type = row.type
  BY <1>1, <1>2, <1>3 DEF RowTyped, BodyTyped
<1>5. QED BY <1>4 DEF new

\* Saving an edit resets the columns its body leaves out.
LEMMA ResetTyped ==
  ASSUME NEW row, RowTyped(row), NEW body, BodyTyped(row.type, body),
         row.type = "TEST" => "variants" \in DOMAIN body
  PROVE  RowTyped(Over(row, Reset(body))) /\ Over(row, Reset(body)).type = row.type
<1> DEFINE whole == Reset(body)
           new == Over(row, whole)
<1>1. /\ DOMAIN whole \subseteq Columns \ {"type"}
      /\ {"variants", "rolloutValues"} \subseteq DOMAIN whole
      /\ whole.variants = IF "variants" \in DOMAIN body THEN body.variants ELSE Null
      /\ whole.rolloutValues =
           IF "rolloutValues" \in DOMAIN body THEN body.rolloutValues ELSE Null
  BY DEF Reset, Over, BodyTyped, Columns
<1> HIDE DEF whole
<1>2. /\ DOMAIN new = Columns /\ new.type = row.type
      /\ new.variants = whole.variants /\ new.rolloutValues = whole.rolloutValues
  BY <1>1 DEF Over, RowTyped, Columns
<1> HIDE DEF new
<1>3. RowTyped(new) /\ new.type = row.type
  BY <1>1, <1>2 DEF RowTyped, BodyTyped
<1>4. QED BY <1>3 DEF new, whole

\* A row starts with no values, or with the percentages its groups were given.
LEMMA CreatedTyped ==
  ASSUME NEW type \in {"TEST", "ROLLOUT"}, NEW payload
  PROVE  RowTyped(Row(type, payload)) /\ Row(type, payload).type = type
<1>1. NoValues \in EnvValues
  BY DEF NoValues, EnvValues
<1> DEFINE new == Row(type, payload)
<1>2. /\ DOMAIN new = Columns /\ new.type = type
      /\ new.variants = IF type = "TEST" THEN MergeGroups(payload.groups, NoValues) ELSE Null
      /\ new.rolloutValues = IF type = "TEST" THEN Null ELSE NoValues
  BY DEF Row, Columns
<1>3. VariantsTyped(MergeGroups(payload.groups, NoValues))
  <2> DEFINE merged == MergeGroups(payload.groups, NoValues)
  <2>1. SUFFICES ASSUME NEW name \in DOMAIN merged
                 PROVE  DOMAIN merged[name] = {"percentage", "values"}
                        /\ merged[name].values = NoValues
    BY <1>1 DEF VariantsTyped
  <2>2. QED BY <2>1 DEF MergeGroups
<1> HIDE DEF new
<1>4. QED BY <1>1, <1>2, <1>3 DEF RowTyped, new

-----------------------------------------------------------------------------
(* What the dialogs make of the row they work on.                           *)

LEMMA FlagMapIs ==
  ASSUME NEW known, known \subseteq Flags, NEW map, map \in [known -> FlagValues]
  PROVE  map \in FlagMaps
BY DEF FlagMaps

LEMMA FlagMapOf ==
  ASSUME NEW map \in FlagMaps
  PROVE  /\ DOMAIN map \subseteq Flags /\ \A flag \in DOMAIN map : map[flag] \in FlagValues
         /\ map \notin {Null, Blank}
BY ScenariosAssumption DEF FlagMaps

\* One value is set, and every other stays.
LEMMA ValuesSet ==
  ASSUME NEW env \in Envs, NEW flag \in Flags, NEW value \in FlagValues, NEW old \in EnvValues
  PROVE  /\ Values(env, flag, value, old) \in EnvValues
         /\ \A e \in Envs, f \in Flags : <<e, f>> # <<env, flag>> =>
              Cell(Values(env, flag, value, old), e, f) = Cell(old, e, f)
         /\ Cell(Values(env, flag, value, old), env, flag) = value
<1> DEFINE one == [f \in {flag} |-> value]
           map == IF old[env] \in {Null, Blank} THEN one ELSE Over(old[env], one)
           new == Values(env, flag, value, old)
<1>1. new = [old EXCEPT ![env] = map]
  BY DEF Values
<1>2. one \in FlagMaps
  BY FlagMapIs
<1>3. map \in FlagMaps
  <2>1. CASE old[env] \in {Null, Blank}
    BY <1>2, <2>1
  <2>2. CASE old[env] \notin {Null, Blank}
    <3>1. old[env] \in FlagMaps
      BY <2>2 DEF EnvValues
    <3>2. Over(old[env], one) \in [DOMAIN old[env] \cup {flag} -> FlagValues]
      BY <3>1, FlagMapOf DEF Over
    <3>3. QED BY <2>2, <3>1, <3>2, FlagMapOf, FlagMapIs
  <2>3. QED BY <2>1, <2>2
<1>4. new \in EnvValues
  <2> HIDE DEF map
  <2>1. QED BY <1>1, <1>3 DEF EnvValues
<1>5. ASSUME NEW e \in Envs, NEW f \in Flags, <<e, f>> # <<env, flag>>
      PROVE  Cell(new, e, f) = Cell(old, e, f)
  <2>1. new # Null /\ old # Null
    BY <1>4, ScenariosAssumption
  <2>2. CASE e # env
    <3>1. new[e] = old[e]
      BY <1>1, <2>2 DEF EnvValues
    <3>2. QED BY <2>1, <3>1 DEF Cell
  <2>3. CASE e = env
    <3>1. f # flag /\ new[e] = map /\ new[e] \notin {Null, Blank}
      BY <1>1, <1>3, <1>5, <2>3, FlagMapOf DEF EnvValues
    <3>2. CASE old[env] \in {Null, Blank}
      BY <2>1, <2>3, <3>1, <3>2 DEF Cell
    <3>3. CASE old[env] \notin {Null, Blank}
      <4>1. /\ f \in DOMAIN map <=> f \in DOMAIN old[env]
            /\ f \in DOMAIN map => map[f] = old[env][f]
        BY <3>1, <3>3 DEF Over
      <4>2. QED BY <2>1, <2>3, <3>1, <3>3, <4>1 DEF Cell
    <3>4. QED BY <3>2, <3>3
  <2>4. QED BY <2>2, <2>3
<1>6. Cell(new, env, flag) = value
  <2>1. new # Null /\ new[env] = map /\ map \notin {Null, Blank}
    BY <1>1, <1>3, <1>4, ScenariosAssumption, FlagMapOf DEF EnvValues
  <2>2. flag \in DOMAIN map /\ map[flag] = value
    BY DEF Over
  <2> HIDE DEF map, new
  <2>3. QED BY <2>1, <2>2 DEF Cell
<1>7. QED BY <1>4, <1>5, <1>6

\* A body that sets one entry of a row.
SetsEntry(row, body, env, flag, vals) ==
  /\ DOMAIN body = {IF row.type = "TEST" THEN "variants" ELSE "rolloutValues"}
  /\ BodyTyped(row.type, body)
  /\ \A e \in Envs, f \in Flags : <<e, f>> # <<env, flag>> =>
       Entry(Over(row, body), e, f) = Entry(row, e, f)
  /\ \A g \in DOMAIN vals : Entry(Over(row, body), env, flag)[g] = vals[g]
  /\ row.type = "TEST" => Percentages(Over(row, body)) = Percentages(row)

\* What the dialogs send, for any row they can be open on.
LEMMA EntrySet ==
  ASSUME NEW row, RowTyped(row), NEW vals, ValsTyped(row, vals),
         NEW env \in Envs, NEW flag \in Flags
  PROVE  SetsEntry(row, WithEntry(row, env, flag, vals), env, flag, vals)
<1> DEFINE body == WithEntry(row, env, flag, vals)
<1>1. CASE row.type = "ROLLOUT"
  <2> DEFINE value == IF DOMAIN vals = {} THEN DefaultValue ELSE vals["rollout"]
             old == IF row.rolloutValues = Null THEN NoValues ELSE row.rolloutValues
             new == Values(env, flag, value, old)
  <2>1. body = [rolloutValues |-> new]
    BY <1>1 DEF WithEntry
  <2>2. value \in FlagValues
    BY <1>1, ExperimentsAssumption DEF ValsTyped
  <2>3. old \in EnvValues
    BY <1>1 DEF RowTyped, NoValues, EnvValues
  <2>4. \A e \in Envs, f \in Flags : Cell(old, e, f) = Cell(row.rolloutValues, e, f)
    BY DEF Cell, NoValues
  <2> HIDE DEF value, old
  <2>5. /\ new \in EnvValues
        /\ \A e \in Envs, f \in Flags : <<e, f>> # <<env, flag>> =>
             Cell(new, e, f) = Cell(old, e, f)
        /\ Cell(new, env, flag) = value
    BY <2>2, <2>3, ValuesSet
  <2> HIDE DEF new
  <2>6. /\ Over(row, body).type = row.type /\ Over(row, body).rolloutValues = new
        /\ DOMAIN body = {"rolloutValues"} /\ body.rolloutValues = new
    BY <2>1 DEF Over, RowTyped, Columns
  <2> HIDE DEF body
  <2>7. BodyTyped(row.type, body)
    BY <1>1, <2>5, <2>6 DEF BodyTyped, Columns
  <2>8. \A e \in Envs, f \in Flags : <<e, f>> # <<env, flag>> =>
          Entry(Over(row, body), e, f) = Entry(row, e, f)
    BY <1>1, <2>4, <2>5, <2>6 DEF Entry
  <2>9. \A g \in DOMAIN vals : g = "rollout" /\ vals[g] = value
    BY <1>1 DEF ValsTyped, value
  <2>10. \A g \in DOMAIN vals : Entry(Over(row, body), env, flag)[g] = vals[g]
    BY <1>1, <2>5, <2>6, <2>9 DEF Entry
  <2>11. QED BY <1>1, <2>6, <2>7, <2>8, <2>10 DEF body, SetsEntry
<1>2. CASE row.type = "TEST"
  <2> DEFINE groups == DOMAIN row.variants
             new == [g \in groups |->
                       [row.variants[g] EXCEPT !.values = Values(env, flag, vals[g], @)]]
  <2>1. body = [variants |-> new]
    BY <1>2 DEF WithEntry
  <2>2. ASSUME NEW g \in groups
        PROVE  /\ DOMAIN new[g] = {"percentage", "values"} /\ new[g].values \in EnvValues
               /\ \A e \in Envs, f \in Flags : <<e, f>> # <<env, flag>> =>
                    Cell(new[g].values, e, f) = Cell(row.variants[g].values, e, f)
               /\ Cell(new[g].values, env, flag) = vals[g]
               /\ new[g].percentage = row.variants[g].percentage
    <3>1. /\ vals[g] \in FlagValues /\ row.variants[g].values \in EnvValues
          /\ DOMAIN row.variants[g] = {"percentage", "values"}
      BY <1>2 DEF ValsTyped, RowTyped, VariantsTyped
    <3>2. /\ DOMAIN new[g] = {"percentage", "values"}
          /\ new[g].values = Values(env, flag, vals[g], row.variants[g].values)
          /\ new[g].percentage = row.variants[g].percentage
      BY <3>1
    <3> HIDE DEF new
    <3>3. QED BY <3>1, <3>2, ValuesSet
  <2>3. DOMAIN new = groups
    OBVIOUS
  <2> HIDE DEF new
  <2>4. VariantsTyped(new)
    BY <2>2, <2>3 DEF VariantsTyped
  <2>5. /\ Over(row, body).type = row.type /\ Over(row, body).variants = new
        /\ DOMAIN body = {"variants"} /\ body.variants = new
    BY <2>1 DEF Over, RowTyped, Columns
  <2> HIDE DEF body
  <2>6. BodyTyped(row.type, body)
    BY <1>2, <2>4, <2>5 DEF BodyTyped, Columns
  <2>7. \A e \in Envs, f \in Flags : <<e, f>> # <<env, flag>> =>
          Entry(Over(row, body), e, f) = Entry(row, e, f)
    BY <1>2, <2>2, <2>3, <2>5 DEF Entry
  <2>8. \A g \in DOMAIN vals : Entry(Over(row, body), env, flag)[g] = vals[g]
    BY <1>2, <2>2, <2>3, <2>5 DEF Entry, ValsTyped
  <2>9. Percentages(Over(row, body)) = Percentages(row)
    BY <2>2, <2>3, <2>5 DEF Percentages
  <2>10. QED BY <1>2, <2>5, <2>6, <2>7, <2>8, <2>9 DEF body, SetsEntry
<1>3. QED BY <1>1, <1>2 DEF RowTyped

LEMMA EntrySent ==
  ASSUME NEW row, RowTyped(row), NEW vals, ValsTyped(row, vals),
         NEW env \in Envs, NEW flag \in Flags, NEW body, NEW at,
         \/ at = "values" /\ body = WithEntry(row, env, flag, vals)
         \/ /\ at = "assign"
            /\ body = Over(WithEntry(row, env, flag, vals), [flagIds |-> row.flagIds \cup {flag}])
  PROVE  /\ DOMAIN body \subseteq {"variants", "rolloutValues", "flagIds"}
         /\ BodyTyped(row.type, body)
         /\ TouchesOne(row, Over(row, body), at, <<env, flag>>, vals)
<1> DEFINE part == WithEntry(row, env, flag, vals)
           new == Over(row, body)
<1>1. SetsEntry(row, part, env, flag, vals)
  BY EntrySet
<1> HIDE DEF part
<1>2. /\ DOMAIN body \subseteq {"variants", "rolloutValues", "flagIds"}
      /\ \A x \in {"variants", "rolloutValues"} :
           /\ x \in DOMAIN body <=> x \in DOMAIN part
           /\ x \in DOMAIN body => body[x] = part[x]
      /\ "flagIds" \in DOMAIN body <=> at = "assign"
      /\ "flagIds" \in DOMAIN body => body.flagIds = row.flagIds \cup {flag}
  <2>1. CASE at = "values" /\ body = part
    BY <1>1, <2>1 DEF SetsEntry
  <2>2. CASE at = "assign" /\ body = Over(part, [flagIds |-> row.flagIds \cup {flag}])
    BY <1>1, <2>2 DEF Over, SetsEntry
  <2>3. QED BY <2>1, <2>2 DEF part
<1>3. BodyTyped(row.type, body)
  BY <1>1, <1>2 DEF BodyTyped, Columns, SetsEntry
<1>4. /\ \A field \in Columns \ {"variants", "rolloutValues", "flagIds"} : new[field] = row[field]
      /\ new.flagIds = row.flagIds \cup (IF at = "assign" THEN {flag} ELSE {})
      /\ \A x \in {"variants", "rolloutValues"} : x \notin DOMAIN part => new[x] = row[x]
      /\ new.variants = Over(row, part).variants
      /\ new.rolloutValues = Over(row, part).rolloutValues
      /\ new.type = row.type /\ Over(row, part).type = row.type
  BY <1>1, <1>2 DEF Over, RowTyped, Columns, SetsEntry
<1> HIDE DEF new
<1>5. \A e, f : Entry(new, e, f) = Entry(Over(row, part), e, f)
  BY <1>4 DEF Entry
<1>6. row.type = "TEST" => Percentages(new) = Percentages(row)
  BY <1>1, <1>4 DEF Percentages, SetsEntry
<1>7. TouchesOne(row, new, at, <<env, flag>>, vals)
  <2>1. new.flagIds = row.flagIds \cup (IF at = "assign" THEN {flag} ELSE {})
    BY <1>4
  <2>2. \A field \in DOMAIN row \ {"flagIds", IF row.type = "TEST" THEN "variants" ELSE "rolloutValues"} :
          new[field] = row[field]
    BY <1>1, <1>4 DEF RowTyped, SetsEntry
  <2>3. \A g \in DOMAIN vals : Entry(new, env, flag)[g] = vals[g]
    BY <1>1, <1>5 DEF SetsEntry
  <2>4. \A e \in Envs, f \in Flags : <<e, f>> # <<env, flag>> => Entry(new, e, f) = Entry(row, e, f)
    BY <1>1, <1>5 DEF SetsEntry
  <2>5. QED BY <1>6, <2>1, <2>2, <2>3, <2>4 DEF TouchesOne
<1>8. QED BY <1>2, <1>3, <1>7 DEF new

\* What a handler makes of a row that is there.
LEMMA HandledRow ==
  ASSUME RowsKnown, NEW q, Addressed(q), Carries(q), q.op \notin {"load", "create"},
         ~Refuses(q)
  PROVE  /\ rows[q.item] # Null
         /\ q.op # "delete" => RowTyped(Handle(q)) /\ Handle(q).type = rows[q.item].type
         /\ q.op = "delete" => Handle(q) = Null
<1> DEFINE row == rows[q.item]
<1>1. row # Null
  BY DEF Refuses
<1>2. RowTyped(row) /\ q.item \in Items
  BY <1>1 DEF RowsKnown, KnownRows, KnownRow, Addressed
<1>3. q.op \in {"save", "assign"} => BodyTyped(row.type, q.body) /\ q.copy.type = row.type
  BY <1>1 DEF Carries, KnownRow
<1>4. CASE q.op = "save"
  <2>1. Handle(q) = Over(row, Reset(q.body))
    BY <1>1, <1>4 DEF Handle
  <2>2. row.type = "TEST" => "variants" \in DOMAIN q.body
    BY <1>3, <1>4 DEF Carries, SavesBack
  <2>3. QED BY <1>1, <1>2, <1>3, <1>4, <2>1, <2>2, ResetTyped
<1>5. CASE q.op = "assign"
  <2>1. Handle(q) = Over(row, q.body)
    BY <1>1, <1>5 DEF Handle
  <2>2. QED BY <1>1, <1>2, <1>3, <1>5, <2>1, OverTyped
<1>6. CASE q.op = "percentage"
  <2>1. Handle(q) = Over(row, q.body)
    BY <1>1, <1>6 DEF Handle
  <2>2. BodyTyped(row.type, q.body)
    BY <1>6 DEF Carries, BodyTyped, Columns
  <2>3. QED BY <1>1, <1>2, <1>6, <2>1, <2>2, OverTyped
<1>7. CASE q.op = "archive"
  <2>1. Handle(q) = Archived(row, q.body.kind)
    BY <1>1, <1>7 DEF Handle
  <2>2. QED BY <1>1, <1>2, <1>7, <2>1 DEF Archived, RowTyped, Columns
<1>8. CASE q.op = "delete"
  BY <1>1, <1>8 DEF Handle
<1>9. QED BY <1>4, <1>5, <1>6, <1>7, <1>8 DEF Addressed, Operations

-----------------------------------------------------------------------------
(* The forms in which tests and rollouts are created.                       *)

LEMMA NewFormTyped ==
  /\ FormTyped(NewTest) /\ NewTest.type = "TEST"
  /\ FormTyped(NewRollout) /\ NewRollout.type = "ROLLOUT"
<1> DEFINE two == <<[name |-> "Treatment", weight |-> 50], [name |-> "Control", weight |-> 50]>>
<1>1. two \in Seq(Groups) /\ Len(two) = 2
  BY DEF Groups
<1>2. /\ DOMAIN NewTest = FormFields /\ NewTest.type = "TEST" /\ NewTest.groups = two
  BY DEF NewTest, FormFields
<1> HIDE DEF two
<1>3. /\ DOMAIN NewRollout = FormFields /\ NewRollout.type = "ROLLOUT"
      /\ NewRollout.groups = <<>>
  BY <1>2 DEF NewRollout, FormFields
<1>4. <<>> \in Seq(Groups)
  OBVIOUS
<1>5. QED BY <1>1, <1>2, <1>3, <1>4 DEF FormTyped

LEMMA GroupTyped ==
  ASSUME NEW group \in Groups
  PROVE  /\ \A name \in GroupNames : [group EXCEPT !.name = name] \in Groups
         /\ \A weight \in Int : [group EXCEPT !.weight = weight] \in Groups
BY DEF Groups

LEMMA EvenSplitTyped ==
  ASSUME NEW groups \in Seq(Groups), Len(groups) >= 1
  PROVE  EvenSplit(groups) \in Seq(Groups) /\ Len(EvenSplit(groups)) = Len(groups)
<1> DEFINE base == 100 \div Len(groups)
           rem == 100 - base * Len(groups)
           weight(i) == base + IF i <= rem THEN 1 ELSE 0
<1>1. base \in Int
  OBVIOUS
<1>2. \A i \in DOMAIN groups : weight(i) \in Int
  BY <1>1
<1>3. EvenSplit(groups) = [i \in DOMAIN groups |-> [groups[i] EXCEPT !.weight = weight(i)]]
  BY DEF EvenSplit
<1> HIDE DEF weight
<1>4. \A i \in DOMAIN groups : [groups[i] EXCEPT !.weight = weight(i)] \in Groups
  BY <1>2, GroupTyped
<1>5. DOMAIN groups = 1 .. Len(groups) /\ Len(groups) \in Nat
  OBVIOUS
<1>6. EvenSplit(groups) \in [1 .. Len(groups) -> Groups]
  BY <1>3, <1>4, <1>5
<1>7. QED BY <1>5, <1>6

\* Every gesture leaves a form of its kind, with groups a test can have.
SameGroups(form, new) ==
  DOMAIN new = DOMAIN form /\ new.type = form.type /\ new.groups = form.groups

LEMMA SameGroupsTyped ==
  ASSUME NEW form, FormTyped(form), NEW new, SameGroups(form, new)
  PROVE  FormTyped(new) /\ new.type = form.type
BY DEF FormTyped, SameGroups

LEMMA ConditionRowKeeps ==
  ASSUME NEW form, FormTyped(form), NEW i, NEW new \in ConditionRow(form, i)
  PROVE  SameGroups(form, new)
<1>1. CASE new = RemoveCondition(form, i)
  BY <1>1 DEF FormTyped, FormFields, RemoveCondition, SameGroups
<1>2. CASE \E type \in Types : new = Retype(form, i, type)
  BY <1>2 DEF FormTyped, FormFields, Retype, SameGroups
<1>3. CASE \E op : new = [form EXCEPT !.conditions[i].operator = op]
  BY <1>3 DEF FormTyped, FormFields, SameGroups
<1>4. QED BY <1>1, <1>2, <1>3 DEF ConditionRow

LEMMA AudienceKeeps ==
  ASSUME NEW form, FormTyped(form)
  PROVE  \A new \in TestAudience(form) \cup RolloutAudience(form) : SameGroups(form, new)
<1>1. \A x \in ConditionRows(form) : SameGroups(form, x)
  BY ConditionRowKeeps DEF ConditionRows
<1>2. SameGroups(form, TestAdd(form)) /\ SameGroups(form, RolloutAdd(form))
  BY DEF TestAdd, RolloutAdd, FormTyped, FormFields, SameGroups
<1>3. \A x \in TestTyped(form) \cup RolloutTyped(form) : SameGroups(form, x)
  BY DEF TestTyped, RolloutTyped, FormTyped, FormFields, SameGroups
<1>4. \A x \in TestSwitch(form) \cup RolloutSwitch(form) : SameGroups(form, x)
  <2> DEFINE Both(on, conditions) == [form EXCEPT !.on = on, !.conditions = conditions]
             tests(on) == IF on /\ form.conditions = <<>>
                          THEN <<Condition("platform", "in", <<<<"iOS">>>>)>> ELSE form.conditions
             rollouts == IF form.conditions = <<>>
                         THEN <<Condition("app_version", "greater_than_or_equal", <<>>)>>
                         ELSE form.conditions
             off == Both(FALSE, <<>>)
             on == Both(TRUE, rollouts)
  <2>1. \A switch, conditions : SameGroups(form, Both(switch, conditions))
    BY DEF FormTyped, FormFields, SameGroups
  <2>2. TestSwitch(form) = {Both(switch, tests(switch)) : switch \in BOOLEAN}
    BY DEF TestSwitch
  <2>3. RolloutSwitch(form) = {off, on}
    BY DEF RolloutSwitch
  <2>4. SameGroups(form, off) /\ SameGroups(form, on)
    BY DEF FormTyped, FormFields, SameGroups
  <2> HIDE DEF Both, tests, off, on
  <2>5. \A x \in TestSwitch(form) : SameGroups(form, x)
    BY <2>1, <2>2
  <2>6. \A x \in RolloutSwitch(form) : SameGroups(form, x)
    BY <2>3, <2>4
  <2>7. QED BY <2>5, <2>6
<1>5. QED BY <1>1, <1>2, <1>3, <1>4 DEF TestAudience, RolloutAudience

LEMMA GroupsKeep ==
  ASSUME NEW form, FormTyped(form), form.type = "TEST",
         NEW new \in GroupRows(form) \cup GroupButtons(form)
  PROVE  FormTyped(new) /\ new.type = form.type
<1>1. ASSUME NEW groups \in Seq(Groups), Len(groups) >= 2,
             new = [form EXCEPT !.groups = groups]
      PROVE  FormTyped(new) /\ new.type = form.type
  BY <1>1 DEF FormTyped, FormFields
<1>2. CASE new = form
  BY <1>2
<1>3. /\ form.groups \in Seq(Groups) /\ Len(form.groups) >= 2 /\ DOMAIN form = FormFields
      /\ EvenSplit(form.groups) \in Seq(Groups) /\ Len(EvenSplit(form.groups)) >= 2
  BY EvenSplitTyped DEF FormTyped
<1>4. CASE new = ToggleAdjust(form)
  <2>1. CASE form.adjust
    <3>1. new = [form EXCEPT !.groups = EvenSplit(form.groups), !.adjust = FALSE]
      BY <1>4, <2>1 DEF ToggleAdjust
    <3>2. /\ DOMAIN new = FormFields /\ new.type = form.type
          /\ new.groups = EvenSplit(form.groups)
      BY <1>3, <3>1 DEF FormFields
    <3>3. QED BY <1>3, <3>2 DEF FormTyped
  <2>2. CASE ~form.adjust
    BY <1>3, <1>4, <2>2 DEF ToggleAdjust, FormTyped, FormFields
  <2>3. QED BY <2>1, <2>2
<1>5. CASE new = AddGroup(form)
  <2>1. CASE Len(form.groups) >= 5
    BY <1>2, <1>5, <2>1 DEF AddGroup
  <2>2. CASE ~(Len(form.groups) >= 5)
    <3> DEFINE group == [name |-> NewName[Len(form.groups) + 1], weight |-> 0]
    <3>1. group \in Groups
      <4>1. Len(form.groups) + 1 \in 1 .. 5
        BY <1>3, <2>2
      <4>2. NewName[Len(form.groups) + 1] \in Range(NewName)
        <5>1. DOMAIN NewName = 1 .. 5
          BY DEF NewName
        <5>2. QED BY <4>1, <5>1 DEF Range
      <4>3. QED BY <4>2 DEF Groups
    <3> HIDE DEF group
    <3>2. new = [form EXCEPT !.groups = Append(form.groups, group)]
      BY <1>3, <1>5, <2>2 DEF AddGroup, FormFields, group
    <3>3. Append(form.groups, group) \in Seq(Groups) /\ Len(Append(form.groups, group)) >= 2
      BY <1>3, <3>1
    <3>4. QED BY <1>1, <3>2, <3>3
  <2>3. QED BY <2>1, <2>2
<1>6. CASE new = [form EXCEPT !.groups = EvenSplit(@)]
  BY <1>1, <1>3, <1>6 DEF FormFields
<1>7. ASSUME NEW i \in DOMAIN form.groups, new = RemoveGroup(form, i)
      PROVE  FormTyped(new) /\ new.type = form.type
  <2>1. CASE Len(form.groups) <= 2
    BY <1>2, <1>7, <2>1 DEF RemoveGroup
  <2>2. CASE ~(Len(form.groups) <= 2)
    <3> DEFINE before == SubSeq(form.groups, 1, i - 1)
               after == SubSeq(form.groups, i + 1, Len(form.groups))
    <3>1. i \in 1 .. Len(form.groups) /\ Len(form.groups) \in Nat
      BY <1>3
    <3>2. before \in Seq(Groups) /\ Len(before) = i - 1
      BY <1>3, <3>1
    <3>3. after \in Seq(Groups) /\ Len(after) = Len(form.groups) - i
      BY <1>3, <3>1
    <3>4. new = [form EXCEPT !.groups = before \o after]
      BY <1>3, <1>7, <2>2 DEF RemoveGroup, RemoveAt, FormFields
    <3> HIDE DEF before, after
    <3>5. before \o after \in Seq(Groups) /\ Len(before \o after) >= 2
      BY <2>2, <3>1, <3>2, <3>3
    <3>6. QED BY <1>1, <3>4, <3>5
  <2>3. QED BY <2>1, <2>2
<1>8. ASSUME NEW i \in DOMAIN form.groups, NEW name \in GroupNames,
             new = [form EXCEPT !.groups[i].name = name]
      PROVE  FormTyped(new) /\ new.type = form.type
  <2> DEFINE groups == [form.groups EXCEPT ![i] = [form.groups[i] EXCEPT !.name = name]]
  <2>1. [form.groups[i] EXCEPT !.name = name] \in Groups
    BY <1>3, <1>8, GroupTyped
  <2>2. groups \in Seq(Groups) /\ Len(groups) = Len(form.groups)
    BY <1>3, <2>1
  <2>3. new = [form EXCEPT !.groups = groups]
    BY <1>3, <1>8 DEF FormFields
  <2> HIDE DEF groups
  <2>4. QED BY <1>1, <1>3, <2>2, <2>3
<1>9. ASSUME NEW i \in DOMAIN form.groups, NEW n \in Numbers,
             new = [form EXCEPT !.groups[i].weight = Clamp(n)]
      PROVE  FormTyped(new) /\ new.type = form.type
  <2> DEFINE groups == [form.groups EXCEPT ![i] = [form.groups[i] EXCEPT !.weight = Clamp(n)]]
  <2>0. n = Null \/ n \in Nat
    BY FormAssumption
  <2>1. Clamp(n) \in Int
    BY ONLY <2>0 DEF Clamp
  <2>2. [form.groups[i] EXCEPT !.weight = Clamp(n)] \in Groups
    BY <1>3, <2>1, GroupTyped
  <2>3. groups \in Seq(Groups) /\ Len(groups) = Len(form.groups)
    BY <1>3, <2>2
  <2>4. new = [form EXCEPT !.groups = groups]
    BY <1>3, <1>9 DEF FormFields
  <2> HIDE DEF groups
  <2>5. QED BY <1>1, <1>3, <2>3, <2>4
<1>10. CASE new \in GroupRows(form)
  BY <1>7, <1>8, <1>9, <1>10 DEF GroupRows
<1>11. CASE new \in GroupButtons(form)
  BY <1>4, <1>5, <1>6, <1>11 DEF GroupButtons
<1>12. QED BY <1>10, <1>11

LEMMA SectionsKeep ==
  ASSUME NEW form, FormTyped(form), NEW section \in DOMAIN Sections(form),
         NEW new \in Sections(form)[section]
  PROVE  FormTyped(new) /\ new.type = form.type
<1>1. \/ new \in NameSection(form) \cup NotesSection(form) \cup PercentageSection(form)
      \/ new \in TestAudience(form) \cup RolloutAudience(form)
      \/ form.type = "TEST" /\ new \in GroupRows(form) \cup GroupButtons(form)
  BY DEF Sections, TestSections, RolloutSections
<1>2. CASE new \in NameSection(form) \cup NotesSection(form) \cup PercentageSection(form)
  <2>1. SameGroups(form, new)
    BY <1>2 DEF NameSection, NotesSection, PercentageSection, SameGroups, FormTyped, FormFields
  <2>2. QED BY <2>1, SameGroupsTyped
<1>3. CASE new \in TestAudience(form) \cup RolloutAudience(form)
  BY <1>3, AudienceKeeps, SameGroupsTyped
<1>4. CASE form.type = "TEST" /\ new \in GroupRows(form) \cup GroupButtons(form)
  BY <1>4, GroupsKeep
<1>5. QED BY <1>1, <1>2, <1>3, <1>4

LEMMA EffGroupsTyped ==
  ASSUME NEW form, FormTyped(form)
  PROVE  EffGroups(form) \in Seq(Groups)
BY EvenSplitTyped DEF FormTyped, EffGroups

-----------------------------------------------------------------------------
(* Applying a request, or losing it.                                        *)

LEMMA CarriedStays ==
  ASSUME RowsGrow, NEW q, Carries(q) /\ Answered(q)
  PROVE  (Carries(q) /\ Answered(q))'
<1>1. Carries(q)'
  BY KnownStays DEF Carries
<1>2. Answered(q)'
  BY KnownStays, KnownRowsStay DEF Answered
<1>3. QED BY <1>1, <1>2

\* A request that was served, or has failed, carries what it did.
Marked(p, q) ==
  /\ Addressed(p) /\ Carries(p)
  /\ p.op = q.op /\ p.item = q.item /\ p.tab = q.tab /\ p.n = q.n /\ p.type = q.type
  /\ p.body = q.body

LEMMA MarkedCarries ==
  ASSUME NEW q, Addressed(q), Carries(q), NEW turn, NEW reply, NEW p,
         p = Applied(q, turn, reply) \/ p = Failed(q, turn)
  PROVE  /\ Marked(p, q)
         /\ p.turn = turn
         /\ p = Applied(q, turn, reply) => p.status = "applied" /\ p.reply = reply
         /\ p = Failed(q, turn) => p.status = "failed"
<1>1. /\ DOMAIN p = RequestFields /\ p.status \in {"applied", "failed"}
      /\ p.tab = q.tab /\ p.n = q.n /\ p.op = q.op /\ p.item = q.item /\ p.at = q.at
      /\ p.type = q.type /\ p.body = q.body /\ p.copy = q.copy /\ p.entry = q.entry
      /\ p.shown = q.shown /\ p.turn = turn
      /\ p = Applied(q, turn, reply) => p.status = "applied" /\ p.reply = reply
      /\ p = Failed(q, turn) => p.status = "failed"
  <2>1. CASE p = Applied(q, turn, reply)
    BY <2>1 DEF Addressed, RequestFields, Applied, Failed
  <2>2. CASE p = Failed(q, turn)
    BY <2>2 DEF Addressed, RequestFields, Applied, Failed
  <2>3. QED BY <2>1, <2>2
<1>2. Addressed(p)
  BY <1>1 DEF Addressed, There
<1>3. Carries(p)
  BY <1>1 DEF Carries, SavesBack, Previewed
<1>4. QED BY <1>1, <1>2, <1>3 DEF Marked

\* The rows after a request was applied.
LEMMA ServeRows ==
  ASSUME RowsKnown, RequestsSound, NEW q \in net, Serve(q)
  PROVE  /\ RowsGrow /\ RowsKnown'
         /\ ids' \ ids \subseteq {q.item}
         /\ q.op # "create" => ids' = ids
         /\ q.op = "load" => rows' = rows
         /\ q.op # "load" /\ ~Refuses(q) => rows'[q.item] = Handle(q)
<1> DEFINE result == Handle(q)
<1>1. /\ rows' = IF q.op = "load" \/ Refuses(q) THEN rows
                 ELSE [rows EXCEPT ![q.item] = result]
      /\ ids' = IF q.op = "create" /\ ~Refuses(q) THEN ids \cup {q.item} ELSE ids
      /\ q.status = "sent" /\ Addressed(q) /\ Carries(q)
  BY DEF Serve, RequestsSound, table
<1>2. q.op # "load" => q.item \in Items
  BY <1>1 DEF Addressed
<1>3. CASE q.op = "load" \/ Refuses(q)
  BY <1>1, <1>3 DEF RowsGrow, RowsKnown, KnownRows, KnownRow
<1>4. CASE q.op = "create" /\ ~Refuses(q)
  <2>1. q.item \in Items /\ q.item \notin ids
    BY <1>1, <1>2, <1>4 DEF RequestsSound, IdsApart
  <2>2. RowTyped(result)
    <3>1. result = Row(q.type, q.body)
      BY <1>4 DEF Handle
    <3>2. QED BY <1>1, <1>4, <3>1, CreatedTyped DEF Carries
  <2> HIDE DEF result
  <2>3. /\ rows' = [rows EXCEPT ![q.item] = result] /\ ids' = ids \cup {q.item}
        /\ q.item \in DOMAIN rows
    BY <1>1, <1>4, <2>1 DEF RowsKnown, KnownRows
  <2>4. RowsGrow
    BY <2>1, <2>3 DEF RowsGrow, RowsKnown, KnownRows
  <2>5. RowsKnown'
    BY <2>1, <2>2, <2>3 DEF RowsKnown, KnownRows, KnownRow
  <2>6. QED BY <1>4, <2>3, <2>4, <2>5 DEF result
<1>5. CASE q.op \notin {"load", "create"} /\ ~Refuses(q)
  <2>1. /\ rows[q.item] # Null
        /\ q.op # "delete" => RowTyped(result) /\ result.type = rows[q.item].type
        /\ q.op = "delete" => result = Null
    BY <1>1, <1>5, HandledRow
  <2> HIDE DEF result
  <2>2. /\ rows' = [rows EXCEPT ![q.item] = result] /\ ids' = ids
        /\ q.item \in DOMAIN rows /\ q.item \in Items
    BY <1>1, <1>2, <1>5 DEF RowsKnown, KnownRows
  <2>3. q.item \in ids
    BY <2>1, <2>2 DEF RowsKnown, KnownRows, KnownRow
  <2>4. RowsGrow
    BY <2>1, <2>2 DEF RowsGrow, RowsKnown, KnownRows
  <2>5. RowsKnown'
    BY <2>1, <2>2, <2>3 DEF RowsKnown, KnownRows, KnownRow
  <2>6. QED BY <1>5, <2>2, <2>4, <2>5 DEF result
<1>6. QED BY <1>3, <1>4, <1>5

\* Every other part of the invariant, for steps that leave tabs and desk alone.
LEMMA PagesStay ==
  ASSUME DeskTyped, TabsTyped, RowsGrow, UNCHANGED <<tabs, desk>>
  PROVE  DeskTyped' /\ TabsTyped'
<1>1. DeskTyped'
  BY DEF DeskTyped
<1>2. TabsTyped'
  BY TabStays DEF TabsTyped
<1>3. QED BY <1>1, <1>2

LEMMA ServeStep ==
  ASSUME DeskInvariant, NEW q \in net, Serve(q)
  PROVE  DeskInvariant'
<1>1. /\ RowsKnown /\ DeskTyped /\ TabsTyped /\ RequestsSound
      /\ UNCHANGED <<tabs, desk>> /\ q.status = "sent"
  BY DEF DeskInvariant, Serve
<1>2. /\ RowsGrow /\ RowsKnown' /\ ids' \ ids \subseteq {q.item}
      /\ q.op # "create" => ids' = ids
      /\ q.op = "load" => rows' = rows
      /\ q.op # "load" /\ ~Refuses(q) => rows'[q.item] = Handle(q)
  BY <1>1, ServeRows
<1>3. DeskTyped' /\ TabsTyped'
  BY <1>1, <1>2, PagesStay
<1>4. Addressed(q) /\ Carries(q)
  BY <1>1 DEF RequestsSound
<1>5. PICK new : /\ new = IF Refuses(q) THEN Failed(q, served + 1)
                                         ELSE Applied(q, served + 1, Handle(q))
                 /\ net' = (net \ {q}) \cup {new}
  BY DEF Serve
<1>6. /\ Addressed(new) /\ Carries(new) /\ new.op = q.op /\ new.item = q.item
      /\ new.type = q.type /\ new.body = q.body
      /\ new.status = IF Refuses(q) THEN "failed" ELSE "applied"
      /\ ~Refuses(q) => new.reply = Handle(q)
  BY <1>4, <1>5, MarkedCarries DEF Marked
<1>7. Answered(new)'
  <2>1. CASE q.op = "load"
    <3>1. new.reply = rows
      BY <1>6, <2>1 DEF Handle, Refuses
    <3>2. QED BY <1>1, <1>2, <1>6, <2>1, <3>1 DEF Answered, RowsKnown
  <2>2. CASE q.op # "load" /\ ~Refuses(q)
    <3>1. q.item \in Items
      BY <1>4, <2>2 DEF Addressed
    <3>2. KnownRow(new.item, new.reply, rows', ids')
      BY <1>2, <1>6, <2>2, <3>1 DEF RowsKnown, KnownRows
    <3>3. q.op = "create" => new.reply = Row(new.type, new.body)
      BY <1>6, <2>2 DEF Handle
    <3>4. QED BY <1>6, <2>2, <3>2, <3>3 DEF Answered
  <2>3. CASE Refuses(q)
    BY <1>6, <2>3 DEF Answered
  <2>4. QED BY <2>1, <2>2, <2>3
<1>8. \A p : Addressed(p) => Addressed(p)'
  BY <1>1 DEF Addressed, There
<1>9. Carries(new)'
  BY <1>2, <1>6, KnownStays DEF Carries
<1>10. \A p \in net : Carries(p)' /\ Answered(p)'
  BY <1>1, <1>2, CarriedStays DEF RequestsSound
<1>11. \A p \in net' : Addressed(p)' /\ Carries(p)' /\ Answered(p)'
  BY <1>1, <1>5, <1>6, <1>7, <1>8, <1>9, <1>10 DEF RequestsSound
<1>12. IdsApart'
  <2>1. \A p \in net : p.op = "create" /\ p.status = "sent" /\ p # q => p.item \notin ids'
    <3>1. SUFFICES ASSUME NEW p \in net, p.op = "create", p.status = "sent", p # q
                   PROVE  p.item \notin ids'
      OBVIOUS
    <3>2. p.item \notin ids
      BY <1>1, <3>1 DEF RequestsSound, IdsApart
    <3>3. CASE q.op = "create"
      BY <1>1, <1>2, <3>1, <3>2, <3>3 DEF RequestsSound, IdsApart
    <3>4. CASE q.op # "create"
      BY <1>2, <3>2, <3>4
    <3>5. QED BY <3>3, <3>4
  <2>2. QED BY <1>1, <1>5, <1>6, <2>1 DEF RequestsSound, IdsApart
<1>13. QED BY <1>2, <1>3, <1>11, <1>12 DEF DeskInvariant, RequestsSound

LEMMA LoseStep ==
  ASSUME DeskInvariant, NEW q \in net, Lose(q)
  PROVE  DeskInvariant'
<1>1. /\ RowsKnown /\ DeskTyped /\ TabsTyped /\ RequestsSound
      /\ UNCHANGED <<table, tabs, desk>>
      /\ net' = (net \ {q}) \cup {Failed(q, served)}
  BY DEF DeskInvariant, Lose
<1>2. RowsGrow
  BY <1>1, SameRowsGrow
<1>3. RowsKnown' /\ DeskTyped' /\ TabsTyped'
  BY <1>1, <1>2, PagesStay DEF RowsKnown, table
<1>4. PICK new : /\ Addressed(new) /\ Carries(new) /\ new.status = "failed"
                 /\ new.op = q.op /\ new.item = q.item
                 /\ net' = (net \ {q}) \cup {new}
  <2>1. Addressed(q) /\ Carries(q)
    BY <1>1 DEF RequestsSound
  <2>2. PICK new : new = Failed(q, served)
    OBVIOUS
  <2>3. /\ Marked(new, q)
        /\ new = Failed(q, served) => new.status = "failed"
    <3>1. new = Applied(q, served, Null) \/ new = Failed(q, served)
      BY <2>2
    <3>2. QED BY <2>1, <3>1, MarkedCarries
  <2>4. QED BY <1>1, <2>2, <2>3 DEF Marked
<1>5. Answered(new)
  BY <1>4 DEF Answered
<1>6. \A p : Addressed(p) => Addressed(p)'
  BY <1>1 DEF Addressed, There
<1>7. \A p : Carries(p) /\ Answered(p) => (Carries(p) /\ Answered(p))'
  BY <1>2, CarriedStays
<1>8. \A p \in net' : Addressed(p)' /\ Carries(p)' /\ Answered(p)'
  BY <1>1, <1>4, <1>5, <1>6, <1>7 DEF RequestsSound
<1>9. IdsApart'
  BY <1>1, <1>4 DEF RequestsSound, IdsApart, table
<1>10. QED BY <1>3, <1>8, <1>9 DEF DeskInvariant, RequestsSound

-----------------------------------------------------------------------------
(* The pages.                                                               *)

\* A request that the open page of a tab can send.
Sendable(q, t) ==
  /\ tabs[t] # Null /\ DOMAIN q = RequestFields
  /\ q.tab = t /\ q.n = tabs[t].n /\ q.op \in Operations /\ q.status = "sent"
  /\ q.op # "load" => q.item \in Items
  /\ q.op = "load" => q.at \in {"list", "flag"}
  /\ q.op = "percentage" => q.at = "list"
  /\ \/ q.at = tabs[t].page.at
     \/ q.at \in {"assign", "values"} /\ tabs[t].page.at = "flag"
  /\ q.op = "create" => q.item \in Free
  /\ Carries(q)

OpensStay == DeskTyped' /\ \A u \in Tabs : desk'[u].opens = desk[u].opens

LEMMA DeskSpent ==
  ASSUME DeskTyped, NEW t \in Tabs, Gesture(t) \/ UNCHANGED desk
  PROVE  OpensStay
BY DEF DeskTyped, Gesture, OpensStay

\* Something happens on the open page of a tab, or it is left; a request may be sent.
LEMMA TabStep ==
  ASSUME DeskInvariant, UNCHANGED table, OpensStay, NEW t \in Tabs,
         DOMAIN tabs' = Tabs, \A u \in Tabs \ {t} : tabs'[u] = tabs[u],
         \/ tabs'[t] = Null
         \/ /\ tabs[t] # Null /\ TabTyped(tabs'[t], rows, ids)
            /\ tabs'[t].page = tabs[t].page /\ tabs'[t].n = tabs[t].n,
         NEW sent, net' \subseteq net \cup sent,
         \A q \in sent : Sendable(q, t), \A p, q \in sent : p = q
  PROVE  DeskInvariant'
<1>1. RowsKnown /\ DeskTyped /\ TabsTyped /\ RequestsSound /\ UNCHANGED <<rows, ids>>
  BY DEF DeskInvariant, table
<1>2. RowsKnown' /\ DeskTyped'
  BY <1>1 DEF RowsKnown, OpensStay
<1>3. TabsTyped'
  BY <1>1 DEF TabsTyped, OpensStay
<1>4. \A q : There(q)' /\ q.tab \in Tabs => There(q) /\ tabs'[q.tab].page = tabs[q.tab].page
  BY DEF There
<1>5. \A q : Addressed(q) => Addressed(q)'
  BY <1>4 DEF Addressed, OpensStay
<1>6. \A q \in sent : Addressed(q)
  BY <1>1 DEF Sendable, Addressed, TabsTyped, TabTyped
<1>7. \A q : Carries(q) /\ Answered(q) => (Carries(q) /\ Answered(q))'
  BY <1>1 DEF Carries, Answered
<1>8. \A q \in sent : Carries(q) /\ Answered(q)
  BY DEF Sendable, Answered
<1>9. \A q \in net' : Addressed(q)' /\ Carries(q)' /\ Answered(q)'
  BY <1>1, <1>5, <1>6, <1>7, <1>8 DEF RequestsSound
<1>10. IdsApart'
  <2>1. \A q \in net' : q.op = "create" /\ q.status = "sent" => q.item \notin ids'
    BY <1>1 DEF RequestsSound, IdsApart, Sendable, Free
  <2>2. \A p, q \in net' : p.op = "create" /\ q.op = "create" /\ p.item = q.item => p = q
    BY <1>1 DEF RequestsSound, IdsApart, Sendable, Free
  <2>3. QED BY <2>1, <2>2 DEF IdsApart
<1>11. QED BY <1>2, <1>3, <1>9, <1>10 DEF DeskInvariant, RequestsSound

LEMMA QuietTabStep ==
  ASSUME DeskInvariant, UNCHANGED table, OpensStay, NEW t \in Tabs,
         DOMAIN tabs' = Tabs, \A u \in Tabs \ {t} : tabs'[u] = tabs[u],
         \/ tabs'[t] = Null
         \/ /\ tabs[t] # Null /\ TabTyped(tabs'[t], rows, ids)
            /\ tabs'[t].page = tabs[t].page /\ tabs'[t].n = tabs[t].n,
         net' \subseteq net
  PROVE  DeskInvariant'
<1>1. PICK sent : sent = {}
  OBVIOUS
<1>2. /\ net' \subseteq net \cup sent
      /\ \A q \in sent : Sendable(q, t)
      /\ \A p, q \in sent : p = q
  BY <1>1
<1>3. QED BY <1>2, TabStep

LEMMA SentTabStep ==
  ASSUME DeskInvariant, UNCHANGED table, OpensStay, NEW t \in Tabs,
         DOMAIN tabs' = Tabs, \A u \in Tabs \ {t} : tabs'[u] = tabs[u],
         /\ tabs[t] # Null /\ TabTyped(tabs'[t], rows, ids)
         /\ tabs'[t].page = tabs[t].page /\ tabs'[t].n = tabs[t].n,
         NEW q, Sendable(q, t), net' \subseteq net \cup {q}
  PROVE  DeskInvariant'
<1>1. PICK sent : sent = {q}
  OBVIOUS
<1>2. /\ net' \subseteq net \cup sent
      /\ \A p \in sent : Sendable(p, t)
      /\ \A p, r \in sent : p = r
  BY <1>1
<1>3. QED BY <1>2, TabStep

\* A request, as Request puts it together.
LEMMA RequestIs ==
  ASSUME NEW t, tabs[t] # Null, NEW op, NEW item, NEW body
  PROVE  LET q == Request(t, op, item, body) IN
         /\ DOMAIN q = RequestFields
         /\ q.tab = t /\ q.n = tabs[t].n /\ q.at = tabs[t].page.at /\ q.type = tabs[t].page.type
         /\ q.op = op /\ q.item = item /\ q.body = body /\ q.status = "sent" /\ q.turn = 0
         /\ q.copy = IF item = Null THEN Null ELSE tabs[t].copy[item]
         /\ (tabs[t].page.at = "new" => q.shown = Panel(tabs[t].form, tabs[t].initial).live)
BY DEF Request, RequestFields

\* A page that changes its form, or what it is waiting for.
LEMMA FormChanges ==
  ASSUME NEW tab, TabTyped(tab, rows, ids), NEW new,
         DOMAIN new = DOMAIN tab, new.page = tab.page, new.n = tab.n,
         new.copy = tab.copy, new.modal = tab.modal,
         \/ new.form = tab.form
         \/ tab.page.at = "new" => FormTyped(new.form) /\ new.form.type = tab.form.type
  PROVE  TabTyped(new, rows, ids)
BY DEF TabTyped

LEMMA LeaveStep ==
  ASSUME DeskInvariant, NEW t \in Tabs, Leave(t)
  PROVE  DeskInvariant'
<1>1. OpensStay
  BY DeskSpent DEF DeskInvariant, Leave
<1>2. /\ DOMAIN tabs' = Tabs /\ tabs'[t] = Null /\ \A u \in Tabs \ {t} : tabs'[u] = tabs[u]
      /\ net' \subseteq net /\ UNCHANGED table
  BY DEF DeskInvariant, TabsTyped, Leave
<1>3. QED BY <1>1, <1>2, QuietTabStep

LEMMA TypeStep ==
  ASSUME DeskInvariant, NEW t \in Tabs, Type(t)
  PROVE  DeskInvariant'
<1>1. OpensStay
  BY DeskSpent DEF DeskInvariant, Type
<1>2. PICK section \in DOMAIN Sections(tabs[t].form) :
        \E form \in Sections(tabs[t].form)[section] : tabs' = [tabs EXCEPT ![t].form = form]
  BY DEF Type
<1> PICK form \in Sections(tabs[t].form)[section] : tabs' = [tabs EXCEPT ![t].form = form]
  BY <1>2
<1>3. tabs[t] # Null /\ net' \subseteq net /\ UNCHANGED table
  BY DEF Type
<1>4. TabTyped(tabs[t], rows, ids) /\ DOMAIN tabs = Tabs /\ DOMAIN tabs[t] = TabFields
  BY <1>3 DEF DeskInvariant, TabsTyped, TabTyped
<1>5. /\ DOMAIN tabs' = Tabs /\ \A u \in Tabs \ {t} : tabs'[u] = tabs[u]
      /\ DOMAIN tabs'[t] = DOMAIN tabs[t] /\ tabs'[t].page = tabs[t].page
      /\ tabs'[t].n = tabs[t].n /\ tabs'[t].copy = tabs[t].copy /\ tabs'[t].modal = tabs[t].modal
      /\ tabs'[t].form = form
  BY <1>3, <1>4 DEF TabFields
<1>6. tabs[t].page.at = "new" => FormTyped(form) /\ form.type = tabs[t].form.type
  BY <1>4, SectionsKeep DEF TabTyped
<1>7. TabTyped(tabs'[t], rows, ids)
  BY <1>4, <1>5, <1>6, FormChanges
<1>8. QED BY <1>1, <1>3, <1>5, <1>7, QuietTabStep

\* A form waits for its answer.
LEMMA WaitingTyped ==
  ASSUME DeskInvariant, NEW t \in Tabs, tabs[t] # Null, NEW waiting,
         tabs' = [tabs EXCEPT ![t].saving = waiting] \/ tabs' = tabs
  PROVE  /\ DOMAIN tabs' = Tabs /\ \A u \in Tabs \ {t} : tabs'[u] = tabs[u]
         /\ TabTyped(tabs'[t], rows, ids)
         /\ tabs'[t].page = tabs[t].page /\ tabs'[t].n = tabs[t].n
<1>1. TabTyped(tabs[t], rows, ids) /\ DOMAIN tabs = Tabs /\ DOMAIN tabs[t] = TabFields
  BY DEF DeskInvariant, TabsTyped, TabTyped
<1>2. /\ DOMAIN tabs' = Tabs /\ \A u \in Tabs \ {t} : tabs'[u] = tabs[u]
      /\ DOMAIN tabs'[t] = DOMAIN tabs[t] /\ tabs'[t].page = tabs[t].page
      /\ tabs'[t].n = tabs[t].n /\ tabs'[t].copy = tabs[t].copy /\ tabs'[t].modal = tabs[t].modal
      /\ tabs'[t].form = tabs[t].form
  <2>1. CASE tabs' = tabs
    BY <1>1, <2>1
  <2>2. CASE tabs' = [tabs EXCEPT ![t].saving = waiting]
    BY <1>1, <2>2 DEF TabFields
  <2>3. QED BY <2>1, <2>2
<1>3. QED BY <1>1, <1>2, FormChanges

LEMMA SubmitNewStep ==
  ASSUME DeskInvariant, NEW t \in Tabs, SubmitNew(t)
  PROVE  DeskInvariant'
<1> DEFINE item == CHOOSE item \in Free : TRUE
           body == IF tabs[t].form.type = "TEST" THEN TestPayload(tabs[t].form)
                   ELSE RolloutPayload(tabs[t].form)
           q == Request(t, "create", item, body)
<1>1. /\ tabs[t] # Null /\ tabs[t].page.at = "new" /\ UNCHANGED table
      /\ tabs' = [tabs EXCEPT ![t].saving = {"form"}] /\ net' = net \cup {q}
      /\ Free # {}
  BY DEF SubmitNew, At, Send
<1>2. OpensStay
  BY DeskSpent DEF DeskInvariant, SubmitNew
<1>3. item \in Free /\ item \in Items
  BY <1>1 DEF Free
<1>4. /\ DOMAIN q = RequestFields
      /\ q.tab = t /\ q.n = tabs[t].n /\ q.at = tabs[t].page.at /\ q.type = tabs[t].page.type
      /\ q.op = "create" /\ q.item = item /\ q.body = body /\ q.status = "sent"
      /\ q.shown = Panel(tabs[t].form, tabs[t].initial).live
  BY <1>1, RequestIs
<1> HIDE DEF q, item
<1>5. /\ tabs[t].page.type \in {"TEST", "ROLLOUT"}
      /\ FormTyped(tabs[t].form) /\ tabs[t].form.type = tabs[t].page.type
  BY <1>1 DEF DeskInvariant, TabsTyped, TabTyped, PageTyped
<1>6. Carries(q)
  <2>1. q.shown = Preview(tabs[t].form)
    BY <1>4, <1>5 DEF Panel, TestPanel, RolloutPanel, Preview
  <2>2. q.body = Payload(tabs[t].form)
    BY <1>4 DEF Payload
  <2>3. Previewed(q)
    BY <1>4, <1>5, <2>1, <2>2 DEF Previewed
  <2>4. QED BY <1>4, <1>5, <2>3 DEF Carries
<1>7. Sendable(q, t)
  BY <1>1, <1>3, <1>4, <1>6 DEF Sendable, Operations
<1>8. QED BY <1>1, <1>2, <1>7, WaitingTyped, SentTabStep

\* What a form sends back for the copy it worked on.
LEMMA EditBodies ==
  ASSUME NEW payload, NEW copy
  PROVE  LET test == EditTestBody(payload, copy)
             rollout == EditRolloutBody(payload, copy)
         IN  /\ BodyTyped("TEST", test) /\ "variants" \in DOMAIN test
             /\ BodyTyped("ROLLOUT", rollout)
             /\ \A body \in {test, rollout} :
                  "archived" \in DOMAIN body /\ body.archived = copy.archived
<1> DEFINE test == EditTestBody(payload, copy)
           rollout == EditRolloutBody(payload, copy)
           blank == [env \in Envs |-> Blank]
           merged == MergeGroups(payload.groups, blank)
<1>1. blank \in EnvValues
  BY DEF EnvValues
<1>2. VariantsTyped(merged)
  <2>1. SUFFICES ASSUME NEW name \in DOMAIN merged
                 PROVE  DOMAIN merged[name] = {"percentage", "values"}
                        /\ merged[name].values = blank
    BY <1>1 DEF VariantsTyped
  <2>2. QED BY <2>1 DEF MergeGroups
<1>3. /\ DOMAIN test = {"name", "notes", "conditions", "variants", "flagIds", "archived"}
      /\ test.variants = merged /\ test.archived = copy.archived
  BY DEF EditTestBody
<1>4. /\ DOMAIN rollout = {"name", "notes", "conditions", "percentage", "archived"}
      /\ rollout.archived = copy.archived
  BY DEF EditRolloutBody
<1> HIDE DEF test, rollout, merged
<1>5. /\ BodyTyped("TEST", test) /\ "variants" \in DOMAIN test
      /\ BodyTyped("ROLLOUT", rollout)
      /\ \A body \in {test, rollout} : "archived" \in DOMAIN body /\ body.archived = copy.archived
  BY <1>2, <1>3, <1>4 DEF BodyTyped, Columns
<1>6. QED BY <1>5 DEF test, rollout

LEMMA SubmitEditStep ==
  ASSUME DeskInvariant, NEW t \in Tabs, SubmitEdit(t)
  PROVE  DeskInvariant'
<1> DEFINE item == tabs[t].page.item
           copy == tabs[t].copy[item]
           body == IF copy.type = "TEST" THEN EditTestBody(TestPayload(tabs[t].form), copy)
                   ELSE EditRolloutBody(RolloutPayload(tabs[t].form), copy)
           q == Request(t, "save", item, body)
<1>1. /\ tabs[t] # Null /\ tabs[t].page.at = "edit" /\ UNCHANGED table
      /\ tabs' = [tabs EXCEPT ![t].saving = {"form"}] /\ net' = net \cup {q}
  BY DEF SubmitEdit, At, Send
<1>2. OpensStay
  BY DeskSpent DEF DeskInvariant, SubmitEdit
<1>3. TabTyped(tabs[t], rows, ids)
  BY <1>1 DEF DeskInvariant, TabsTyped
<1>4. item \in Items /\ item # Null /\ copy # Null /\ KnownRow(item, copy, rows, ids)
  BY <1>1, <1>3, ScenariosAssumption DEF TabTyped, PageTyped, KnownRows
<1>5. copy.type \in {"TEST", "ROLLOUT"}
  BY <1>4 DEF KnownRow, RowTyped
<1>6. /\ BodyTyped(copy.type, body) /\ "archived" \in DOMAIN body
      /\ body.archived = copy.archived
      /\ copy.type = "TEST" => "variants" \in DOMAIN body
  <2>1. CASE copy.type = "TEST"
    BY <2>1, EditBodies
  <2>2. CASE copy.type = "ROLLOUT"
    BY <2>2, EditBodies
  <2>3. QED BY <1>5, <2>1, <2>2
<1> HIDE DEF body
<1>7. /\ DOMAIN q = RequestFields
      /\ q.tab = t /\ q.n = tabs[t].n /\ q.at = tabs[t].page.at
      /\ q.op = "save" /\ q.item = item /\ q.status = "sent" /\ q.body = body /\ q.copy = copy
  BY <1>1, <1>4, RequestIs
<1> HIDE DEF q, item, copy
<1>8. Carries(q)
  BY <1>4, <1>6, <1>7 DEF Carries, SavesBack
<1>9. Sendable(q, t)
  BY <1>1, <1>4, <1>7, <1>8 DEF Sendable, Operations
<1>10. QED BY <1>1, <1>2, <1>9, WaitingTyped, SentTabStep

\* A button or a menu that sends a row's id, and little else.
LEMMA ButtonStep ==
  ASSUME DeskInvariant, UNCHANGED <<table, tabs>>, NEW t \in Tabs, Gesture(t), tabs[t] # Null,
         NEW op \in {"archive", "delete"}, NEW item \in Items, NEW body,
         net' = net \cup {Request(t, op, item, body)}
  PROVE  DeskInvariant'
<1> DEFINE q == Request(t, op, item, body)
<1>1. OpensStay
  BY DeskSpent DEF DeskInvariant
<1>2. /\ DOMAIN q = RequestFields
      /\ q.tab = t /\ q.n = tabs[t].n /\ q.at = tabs[t].page.at
      /\ q.op = op /\ q.item = item /\ q.status = "sent"
  BY RequestIs
<1>3. net' = net \cup {q}
  OBVIOUS
<1> HIDE DEF q
<1>4. Carries(q)
  BY <1>2 DEF Carries
<1>5. Sendable(q, t)
  BY <1>2, <1>4 DEF Sendable, Operations
<1>6. QED BY <1>1, <1>3, <1>5, WaitingTyped, SentTabStep

LEMMA ButtonsStep ==
  ASSUME DeskInvariant, NEW t \in Tabs,
         \/ CompleteEdit(t) \/ DeleteEdit(t)
         \/ \E item \in Items : \/ \E kind \in {"cancel", "complete"} : ArchiveListed(t, item, kind)
                                \/ DeleteListed(t, item)
  PROVE  DeskInvariant'
<1>1. CASE CompleteEdit(t) \/ DeleteEdit(t)
  <2>1. tabs[t] # Null /\ tabs[t].page.at = "edit"
    BY <1>1 DEF CompleteEdit, DeleteEdit, At
  <2>2. tabs[t].page.item \in Items
    BY <2>1 DEF DeskInvariant, TabsTyped, TabTyped, PageTyped
  <2>3. /\ Gesture(t) /\ UNCHANGED <<table, tabs>>
        /\ \/ net' = net \cup {Request(t, "archive", tabs[t].page.item, [kind |-> "complete"])}
           \/ net' = net \cup {Request(t, "delete", tabs[t].page.item, Null)}
    BY <1>1 DEF CompleteEdit, DeleteEdit, Send
  <2>4. QED BY <2>1, <2>2, <2>3, ButtonStep
<1>2. CASE \E item \in Items : \/ \E kind \in {"cancel", "complete"} : ArchiveListed(t, item, kind)
                               \/ DeleteListed(t, item)
  <2>1. \E item \in Items, kind \in {"cancel", "complete"} :
          /\ tabs[t] # Null /\ Gesture(t) /\ UNCHANGED <<table, tabs>>
          /\ \/ net' = net \cup {Request(t, "archive", item, [kind |-> kind])}
             \/ net' = net \cup {Request(t, "delete", item, Null)}
    BY <1>2 DEF ArchiveListed, DeleteListed, At, Send
  <2>2. QED BY <2>1, ButtonStep
<1>3. QED BY <1>1, <1>2

\* A page whose copy changes, off the form for editing.
LEMMA CopyChanges ==
  ASSUME NEW tab, TabTyped(tab, rows, ids), tab.page.at # "edit",
         NEW new, KnownRows(new.copy, rows, ids),
         DOMAIN new = DOMAIN tab, new.page = tab.page, new.n = tab.n, new.modal = tab.modal,
         new.form = tab.form
  PROVE  TabTyped(new, rows, ids)
BY DEF TabTyped

LEMMA DragStep ==
  ASSUME DeskInvariant, NEW t \in Tabs, NEW item \in Items, NEW n, Drag(t, item, n)
  PROVE  DeskInvariant'
<1> DEFINE row == [tabs[t].copy[item] EXCEPT !.percentage = n]
           busy == tabs[t].updating \cup {item}
           q == Request(t, "percentage", item, [percentage |-> n])
<1>1. /\ tabs[t] # Null /\ tabs[t].page.at = "list" /\ UNCHANGED table
      /\ tabs[t].copy[item] # Null /\ net' = net \cup {q}
      /\ tabs' = [tabs EXCEPT ![t].copy[item].percentage = n, ![t].updating = @ \cup {item}]
  BY DEF Drag, At, Send, RolloutCards, Listed
<1>2. OpensStay
  BY DeskSpent DEF DeskInvariant, Drag
<1>3. TabTyped(tabs[t], rows, ids) /\ DOMAIN tabs = Tabs
  BY <1>1 DEF DeskInvariant, TabsTyped
<1>4. DOMAIN tabs[t] = TabFields /\ DOMAIN tabs[t].copy = Items
  BY <1>3 DEF TabTyped, KnownRows
<1>5. KnownRow(item, row, rows, ids)
  <2>1. KnownRow(item, tabs[t].copy[item], rows, ids)
    BY <1>3 DEF TabTyped, KnownRows
  <2>2. QED BY <1>1, <2>1 DEF KnownRow, RowTyped, Columns
<1>6. tabs' = [tabs EXCEPT ![t] = [[tabs[t] EXCEPT !.copy = [tabs[t].copy EXCEPT ![item] = row]]
                                     EXCEPT !.updating = busy]]
  BY <1>1, <1>3, <1>4 DEF TabFields
<1> HIDE DEF row, busy
<1>7. /\ DOMAIN tabs' = Tabs /\ \A u \in Tabs \ {t} : tabs'[u] = tabs[u]
      /\ DOMAIN tabs'[t] = DOMAIN tabs[t] /\ tabs'[t].page = tabs[t].page
      /\ tabs'[t].n = tabs[t].n /\ tabs'[t].modal = tabs[t].modal /\ tabs'[t].form = tabs[t].form
      /\ tabs'[t].copy = [tabs[t].copy EXCEPT ![item] = row]
  BY <1>3, <1>4, <1>6 DEF TabFields
<1>8. TabTyped(tabs'[t], rows, ids)
  <2>1. KnownRows(tabs'[t].copy, rows, ids)
    BY <1>3, <1>5, <1>7 DEF TabTyped, KnownRows
  <2>2. QED BY <1>1, <1>3, <1>7, <2>1, CopyChanges
<1>9. /\ DOMAIN q = RequestFields
      /\ q.tab = t /\ q.n = tabs[t].n /\ q.at = tabs[t].page.at
      /\ q.op = "percentage" /\ q.item = item /\ q.status = "sent" /\ DOMAIN q.body = {"percentage"}
  BY <1>1, RequestIs
<1> HIDE DEF q
<1>10. Sendable(q, t)
  BY <1>1, <1>9 DEF Sendable, Operations, Carries
<1>11. QED BY <1>1, <1>2, <1>7, <1>8, <1>10, SentTabStep

LEMMA OpenStep ==
  ASSUME DeskInvariant, NEW t \in Tabs, NEW page \in desk[t].pages, Open(t, page)
  PROVE  DeskInvariant'
<1>1. RowsKnown /\ DeskTyped /\ TabsTyped /\ RequestsSound
  BY DEF DeskInvariant
<1>2. /\ PageTyped(page) /\ desk[t].opens \in Nat /\ DOMAIN desk = Tabs
      /\ DOMAIN desk[t] = {"pages", "sections", "gestures", "opens"}
  BY <1>1 DEF DeskTyped
<1>3. /\ tabs[t] = Null /\ desk[t].opens > 0 /\ UNCHANGED <<rows, ids, net>>
      /\ page.at = "edit" => rows[page.item] # Null
      /\ desk' = [desk EXCEPT ![t].opens = @ - 1]
  BY DEF Open, table
<1> PICK form : /\ tabs' = [tabs EXCEPT ![t] =
                     [page |-> page, n |-> desk[t].opens, copy |-> rows, form |-> form,
                      initial |-> form, modal |-> Null, saving |-> {}, updating |-> {}]]
                /\ page.at = "new" => form = IF page.type = "TEST" THEN NewTest ELSE NewRollout
  BY DEF Open
<1>4. /\ DOMAIN tabs' = Tabs /\ \A u \in Tabs \ {t} : tabs'[u] = tabs[u]
      /\ tabs'[t].page = page /\ tabs'[t].n = desk[t].opens /\ tabs'[t].copy = rows
      /\ tabs'[t].modal = Null /\ DOMAIN tabs'[t] = TabFields /\ tabs'[t].form = form
  BY <1>1, <1>3 DEF TabsTyped, TabFields
<1>5. /\ DOMAIN desk' = Tabs /\ \A u \in Tabs \ {t} : desk'[u] = desk[u]
      /\ DOMAIN desk'[t] = {"pages", "sections", "gestures", "opens"}
      /\ desk'[t].pages = desk[t].pages /\ desk'[t].opens = desk[t].opens - 1
  BY <1>2, <1>3
<1>6. RowsKnown'
  BY <1>1, <1>3 DEF RowsKnown
<1>7. DeskTyped'
  <2>1. desk'[t].opens \in Nat
    BY <1>2, <1>3, <1>5
  <2>2. QED BY <1>1, <1>5, <2>1 DEF DeskTyped
<1>8. TabsTyped'
  <2>1. TabTyped(tabs'[t], rows, ids)
    BY <1>1, <1>2, <1>3, <1>4, NewFormTyped DEF TabTyped, RowsKnown, PageTyped
  <2>2. tabs'[t].n > desk'[t].opens
    BY <1>2, <1>4, <1>5
  <2>3. QED BY <1>1, <1>3, <1>4, <1>5, <2>1, <2>2 DEF TabsTyped
<1>9. \A q : Addressed(q) => Addressed(q)'
  <2>1. SUFFICES ASSUME NEW q, Addressed(q) PROVE Addressed(q)'
    OBVIOUS
  <2>2. q.n \in Nat /\ q.tab \in Tabs /\ q.n > desk[q.tab].opens
    BY <2>1 DEF Addressed
  <2>3. q.n > desk'[q.tab].opens
    BY <1>2, <1>5, <2>2
  <2>4. There(q)' => There(q) /\ tabs'[q.tab] = tabs[q.tab]
    BY <1>2, <1>4, <2>2 DEF There
  <2>5. QED BY <2>1, <2>3, <2>4 DEF Addressed
<1>10. \A q : Carries(q) /\ Answered(q) => (Carries(q) /\ Answered(q))'
  BY <1>3 DEF Carries, Answered
<1>11. RequestsSound'
  BY <1>1, <1>3, <1>9, <1>10 DEF RequestsSound, IdsApart
<1>12. QED BY <1>6, <1>7, <1>8, <1>11 DEF DeskInvariant

-----------------------------------------------------------------------------
(* The dialogs of a flag's row.                                             *)

\* A dialog is opened, changed or closed.
LEMMA DialogStep ==
  ASSUME DeskInvariant, NEW t \in Tabs, Gesture(t) \/ UNCHANGED desk,
         UNCHANGED <<table, net>>, tabs[t] # Null, NEW modal,
         modal # Null => tabs[t].page.at = "flag" /\ DialogTyped(modal, rows, ids),
         tabs' = [tabs EXCEPT ![t].modal = modal]
  PROVE  DeskInvariant'
<1>1. OpensStay
  BY DeskSpent DEF DeskInvariant
<1>2. TabTyped(tabs[t], rows, ids) /\ DOMAIN tabs = Tabs /\ DOMAIN tabs[t] = TabFields
  BY DEF DeskInvariant, TabsTyped, TabTyped
<1>3. /\ DOMAIN tabs' = Tabs /\ \A u \in Tabs \ {t} : tabs'[u] = tabs[u]
      /\ DOMAIN tabs'[t] = TabFields /\ tabs'[t].page = tabs[t].page
      /\ tabs'[t].n = tabs[t].n /\ tabs'[t].copy = tabs[t].copy /\ tabs'[t].modal = modal
      /\ tabs'[t].form = tabs[t].form
  BY <1>2 DEF TabFields
<1>4. TabTyped(tabs'[t], rows, ids)
  BY <1>2, <1>3 DEF TabTyped
<1>5. QED BY <1>1, <1>3, <1>4, QuietTabStep

LEMMA CellIs ==
  ASSUME NEW values \in EnvValues \cup {Null}, NEW env \in Envs, NEW flag,
         Cell(values, env, flag) # Null
  PROVE  Cell(values, env, flag) \in FlagValues
<1>1. values # Null /\ values[env] \notin {Null, Blank} /\ flag \in DOMAIN values[env]
      /\ Cell(values, env, flag) = values[env][flag]
  BY DEF Cell
<1>2. values[env] \in FlagMaps
  BY <1>1 DEF EnvValues
<1>3. QED BY <1>1, <1>2, FlagMapOf

\* The inputs of the dialog start with a value for every group.
LEMMA StoredValuesTyped ==
  ASSUME NEW row, RowTyped(row), NEW env \in Envs, NEW flag
  PROVE  ValsTyped(row, StoredValues(row, env, flag))
<1> DEFINE old == Entry(row, env, flag)
           vals == StoredValues(row, env, flag)
<1>1. \A g \in DOMAIN old : old[g] # Null => old[g] \in FlagValues
  BY CellIs DEF Entry, RowTyped, VariantsTyped
<1>2. DOMAIN old = IF row.type = "ROLLOUT" THEN {"rollout"} ELSE DOMAIN row.variants
  BY DEF Entry
<1> HIDE DEF old
<1>3. /\ DOMAIN vals = IF row.type = "ROLLOUT" /\ row.rolloutValues = Null THEN {} ELSE DOMAIN old
      /\ \A g \in DOMAIN vals : vals[g] = IF old[g] = Null THEN DefaultValue ELSE old[g]
  BY DEF StoredValues, old
<1> HIDE DEF vals
<1>4. ValsTyped(row, vals)
  BY <1>1, <1>2, <1>3, ExperimentsAssumption DEF ValsTyped, RowTyped
<1>5. QED BY <1>4 DEF vals

LEMMA ShowAssignStep ==
  ASSUME DeskInvariant, NEW t \in Tabs, NEW env \in Envs, ShowAssign(t, env)
  PROVE  DeskInvariant'
<1> DEFINE modal == Dialog("assign", env, Null, [g \in {} |-> DefaultValue])
<1>1. /\ tabs[t] # Null /\ tabs[t].page.at = "flag" /\ Gesture(t)
      /\ UNCHANGED <<table, net>> /\ tabs' = [tabs EXCEPT ![t].modal = modal]
  BY DEF ShowAssign, At
<1>2. DialogTyped(modal, rows, ids)
  BY DEF DialogTyped, Dialog, DeskInvariant, RowsKnown
<1> HIDE DEF modal
<1>3. QED BY <1>1, <1>2, DialogStep

LEMMA ShowValuesStep ==
  ASSUME DeskInvariant, NEW t \in Tabs, NEW env \in Envs, NEW item \in Items,
         ShowValues(t, env, item)
  PROVE  DeskInvariant'
<1> DEFINE vals == StoredValues(rows[item], env, tabs[t].page.flag)
           modal == Dialog("values", env, item, vals)
<1>1. /\ tabs[t] # Null /\ tabs[t].page.at = "flag" /\ Gesture(t) /\ rows[item] # Null
      /\ UNCHANGED <<table, net>> /\ tabs' = [tabs EXCEPT ![t].modal = modal]
  BY DEF ShowValues, At
<1>2. KnownRows(rows, rows, ids) /\ RowTyped(rows[item])
  BY <1>1 DEF DeskInvariant, RowsKnown, KnownRows, KnownRow
<1>3. ValsTyped(rows[item], vals)
  BY <1>2, StoredValuesTyped
<1> HIDE DEF vals
<1>4. DialogTyped(modal, rows, ids)
  BY <1>1, <1>2, <1>3, ScenariosAssumption DEF DialogTyped, Dialog
<1> HIDE DEF modal
<1>5. QED BY <1>1, <1>4, DialogStep

LEMMA SelectStep ==
  ASSUME DeskInvariant, NEW t \in Tabs, NEW item \in Items, Select(t, item)
  PROVE  DeskInvariant'
<1> DEFINE old == tabs[t].modal
           row == old.copy[item]
           vals == [g \in IF row.type = "TEST" THEN DOMAIN row.variants
                          ELSE {"rollout"} |-> DefaultValue]
           modal == [[old EXCEPT !.item = item] EXCEPT !.vals = vals]
<1>1. /\ tabs[t] # Null /\ tabs[t].page.at = "flag" /\ Gesture(t) /\ old # Null /\ row # Null
      /\ UNCHANGED <<table, net>>
      /\ tabs' = [tabs EXCEPT ![t].modal.item = item, ![t].modal.vals = vals]
  BY DEF Select, Modal, At
<1>2. TabTyped(tabs[t], rows, ids) /\ DOMAIN tabs = Tabs /\ DOMAIN tabs[t] = TabFields
  BY <1>1 DEF DeskInvariant, TabsTyped, TabTyped
<1>3. DialogTyped(old, rows, ids)
  BY <1>1, <1>2 DEF TabTyped
<1>4. ValsTyped(row, vals)
  BY ExperimentsAssumption DEF ValsTyped
<1> HIDE DEF vals
<1>5. /\ DOMAIN modal = {"at", "env", "item", "copy", "vals"} /\ modal.at = old.at
      /\ modal.env = old.env /\ modal.item = item /\ modal.copy = old.copy /\ modal.vals = vals
  BY <1>3 DEF DialogTyped
<1>6. tabs' = [tabs EXCEPT ![t].modal = modal]
  BY <1>1, <1>2, <1>3 DEF TabFields, DialogTyped
<1> HIDE DEF modal
<1>7. DialogTyped(modal, rows, ids)
  BY <1>1, <1>3, <1>4, <1>5, ScenariosAssumption DEF DialogTyped
<1>8. QED BY <1>1, <1>6, <1>7, DialogStep

LEMMA SetValueStep ==
  ASSUME DeskInvariant, NEW t \in Tabs, tabs[t] # Null, tabs[t].modal # Null,
         NEW group \in DOMAIN tabs[t].modal.vals, NEW value \in FlagValues,
         SetValue(t, group, value)
  PROVE  DeskInvariant'
<1> DEFINE old == tabs[t].modal
           vals == [old.vals EXCEPT ![group] = value]
           modal == [old EXCEPT !.vals = vals]
<1>1. /\ Gesture(t) /\ UNCHANGED <<table, net>>
      /\ tabs' = [tabs EXCEPT ![t].modal.vals[group] = value]
  BY DEF SetValue
<1>2. TabTyped(tabs[t], rows, ids) /\ DOMAIN tabs = Tabs /\ DOMAIN tabs[t] = TabFields
  BY DEF DeskInvariant, TabsTyped, TabTyped
<1>3. DialogTyped(old, rows, ids) /\ tabs[t].page.at = "flag"
  BY <1>2 DEF TabTyped
<1>4. old.item # Null => ValsTyped(old.copy[old.item], vals)
  BY <1>3 DEF DialogTyped, ValsTyped
<1> HIDE DEF vals
<1>5. /\ DOMAIN modal = {"at", "env", "item", "copy", "vals"} /\ modal.at = old.at
      /\ modal.env = old.env /\ modal.item = old.item /\ modal.copy = old.copy
      /\ modal.vals = vals
  BY <1>3 DEF DialogTyped
<1>6. tabs' = [tabs EXCEPT ![t].modal = modal]
  BY <1>1, <1>2, <1>3 DEF TabFields, DialogTyped, vals
<1> HIDE DEF modal
<1>7. DialogTyped(modal, rows, ids)
  BY <1>3, <1>4, <1>5 DEF DialogTyped
<1>8. QED BY <1>1, <1>3, <1>6, <1>7, DialogStep

LEMMA CancelStep ==
  ASSUME DeskInvariant, NEW t \in Tabs, Cancel(t)
  PROVE  DeskInvariant'
<1>1. PICK modal : modal = Null
  OBVIOUS
<1>2. /\ tabs[t] # Null /\ UNCHANGED <<table, net, desk>>
      /\ tabs' = [tabs EXCEPT ![t].modal = modal]
  BY <1>1 DEF Cancel
<1>3. QED BY <1>1, <1>2, DialogStep

\* Either dialog sends what it makes of the copy it works on.
LEMMA SaveEntryStep ==
  ASSUME DeskInvariant, NEW t \in Tabs, tabs[t] # Null, tabs[t].page.at = "flag",
         Gesture(t), tabs[t].modal # Null, tabs[t].modal.item # Null, NEW body,
         LET row == tabs[t].modal.copy[tabs[t].modal.item]
             part == WithEntry(row, tabs[t].modal.env, tabs[t].page.flag, tabs[t].modal.vals)
         IN  \/ tabs[t].modal.at = "values" /\ body = part
             \/ /\ tabs[t].modal.at = "assign"
                /\ body = Over(part, [flagIds |-> row.flagIds \cup {tabs[t].page.flag}]),
         SaveEntry(t, body)
  PROVE  DeskInvariant'
<1> DEFINE modal == tabs[t].modal
           item == modal.item
           row == modal.copy[item]
           env == modal.env
           flag == tabs[t].page.flag
           plain == Request(t, "assign", item, body)
           q == [plain EXCEPT !.at = modal.at, !.copy = row, !.entry = <<env, flag>>,
                            !.shown = modal.vals]
<1>1. /\ UNCHANGED table /\ net' = net \cup {q}
      /\ tabs' = [tabs EXCEPT ![t].saving = @ \cup {modal.at}]
  BY DEF SaveEntry, Send
<1>2. OpensStay
  BY DeskSpent DEF DeskInvariant
<1>3. TabTyped(tabs[t], rows, ids)
  BY DEF DeskInvariant, TabsTyped
<1>4. DialogTyped(modal, rows, ids) /\ flag \in Flags
  BY <1>3 DEF TabTyped, PageTyped
<1>5. /\ item \in Items /\ env \in Envs /\ row # Null /\ ValsTyped(row, modal.vals)
      /\ KnownRow(item, row, rows, ids) /\ RowTyped(row) /\ modal.at \in {"assign", "values"}
  BY <1>4 DEF DialogTyped, KnownRows, KnownRow
<1>6. /\ DOMAIN body \subseteq {"variants", "rolloutValues", "flagIds"}
      /\ BodyTyped(row.type, body)
      /\ TouchesOne(row, Over(row, body), modal.at, <<env, flag>>, modal.vals)
  <2> DEFINE vals == modal.vals
             at == modal.at
  <2>1. \/ at = "values" /\ body = WithEntry(row, env, flag, vals)
        \/ /\ at = "assign"
           /\ body = Over(WithEntry(row, env, flag, vals), [flagIds |-> row.flagIds \cup {flag}])
    OBVIOUS
  <2>2. RowTyped(row) /\ ValsTyped(row, vals) /\ env \in Envs /\ flag \in Flags
    BY <1>4, <1>5
  <2> HIDE DEF row, vals, env, flag, at
  <2>3. /\ DOMAIN body \subseteq {"variants", "rolloutValues", "flagIds"}
        /\ BodyTyped(row.type, body)
        /\ TouchesOne(row, Over(row, body), at, <<env, flag>>, vals)
    BY <2>1, <2>2, EntrySent
  <2>4. QED BY <2>3 DEF at, vals
<1>7. /\ DOMAIN plain = RequestFields
      /\ plain.tab = t /\ plain.n = tabs[t].n
      /\ plain.op = "assign" /\ plain.item = item /\ plain.body = body /\ plain.status = "sent"
  BY RequestIs
<1> HIDE DEF plain, item, row, env, flag
<1>8. /\ DOMAIN q = RequestFields
      /\ q.tab = t /\ q.n = tabs[t].n /\ q.at = modal.at /\ q.copy = row /\ q.entry = <<env, flag>>
      /\ q.shown = modal.vals
      /\ q.op = "assign" /\ q.item = item /\ q.body = body /\ q.status = "sent"
  BY <1>7 DEF RequestFields
<1> HIDE DEF q, modal
<1>9. Carries(q)
  BY <1>5, <1>6, <1>8 DEF Carries
<1>10. Sendable(q, t)
  BY <1>5, <1>8, <1>9 DEF Sendable, Operations
<1>11. PICK waiting : tabs' = [tabs EXCEPT ![t].saving = waiting]
  BY <1>1
<1>12. QED BY <1>1, <1>2, <1>10, <1>11, WaitingTyped, SentTabStep

LEMMA AddStep ==
  ASSUME DeskInvariant, NEW t \in Tabs, Add(t)
  PROVE  DeskInvariant'
<1> DEFINE row == tabs[t].modal.copy[tabs[t].modal.item]
           part == WithEntry(row, tabs[t].modal.env, tabs[t].page.flag, tabs[t].modal.vals)
           body == Over(part, [flagIds |-> row.flagIds \cup {tabs[t].page.flag}])
<1>1. /\ tabs[t] # Null /\ tabs[t].page.at = "flag" /\ Gesture(t)
      /\ tabs[t].modal # Null /\ tabs[t].modal.at = "assign" /\ tabs[t].modal.item # Null
      /\ SaveEntry(t, body)
  BY DEF Add, Modal, At
<1>2. PICK sent : sent = body /\ SaveEntry(t, sent)
  BY <1>1
<1>3. QED BY <1>1, <1>2, SaveEntryStep

LEMMA SaveChangesStep ==
  ASSUME DeskInvariant, NEW t \in Tabs, SaveChanges(t)
  PROVE  DeskInvariant'
<1> DEFINE row == tabs[t].modal.copy[tabs[t].modal.item]
           body == WithEntry(row, tabs[t].modal.env, tabs[t].page.flag, tabs[t].modal.vals)
<1>1. /\ tabs[t] # Null /\ tabs[t].page.at = "flag" /\ Gesture(t)
      /\ tabs[t].modal # Null /\ tabs[t].modal.at = "values" /\ SaveEntry(t, body)
  BY DEF SaveChanges, Modal, At
<1>2. tabs[t].modal.item # Null
  BY <1>1 DEF DeskInvariant, TabsTyped, TabTyped, DialogTyped
<1>3. PICK sent : sent = body /\ SaveEntry(t, sent)
  BY <1>1
<1>4. QED BY <1>1, <1>2, <1>3, SaveEntryStep

-----------------------------------------------------------------------------
(* Answers.                                                                 *)

\* An answer removes its request, and may have the page load its rows anew.
LEMMA AnswerStep ==
  ASSUME DeskInvariant, NEW q \in net, UNCHANGED <<table, desk>>,
         DOMAIN tabs' = Tabs, \A u \in Tabs \ {q.tab} : tabs'[u] = tabs[u],
         \/ tabs'[q.tab] = Null
         \/ /\ tabs[q.tab] # Null /\ TabTyped(tabs'[q.tab], rows, ids)
            /\ tabs'[q.tab].page = tabs[q.tab].page /\ tabs'[q.tab].n = tabs[q.tab].n,
         \/ net' \subseteq net
         \/ /\ net' \subseteq net \cup {Reload(q)} /\ tabs[q.tab] # Null
            /\ TabTyped(tabs'[q.tab], rows, ids)
            /\ tabs'[q.tab].page = tabs[q.tab].page /\ tabs'[q.tab].n = tabs[q.tab].n
            /\ tabs[q.tab].page.at \in {"list", "flag"}
  PROVE  DeskInvariant'
<1>1. q.tab \in Tabs
  BY DEF DeskInvariant, RequestsSound, Addressed
<1>2. OpensStay
  BY <1>1, DeskSpent DEF DeskInvariant
<1>3. CASE net' \subseteq net
  BY <1>1, <1>2, <1>3, QuietTabStep
<1>4. CASE /\ net' \subseteq net \cup {Reload(q)} /\ tabs[q.tab] # Null
           /\ TabTyped(tabs'[q.tab], rows, ids)
           /\ tabs'[q.tab].page = tabs[q.tab].page /\ tabs'[q.tab].n = tabs[q.tab].n
           /\ tabs[q.tab].page.at \in {"list", "flag"}
  <2> DEFINE load == Reload(q)
  <2>1. tabs[q.tab] # Null
    BY <1>4
  <2>2. /\ DOMAIN load = RequestFields
        /\ load.tab = q.tab /\ load.n = tabs[q.tab].n /\ load.at = tabs[q.tab].page.at
        /\ load.op = "load" /\ load.status = "sent"
    BY <2>1, RequestIs DEF Reload, RequestFields
  <2> HIDE DEF load
  <2>3. Sendable(load, q.tab)
    BY <1>4, <2>1, <2>2 DEF Sendable, Carries, Operations
  <2>4. net' \subseteq net \cup {load}
    BY <1>4 DEF load
  <2>5. QED BY <1>1, <1>2, <1>4, <2>1, <2>3, <2>4, SentTabStep
<1>5. QED BY <1>3, <1>4

\* A page that is still there, as it was when its request was sent.
LEMMA StillThere ==
  ASSUME DeskInvariant, NEW q \in net
  PROVE  /\ q.tab \in Tabs /\ Addressed(q) /\ Answered(q) /\ DOMAIN tabs = Tabs
         /\ tabs[q.tab] # Null =>
              TabTyped(tabs[q.tab], rows, ids) /\ DOMAIN tabs[q.tab] = TabFields
         /\ There(q) => /\ tabs[q.tab] # Null
                        /\ q.at \in {"assign", "values"} => tabs[q.tab].page.at = "flag"
                        /\ q.at \in {"list", "flag"} => tabs[q.tab].page.at = q.at
<1>1. q.tab \in Tabs /\ Addressed(q) /\ Answered(q) /\ DOMAIN tabs = Tabs
  BY DEF DeskInvariant, RequestsSound, Addressed, TabsTyped
<1>2. tabs[q.tab] # Null => TabTyped(tabs[q.tab], rows, ids) /\ DOMAIN tabs[q.tab] = TabFields
  BY <1>1 DEF DeskInvariant, TabsTyped, TabTyped
<1>3. tabs[q.tab] # Null => tabs[q.tab].page.at \in {"new", "edit", "list", "flag"}
  BY <1>2 DEF TabTyped, PageTyped
<1>4. There(q) => /\ tabs[q.tab] # Null
                  /\ q.at \in {"assign", "values"} => tabs[q.tab].page.at = "flag"
                  /\ q.at \in {"list", "flag"} => tabs[q.tab].page.at = q.at
  BY <1>1, <1>3 DEF Addressed, There
<1>5. QED BY <1>1, <1>2, <1>4

LEMMA AnswersStep ==
  ASSUME DeskInvariant, NEW q \in net, Answer(q)
  PROVE  DeskInvariant'
<1> DEFINE t == q.tab
<1>1. /\ t \in Tabs /\ Addressed(q) /\ Answered(q) /\ DOMAIN tabs = Tabs
      /\ tabs[t] # Null => TabTyped(tabs[t], rows, ids) /\ DOMAIN tabs[t] = TabFields
      /\ There(q) => /\ tabs[t] # Null
                     /\ q.at \in {"assign", "values"} => tabs[t].page.at = "flag"
                     /\ q.at \in {"list", "flag"} => tabs[t].page.at = q.at
  BY StillThere
<1>2. q.status \in {"applied", "failed"} /\ UNCHANGED <<table, desk>>
  BY <1>1 DEF Answer, Addressed
<1>3. CASE tabs' = tabs /\ net' = net \ {q}
  BY <1>1, <1>2, <1>3, AnswerStep
<1>4. CASE AnswerForm(q)
  <2>1. net' = net \ {q}
    BY <1>4 DEF AnswerForm
  <2>2. CASE tabs' = [tabs EXCEPT ![t] = Null]
    BY <1>1, <1>2, <2>1, <2>2, AnswerStep
  <2>3. CASE There(q) /\ tabs' = [tabs EXCEPT ![t].saving = {}]
    <3>1. tabs[t] # Null
      BY <1>1, <2>3
    <3>2. /\ DOMAIN tabs' = Tabs /\ \A u \in Tabs \ {t} : tabs'[u] = tabs[u]
          /\ TabTyped(tabs'[t], rows, ids)
          /\ tabs'[t].page = tabs[t].page /\ tabs'[t].n = tabs[t].n
      BY <1>1, <2>3, <3>1, WaitingTyped
    <3>3. QED BY <1>2, <2>1, <3>1, <3>2, AnswerStep
  <2>4. QED BY <1>3, <1>4, <2>1, <2>2, <2>3 DEF AnswerForm
<1>5. CASE AnswerSlider(q)
  <2>1. net' = net \ {q} /\ q.op = "percentage" /\ q.item \in Items /\ q.at = "list"
    BY <1>1, <1>5 DEF AnswerSlider, Addressed
  <2>2. CASE There(q)
    <3> DEFINE row == IF q.status = "applied" THEN q.reply ELSE tabs[t].copy[q.item]
    <3>1. /\ tabs[t] # Null /\ TabTyped(tabs[t], rows, ids) /\ DOMAIN tabs[t] = TabFields
          /\ tabs[t].page.at = "list"
      BY <1>1, <2>1, <2>2
    <3>2. DOMAIN tabs[t].copy = Items /\ KnownRows(tabs[t].copy, rows, ids)
      BY <3>1 DEF TabTyped, KnownRows
    <3>3. KnownRow(q.item, row, rows, ids)
      BY <1>1, <1>2, <2>1, <3>2 DEF Answered, KnownRows
    <3>4. tabs' = [tabs EXCEPT ![t].updating = @ \ {q.item}, ![t].copy[q.item] = row]
      BY <1>1, <1>5, <2>2, <3>1, <3>2 DEF AnswerSlider, TabFields
    <3> HIDE DEF row
    <3>5. /\ DOMAIN tabs' = Tabs /\ \A u \in Tabs \ {t} : tabs'[u] = tabs[u]
          /\ DOMAIN tabs'[t] = DOMAIN tabs[t] /\ tabs'[t].page = tabs[t].page
          /\ tabs'[t].n = tabs[t].n /\ tabs'[t].modal = tabs[t].modal /\ tabs'[t].form = tabs[t].form
          /\ tabs'[t].copy = [tabs[t].copy EXCEPT ![q.item] = row]
      BY <1>1, <3>1, <3>4 DEF TabFields
    <3>6. KnownRows(tabs'[t].copy, rows, ids)
      BY <2>1, <3>2, <3>3, <3>5 DEF KnownRows
    <3>7. TabTyped(tabs'[t], rows, ids)
      BY <3>1, <3>5, <3>6, CopyChanges
    <3>8. QED BY <1>2, <2>1, <3>1, <3>5, <3>7, AnswerStep
  <2>3. CASE ~There(q)
    BY <1>3, <1>5, <2>1, <2>3 DEF AnswerSlider
  <2>4. QED BY <2>2, <2>3
<1>6. CASE AnswerMenu(q)
  <2>1. q.at = "list" /\ q.op \in {"archive", "delete"} /\ q.item \in Items
    BY <1>1, <1>6 DEF AnswerMenu, Addressed
  <2>2. CASE q.status = "failed" \/ ~There(q)
    BY <1>3, <1>6, <2>2 DEF AnswerMenu
  <2>3. CASE q.status = "applied" /\ There(q)
    <3>1. /\ tabs[t] # Null /\ TabTyped(tabs[t], rows, ids) /\ DOMAIN tabs[t] = TabFields
          /\ tabs[t].page.at = "list"
      BY <1>1, <2>1, <2>3
    <3>2. CASE q.type = "ROLLOUT"
      <4>1. net' = net \ {q} /\ tabs' = [tabs EXCEPT ![t].copy[q.item] = q.reply]
        BY <1>6, <2>3, <3>2 DEF AnswerMenu
      <4>2. /\ DOMAIN tabs' = Tabs /\ \A u \in Tabs \ {t} : tabs'[u] = tabs[u]
            /\ DOMAIN tabs'[t] = DOMAIN tabs[t] /\ tabs'[t].page = tabs[t].page
            /\ tabs'[t].n = tabs[t].n /\ tabs'[t].modal = tabs[t].modal /\ tabs'[t].form = tabs[t].form
            /\ tabs'[t].copy = [tabs[t].copy EXCEPT ![q.item] = q.reply]
        BY <1>1, <3>1, <4>1 DEF TabFields
      <4>3. KnownRow(q.item, q.reply, rows, ids) /\ KnownRows(tabs[t].copy, rows, ids)
        BY <1>1, <1>2, <2>1, <2>3, <3>1 DEF Answered, TabTyped
      <4>4. KnownRows(tabs'[t].copy, rows, ids)
        BY <2>1, <4>2, <4>3 DEF KnownRows
      <4>5. TabTyped(tabs'[t], rows, ids)
        BY <3>1, <4>2, <4>4, CopyChanges
      <4>6. QED BY <1>2, <3>1, <4>1, <4>2, <4>5, AnswerStep
    <3>3. CASE q.type # "ROLLOUT"
      <4>1. net' = (net \ {q}) \cup {Reload(q)} /\ tabs' = tabs
        BY <1>6, <2>3, <3>3 DEF AnswerMenu
      <4>2. QED BY <1>1, <1>2, <3>1, <4>1, AnswerStep
    <3>4. QED BY <3>2, <3>3
  <2>4. QED BY <1>2, <2>2, <2>3
<1>7. CASE AnswerDialog(q)
  <2>1. q.at \in {"assign", "values"}
    BY <1>7 DEF AnswerDialog
  <2>2. CASE ~There(q)
    BY <1>3, <1>7, <2>2 DEF AnswerDialog
  <2>3. CASE There(q)
    <3>1. /\ tabs[t] # Null /\ TabTyped(tabs[t], rows, ids) /\ DOMAIN tabs[t] = TabFields
          /\ tabs[t].page.at = "flag"
      BY <1>1, <2>1, <2>3
    <3> DEFINE modal == IF q.status = "applied" /\ tabs[t].modal # Null /\ tabs[t].modal.at = q.at
                        THEN Null ELSE tabs[t].modal
    <3>2. tabs' = [tabs EXCEPT ![t].saving = @ \ {q.at}, ![t].modal = modal]
      BY <1>1, <1>7, <2>3, <3>1 DEF AnswerDialog, TabFields
    <3>3. /\ DOMAIN tabs' = Tabs /\ \A u \in Tabs \ {t} : tabs'[u] = tabs[u]
          /\ DOMAIN tabs'[t] = TabFields /\ tabs'[t].page = tabs[t].page
          /\ tabs'[t].n = tabs[t].n /\ tabs'[t].copy = tabs[t].copy /\ tabs'[t].modal = modal
          /\ tabs'[t].form = tabs[t].form
      BY <1>1, <3>1, <3>2 DEF TabFields
    <3>4. TabTyped(tabs'[t], rows, ids)
      BY <3>1, <3>3 DEF TabTyped
    <3>5. net' \subseteq net \cup {Reload(q)}
      BY <1>7 DEF AnswerDialog
    <3>6. QED BY <1>2, <3>1, <3>3, <3>4, <3>5, AnswerStep
  <2>4. QED BY <2>2, <2>3
<1>8. CASE AnswerLoad(q)
  <2>1. net' = net \ {q} /\ q.op = "load" /\ q.at \in {"list", "flag"}
    BY <1>1, <1>8 DEF AnswerLoad, Addressed
  <2>2. CASE q.status = "failed" \/ ~There(q)
    BY <1>3, <1>8, <2>1, <2>2 DEF AnswerLoad
  <2>3. CASE q.status = "applied" /\ There(q)
    <3>1. /\ tabs[t] # Null /\ TabTyped(tabs[t], rows, ids) /\ DOMAIN tabs[t] = TabFields
          /\ tabs[t].page.at \in {"list", "flag"}
      BY <1>1, <2>1, <2>3
    <3>2. tabs' = [tabs EXCEPT ![t].copy = q.reply]
      BY <1>8, <2>3 DEF AnswerLoad
    <3>3. /\ DOMAIN tabs' = Tabs /\ \A u \in Tabs \ {t} : tabs'[u] = tabs[u]
          /\ DOMAIN tabs'[t] = DOMAIN tabs[t] /\ tabs'[t].page = tabs[t].page
          /\ tabs'[t].n = tabs[t].n /\ tabs'[t].modal = tabs[t].modal /\ tabs'[t].form = tabs[t].form
          /\ tabs'[t].copy = q.reply
      BY <1>1, <3>1, <3>2 DEF TabFields
    <3>4. KnownRows(tabs'[t].copy, rows, ids)
      BY <1>1, <1>2, <2>1, <2>3, <3>3 DEF Answered
    <3>5. TabTyped(tabs'[t], rows, ids)
      BY <3>1, <3>3, <3>4, CopyChanges
    <3>6. QED BY <1>2, <2>1, <3>1, <3>3, <3>5, AnswerStep
  <2>4. QED BY <1>2, <2>2, <2>3
<1>9. QED BY <1>4, <1>5, <1>6, <1>7, <1>8 DEF Answer

-----------------------------------------------------------------------------
(* The theorems.                                                            *)

LEMMA InitSound ==
  Init => DeskInvariant
<1> SUFFICES ASSUME Init PROVE DeskInvariant
  OBVIOUS
<1>1. PICK scenario \in Scenarios : rows = scenario.rows /\ desk = scenario.desk
  BY DEF Init
<1>2. ids = {item \in Items : rows[item] # Null} /\ tabs = [t \in Tabs |-> Null] /\ net = {}
  BY DEF Init
<1>3. RowsKnown
  BY <1>1, <1>2, ScenariosAssumption DEF RowsKnown, KnownRows, KnownRow
<1>4. DeskTyped
  BY <1>1, ScenariosAssumption DEF DeskTyped
<1>5. TabsTyped
  BY <1>2 DEF TabsTyped
<1>6. RequestsSound
  BY <1>2 DEF RequestsSound, IdsApart
<1>7. QED BY <1>3, <1>4, <1>5, <1>6 DEF DeskInvariant

LEMMA StutterStep ==
  ASSUME DeskInvariant, UNCHANGED vars
  PROVE  DeskInvariant'
<1>1. RowsGrow /\ UNCHANGED <<tabs, desk, net, rows, ids>>
  BY SameRowsGrow DEF vars, table
<1>2. RowsKnown' /\ DeskTyped' /\ TabsTyped'
  BY <1>1 DEF DeskInvariant, RowsKnown, DeskTyped, TabsTyped
<1>3. \A q : Addressed(q) /\ Carries(q) /\ Answered(q) =>
               (Addressed(q) /\ Carries(q) /\ Answered(q))'
  BY <1>1 DEF Addressed, There, Carries, Answered
<1>4. RequestsSound'
  BY <1>1, <1>3 DEF DeskInvariant, RequestsSound, IdsApart
<1>5. QED BY <1>2, <1>4 DEF DeskInvariant

LEMMA StepSound ==
  DeskInvariant /\ [Next]_vars => DeskInvariant'
<1> SUFFICES ASSUME DeskInvariant, [Next]_vars PROVE DeskInvariant'
  OBVIOUS
<1>1. ASSUME NEW t \in Tabs, NEW page \in desk[t].pages, Open(t, page)
      PROVE  DeskInvariant'
  BY <1>1, OpenStep
<1>2. ASSUME NEW t \in Tabs, Leave(t) \/ Type(t) \/ SubmitNew(t) \/ SubmitEdit(t)
      PROVE  DeskInvariant'
  BY <1>2, LeaveStep, TypeStep, SubmitNewStep, SubmitEditStep
<1>3. ASSUME NEW t \in Tabs,
             \/ CompleteEdit(t) \/ DeleteEdit(t)
             \/ \E item \in Items : \/ \E kind \in {"cancel", "complete"} : ArchiveListed(t, item, kind)
                                    \/ DeleteListed(t, item)
      PROVE  DeskInvariant'
  BY <1>3, ButtonsStep
<1>4. ASSUME NEW t \in Tabs, Cancel(t) \/ Add(t) \/ SaveChanges(t)
      PROVE  DeskInvariant'
  BY <1>4, CancelStep, AddStep, SaveChangesStep
<1>5. ASSUME NEW t \in Tabs, NEW item \in Items,
             Select(t, item) \/ \E n \in Numbers \cap 0 .. 100 : Drag(t, item, n)
      PROVE  DeskInvariant'
  BY <1>5, SelectStep, DragStep
<1>6. ASSUME NEW t \in Tabs, NEW env \in Envs,
             ShowAssign(t, env) \/ \E item \in Items : ShowValues(t, env, item)
      PROVE  DeskInvariant'
  BY <1>6, ShowAssignStep, ShowValuesStep
<1>7. ASSUME NEW t \in Tabs, tabs[t] # Null, tabs[t].modal # Null,
             \E group \in DOMAIN tabs[t].modal.vals, value \in FlagValues : SetValue(t, group, value)
      PROVE  DeskInvariant'
  BY <1>7, SetValueStep
<1>8. ASSUME NEW q \in net, Serve(q) \/ Lose(q) \/ Answer(q)
      PROVE  DeskInvariant'
  BY <1>8, ServeStep, LoseStep, AnswersStep
<1>9. CASE UNCHANGED vars
  BY <1>9, StutterStep
<1>10. QED BY <1>1, <1>2, <1>3, <1>4, <1>5, <1>6, <1>7, <1>8, <1>9 DEF Next

\* Every row, copy, dialog and request is what the handlers and dialogs take it to be:
\* rows keep their ids and types, and a request says what its page meant it to.
THEOREM DeskIsSound ==
  Spec => []DeskInvariant
<1>1. QED BY InitSound, StepSound, PTL DEF Spec

\* Only applying a request changes a row.
LEMMA RowsChange ==
  ASSUME [Next]_vars, rows' # rows
  PROVE  \E q \in net : Serve(q)
<1>1. ASSUME NEW t \in Tabs, NEW page, Open(t, page)
      PROVE  FALSE
  BY <1>1 DEF Open, table
<1>2. ASSUME NEW t \in Tabs, Leave(t) \/ Type(t) \/ Cancel(t)
      PROVE  FALSE
  BY <1>2 DEF Leave, Type, Cancel, table
<1>3. ASSUME NEW t \in Tabs,
             \/ SubmitNew(t) \/ SubmitEdit(t) \/ CompleteEdit(t) \/ DeleteEdit(t)
             \/ \E item, kind : ArchiveListed(t, item, kind)
             \/ \E item : DeleteListed(t, item)
             \/ \E item, n : Drag(t, item, n)
      PROVE  FALSE
  BY <1>3 DEF SubmitNew, SubmitEdit, CompleteEdit, DeleteEdit, ArchiveListed, DeleteListed,
              Drag, Send, table
<1>4. ASSUME NEW t \in Tabs, Add(t) \/ SaveChanges(t)
      PROVE  FALSE
  BY <1>4 DEF Add, SaveChanges, SaveEntry, Send, table
<1>5. ASSUME NEW t \in Tabs,
             \/ \E item : Select(t, item)
             \/ \E env : ShowAssign(t, env) \/ \E item : ShowValues(t, env, item)
             \/ \E group, value : SetValue(t, group, value)
      PROVE  FALSE
  BY <1>5 DEF Select, ShowAssign, ShowValues, SetValue, table
<1>6. ASSUME NEW q \in net, Lose(q) \/ Answer(q)
      PROVE  FALSE
  BY <1>6 DEF Lose, Answer, table
<1>7. CASE UNCHANGED vars
  BY <1>7 DEF vars, table
<1>8. QED BY <1>1, <1>2, <1>3, <1>4, <1>5, <1>6, <1>7 DEF Next

\* A row that is stored differently is the row of the request that was applied.
LEMMA RowChanges ==
  ASSUME DeskInvariant, NEW q \in net, Serve(q), NEW item, rows'[item] # rows[item]
  PROVE  /\ q.status = "sent" /\ q.op # "load" /\ ~Refuses(q) /\ q.item = item
         /\ q.item \in Items /\ rows'[item] = Handle(q) /\ Addressed(q) /\ Carries(q)
<1>1. q.op # "load" /\ ~Refuses(q) /\ rows' = [rows EXCEPT ![q.item] = Handle(q)]
      /\ q.status = "sent"
  BY DEF Serve, table
<1>2. Addressed(q) /\ Carries(q) /\ DOMAIN rows = Items
  BY DEF DeskInvariant, RequestsSound, RowsKnown, KnownRows
<1>3. q.item \in Items
  BY <1>1, <1>2 DEF Addressed
<1>4. QED BY <1>1, <1>2, <1>3

\* A dialog that worked on the row as it is stored writes the values it showed as those of its
\* flag in its environment, and assigns the flag if that is what it is for: the other flags
\* stay assigned, and their values, the other environments, the percentages and columns stay.
THEOREM FreshDialogsTouchOneEntry ==
  Spec => FreshAssignTouchesOneEntry
<1>1. ASSUME DeskInvariant, [Next]_vars,
             NEW q \in net, q.op = "assign", q.status = "sent", q \notin net', rows # rows',
             q.copy = rows[q.item]
      PROVE  TouchesOne(rows[q.item], rows'[q.item], q.at, q.entry, q.shown)
  <2>1. PICK p \in net : Serve(p)
    BY <1>1, RowsChange
  <2>2. p = q
    BY <1>1, <2>1 DEF Serve
  <2>3. Addressed(q) /\ Carries(q) /\ DOMAIN rows = Items /\ q.item \in Items
    BY <1>1 DEF DeskInvariant, RequestsSound, RowsKnown, KnownRows, Addressed
  <2>4. rows[q.item] # Null
    BY <1>1, <2>3 DEF Carries
  <2>5. Handle(q) = Over(rows[q.item], q.body)
    BY <1>1, <2>4 DEF Handle
  <2>6. rows' = [rows EXCEPT ![q.item] = Handle(q)]
    BY <1>1, <2>1, <2>2 DEF Serve, table
  <2>7. rows'[q.item] = Over(q.copy, q.body)
    BY <1>1, <2>3, <2>5, <2>6
  <2>8. QED BY <1>1, <2>3, <2>7 DEF Carries
<1>2. DeskInvariant /\ [Next]_vars =>
        \A q \in net :
          (q.op = "assign" /\ q.status = "sent" /\ q \notin net' /\ rows # rows'
             /\ q.copy = rows[q.item]) => TouchesOne(rows[q.item], rows'[q.item], q.at, q.entry, q.shown)
  BY <1>1
<1>3. QED BY <1>2, DeskIsSound, PTL DEF Spec, FreshAssignTouchesOneEntry, TouchesOne

\* Nothing but a form loaded before a test or rollout was archived brings it back: not
\* the slider, not a dialog, not archiving it again, and not the form of an archived one.
THEOREM OnlyStaleFormsUnarchive ==
  Spec => UnarchivedOnlyByStaleCopy
<1>1. ASSUME DeskInvariant, [Next]_vars, NEW item \in Items,
             rows[item] # Null, rows'[item] # Null, rows[item].archived, ~rows'[item].archived
      PROVE  \E q \in net : q.op = "save" /\ q.item = item /\ ~q.copy.archived
  <2>1. PICK q \in net : Serve(q)
    BY <1>1, RowsChange
  <2>2. /\ q.op # "load" /\ ~Refuses(q) /\ q.item = item /\ q.status = "sent"
        /\ rows'[item] = Handle(q) /\ Addressed(q) /\ Carries(q)
    BY <1>1, <2>1, RowChanges
  <2>3. RowTyped(rows[item]) /\ item \in ids
    BY <1>1 DEF DeskInvariant, RowsKnown, KnownRows, KnownRow
  <2>4. CASE q.op = "create"
    BY <1>1, <2>2, <2>3, <2>4 DEF DeskInvariant, RequestsSound, IdsApart
  <2>5. CASE q.op = "delete"
    BY <1>1, <2>2, <2>5 DEF Handle
  <2>6. CASE q.op = "archive"
    <3>1. rows'[item] = Archived(rows[item], q.body.kind)
      BY <1>1, <2>2, <2>6 DEF Handle
    <3>2. QED BY <1>1, <2>3, <3>1 DEF Archived, RowTyped, Columns
  <2>7. CASE q.op \in {"assign", "percentage"}
    <3>1. rows'[item] = Over(rows[item], q.body)
      BY <1>1, <2>2, <2>7 DEF Handle
    <3>2. "archived" \notin DOMAIN q.body
      BY <2>2, <2>7 DEF Carries
    <3>3. QED BY <1>1, <2>3, <3>1, <3>2 DEF Over, RowTyped, Columns
  <2>8. CASE q.op = "save"
    <3>1. rows'[item] = Over(rows[item], Reset(q.body))
      BY <1>1, <2>2, <2>8 DEF Handle
    <3>2. "archived" \in DOMAIN q.body /\ q.body.archived = q.copy.archived
      BY <2>2, <2>8 DEF Carries, SavesBack
    <3>3. rows'[item].archived = q.copy.archived
      BY <3>1, <3>2 DEF Over, Reset
    <3>4. QED BY <1>1, <2>2, <2>8, <3>3
  <2>9. QED BY <2>2, <2>4, <2>5, <2>6, <2>7, <2>8 DEF Addressed, Operations
<1>2. DeskInvariant /\ [Next]_vars =>
        \A item \in Items :
          rows[item] # Null /\ rows'[item] # Null /\ rows[item].archived /\ ~rows'[item].archived
            => \E q \in net : q.op = "save" /\ q.item = item /\ ~q.copy.archived
  BY <1>1
<1>3. QED BY <1>2, DeskIsSound, PTL DEF Spec, UnarchivedOnlyByStaleCopy

\* Groups that have names of their own keep their weights when they are merged by name.
LEMMA MergedKeepWeights ==
  ASSUME NEW groups \in Seq(Groups), NEW values,
         Cardinality({g.name : g \in Range(groups)}) = Len(groups),
         NEW g \in Range(groups)
  PROVE  MergeGroups(groups, values)[g.name].percentage = g.weight
<1> DEFINE names == {h.name : h \in Range(groups)}
           called == [i \in 1 .. Len(groups) |-> groups[i].name]
           same == {i \in DOMAIN groups : groups[i].name = g.name}
<1>1. DOMAIN groups = 1 .. Len(groups) /\ Len(groups) \in Nat
  OBVIOUS
<1>2. called \in Surjection(1 .. Len(groups), names)
  BY <1>1 DEF Surjection, Range
<1>3. IsFiniteSet(1 .. Len(groups)) /\ Cardinality(1 .. Len(groups)) = Len(groups)
  <2>1. 1 \in Int /\ Len(groups) \in Int
    BY <1>1
  <2>2. /\ IsFiniteSet(1 .. Len(groups))
        /\ Cardinality(1 .. Len(groups)) = IF 1 > Len(groups) THEN 0 ELSE Len(groups) - 1 + 1
    BY <2>1, FS_Interval, Zenon
  <2>3. QED BY <1>1, <2>2
<1>4. called \in Injection(1 .. Len(groups), names)
  BY <1>2, <1>3, FS_Surjection
<1>5. PICK i \in 1 .. Len(groups) : g = groups[i]
  BY <1>1 DEF Range
<1>6. same = {i}
  BY <1>1, <1>4, <1>5 DEF Injection, IsInjective
<1>7. Max(same) = i
  BY <1>1, <1>5, <1>6 DEF Max
<1>8. g.name \in names
  OBVIOUS
<1>9. MergeGroups(groups, values)[g.name].percentage = groups[Max(same)].weight
  BY <1>8 DEF MergeGroups
<1>10. QED BY <1>5, <1>7, <1>9

LEMMA PreviewStored ==
  ASSUME NEW q, Previewed(q), q.reply = Row(q.type, q.body)
  PROVE  LET names == {g.name : g \in Range(q.shown.groups)}
         IN  /\ q.reply.key = q.shown.key
             /\ q.reply.conditions = q.shown.audience
             /\ q.reply.percentage = q.shown.percentage
             /\ Cardinality(names) = Len(q.shown.groups) =>
                  \A g \in Range(q.shown.groups) : q.reply.variants[g.name].percentage = g.weight
<1>1. PICK form : /\ FormTyped(form) /\ q.type = form.type
                  /\ q.body = Payload(form) /\ q.shown = Preview(form)
  BY DEF Previewed
<1>2. CASE form.type = "TEST"
  <2>1. /\ q.body.key = KeyText(form) /\ q.body.conditions = Audience(form)
        /\ q.body.groups = EffGroups(form)
    BY <1>1, <1>2 DEF Payload, TestPayload
  <2>2. /\ q.shown.key = KeyText(form) /\ q.shown.audience = Audience(form)
        /\ q.shown.groups = EffGroups(form) /\ q.shown.percentage = Null
    BY <1>1, <1>2 DEF Preview, TestPreview
  <2>3. /\ q.reply.key = q.body.key /\ q.reply.conditions = q.body.conditions
        /\ q.reply.percentage = Null /\ q.reply.variants = MergeGroups(q.body.groups, NoValues)
    BY <1>1, <1>2 DEF Row
  <2>4. QED BY <1>1, <2>1, <2>2, <2>3, EffGroupsTyped, MergedKeepWeights
<1>3. CASE form.type = "ROLLOUT"
  <2>1. /\ q.body.key = KeyText(form) /\ q.body.conditions = form.conditions
        /\ q.body.percentage = form.percentage
    BY <1>1, <1>3 DEF Payload, RolloutPayload
  <2>2. /\ q.shown.key = KeyText(form) /\ q.shown.audience = form.conditions
        /\ q.shown.groups = <<>> /\ q.shown.percentage = form.percentage
    BY <1>1, <1>3 DEF Preview, RolloutPreview
  <2>3. /\ q.reply.key = q.body.key /\ q.reply.conditions = q.body.conditions
        /\ q.reply.percentage = q.body.percentage
    BY <1>1, <1>3 DEF Row
  <2>4. Range(q.shown.groups) = {}
    BY <2>2 DEF Range
  <2>5. QED BY <2>1, <2>2, <2>3, <2>4
<1>4. QED BY <1>1, <1>2, <1>3 DEF FormTyped

\* A new test or rollout is stored as the preview beside its form showed it when it was
\* submitted, whatever was typed before and whatever happens to the page afterwards.
THEOREM PreviewsAreStored ==
  Spec => []StoredIsPreviewed
<1>1. ASSUME DeskInvariant PROVE StoredIsPreviewed
  <2>1. SUFFICES ASSUME NEW q \in net, q.op = "create", q.status = "applied"
                 PROVE  Previewed(q) /\ q.reply = Row(q.type, q.body)
    BY PreviewStored DEF StoredIsPreviewed
  <2>2. QED BY <1>1, <2>1 DEF DeskInvariant, RequestsSound, Carries, Answered
<1>2. QED BY <1>1, DeskIsSound, PTL

-----------------------------------------------------------------------------
(* Quiet lists: what holds while nothing is lost and nobody leaves early.    *)

OnRollouts(t) == At(t, "list") /\ tabs[t].page.type = "ROLLOUT"

\* Requests of pages that are still open: sliders, and menus of rollouts, are on the list
\* of rollouts, and a slider that was released is out of reach until it hears.
Placed ==
  \A q \in net : There(q) =>
    /\ q.op = "percentage" => OnRollouts(q.tab) /\ q.item \in tabs[q.tab].updating
    /\ OnRollouts(q.tab) => q.op \in {"percentage", "archive"} /\ q.type = "ROLLOUT"
    /\ q.op = "save" => At(q.tab, "edit")

OneRelease ==
  \A p, q \in net :
    /\ p.op = "percentage" /\ There(p)
    /\ q.op = "percentage" /\ There(q)
    /\ p.tab = q.tab /\ p.item = q.item
    => p = q

Turns == served \in Nat /\ \A q \in net : q.turn \in Nat /\ q.turn <= served

LastKnown == DOMAIN last = Items /\ \A item \in Items : last[item] # Null => item \in ids

\* A tab that visits no page of interest has none open, and sends nothing.
IdleTabs ==
  \A t \in Tabs : desk[t].pages = {} => tabs[t] = Null /\ \A q \in net : q.tab # t

InPlace == Placed /\ OneRelease /\ Turns /\ LastKnown /\ IdleTabs

\* No page was left before its requests were applied, and no answer overtook another.
Calm == ~crossed /\ \A q \in net : q.status = "sent" => There(q)

Releasing(item) ==
  \E q \in net : q.status = "sent" /\ q.op = "percentage" /\ q.item = item

\* Where a slider was released is what is stored, or is on its way there.
SlidersKept ==
  \A item \in Items : last[item] # Null =>
    /\ \A q \in net : q.status = "sent" /\ q.item = item =>
         /\ q.op # "save"
         /\ q.op = "percentage" => q.body.percentage = last[item]
    /\ ~Releasing(item) /\ rows[item] # Null /\ ~rows[item].archived =>
         rows[item].percentage = last[item]

Unheard(t, item) ==
  {q \in net : q.status = "applied" /\ q.tab = t /\ q.item = item /\ There(q)}

\* The list shows a row as it is stored, or will once it has heard of what it changed.
RowShown(t, item) ==
  /\ Unheard(t, item) = {} /\ (rows[item] = Null \/ ~Releasing(item)) =>
       tabs[t].copy[item] = rows[item]
  /\ \A q \in Unheard(t, item) :
       (\A p \in Unheard(t, item) : p.turn <= q.turn) => q.reply = rows[item]

ListShown(t) == OnRollouts(t) => \A item \in Items : RowShown(t, item)

QuietInvariant ==
  /\ InPlace
  /\ \A t \in Tabs : Alone(t) /\ Calm => SlidersKept /\ ListShown(t)

-----------------------------------------------------------------------------

\* What a page may do between two answers: it stays what it is, or is left, and sends
\* anything but what a slider sends; a form that is submitted takes over from the slider.
Ordinary(q, t) ==
  /\ q.status = "sent" /\ q.tab = t /\ q.n = tabs[t].n /\ q.turn = 0
  /\ q.op # "percentage"
  /\ OnRollouts(t) => q.op = "archive" /\ q.type = "ROLLOUT"
  /\ q.op = "save" => At(t, "edit") /\ last'[q.item] = Null

PagesKept == \A t \in Tabs : desk'[t].pages = desk[t].pages

PageKept(t) ==
  tabs'[t] # Null =>
    /\ tabs[t] # Null /\ tabs'[t].page = tabs[t].page /\ tabs'[t].n = tabs[t].n
    /\ tabs'[t].updating = tabs[t].updating
    /\ OnRollouts(t) => tabs'[t].copy = tabs[t].copy

PageStep(t, sent) ==
  /\ UNCHANGED <<rows, ids, served>> /\ (crossed => crossed') /\ PagesKept
  /\ \A u \in Tabs \ {t} : tabs'[u] = tabs[u]
  /\ PageKept(t) /\ (sent # {} => tabs[t] # Null)
  /\ net' \subseteq net \cup sent
  /\ \A q \in net \ net' :
       /\ q.tab = t /\ q.status # "sent"
       /\ tabs'[t] # Null /\ OnRollouts(t) => ~There(q)
  /\ \A q \in sent : Ordinary(q, t)
  /\ DOMAIN last' = DOMAIN last /\ \A item \in Items : last'[item] \in {last[item], Null}

LEMMA PageStepThere ==
  ASSUME DeskInvariant, NEW t \in Tabs, NEW sent, PageStep(t, sent)
  PROVE  /\ \A q : q.tab \in Tabs /\ There(q)' =>
              /\ There(q) /\ tabs'[q.tab] # Null
              /\ tabs'[q.tab].page = tabs[q.tab].page
              /\ tabs'[q.tab].updating = tabs[q.tab].updating
         /\ \A u \in Tabs : tabs'[u] # Null => (OnRollouts(u)' <=> OnRollouts(u))
         /\ \A u \in Tabs : OnRollouts(u)' => tabs'[u].copy = tabs[u].copy
         /\ \A q \in net' : q.tab \in Tabs
<1>1. \A u \in Tabs : tabs'[u] # Null =>
        /\ tabs[u] # Null /\ tabs'[u].page = tabs[u].page /\ tabs'[u].n = tabs[u].n
        /\ tabs'[u].updating = tabs[u].updating
        /\ OnRollouts(u) => tabs'[u].copy = tabs[u].copy
  BY DEF PageStep, PageKept
<1>2. \A u \in Tabs : tabs'[u] # Null => (OnRollouts(u)' <=> OnRollouts(u))
  BY <1>1 DEF OnRollouts, At
<1>3. \A u \in Tabs : OnRollouts(u)' => tabs'[u] # Null
  BY DEF OnRollouts, At
<1>4. \A q : q.tab \in Tabs /\ There(q)' =>
        /\ There(q) /\ tabs'[q.tab] # Null
        /\ tabs'[q.tab].page = tabs[q.tab].page
        /\ tabs'[q.tab].updating = tabs[q.tab].updating
  BY <1>1 DEF There
<1>5. \A q \in net' : q.tab \in Tabs
  BY DEF PageStep, Ordinary, DeskInvariant, RequestsSound, Addressed
<1>6. QED BY <1>1, <1>2, <1>3, <1>4, <1>5

LEMMA PageStepInPlace ==
  ASSUME DeskInvariant, InPlace, NEW t \in Tabs, NEW sent, PageStep(t, sent)
  PROVE  InPlace'
<1>1. /\ \A q : q.tab \in Tabs /\ There(q)' =>
           /\ There(q) /\ tabs'[q.tab] # Null
           /\ tabs'[q.tab].page = tabs[q.tab].page
           /\ tabs'[q.tab].updating = tabs[q.tab].updating
      /\ \A u \in Tabs : tabs'[u] # Null => (OnRollouts(u)' <=> OnRollouts(u))
      /\ \A q \in net' : q.tab \in Tabs
  BY PageStepThere
<1>2. Placed'
  <2>1. SUFFICES ASSUME NEW q \in net', There(q)'
                 PROVE  /\ q.op = "percentage" =>
                             OnRollouts(q.tab)' /\ q.item \in tabs'[q.tab].updating
                        /\ OnRollouts(q.tab)' =>
                             q.op \in {"percentage", "archive"} /\ q.type = "ROLLOUT"
                        /\ q.op = "save" => At(q.tab, "edit")'
    BY DEF Placed
  <2>2. /\ There(q) /\ tabs'[q.tab] # Null /\ tabs'[q.tab].page = tabs[q.tab].page
        /\ tabs'[q.tab].updating = tabs[q.tab].updating
        /\ OnRollouts(q.tab)' <=> OnRollouts(q.tab)
    BY <1>1, <2>1
  <2>3. At(q.tab, "edit") => At(q.tab, "edit")'
    BY <2>2 DEF At
  <2>4. CASE q \in net
    BY <2>2, <2>3, <2>4 DEF InPlace, Placed
  <2>5. CASE q \in sent
    BY <2>2, <2>3, <2>5 DEF PageStep, Ordinary
  <2>6. QED BY <2>4, <2>5 DEF PageStep
<1>3. OneRelease'
  BY <1>1 DEF InPlace, OneRelease, PageStep, Ordinary
<1>4. Turns'
  BY DEF InPlace, Turns, PageStep, Ordinary
<1>5. LastKnown'
  BY DEF InPlace, LastKnown, PageStep
<1>6. IdleTabs'
  BY DEF InPlace, IdleTabs, PageStep, PageKept, PagesKept, Ordinary
<1>7. QED BY <1>2, <1>3, <1>4, <1>5, <1>6 DEF InPlace

LEMMA PageStepQuiet ==
  ASSUME DeskInvariant, QuietInvariant, NEW t \in Tabs, NEW sent, PageStep(t, sent)
  PROVE  QuietInvariant'
<1>1. /\ \A q : q.tab \in Tabs /\ There(q)' => There(q)
      /\ \A u \in Tabs : tabs'[u] # Null => (OnRollouts(u)' <=> OnRollouts(u))
      /\ \A u \in Tabs : OnRollouts(u)' => tabs'[u].copy = tabs[u].copy
      /\ \A q \in net' : q.tab \in Tabs
  BY PageStepThere
<1>2. InPlace'
  BY PageStepInPlace DEF QuietInvariant
<1>3. /\ UNCHANGED <<rows, ids>> /\ net' \subseteq net \cup sent
      /\ \A q \in net : q.status = "sent" => q \in net'
      /\ \A q \in sent : q.status = "sent" /\ q.op # "percentage"
      /\ \A item \in Items : last'[item] \in {last[item], Null}
      /\ \A q \in sent : q.op = "save" => last'[q.item] = Null
  BY DEF PageStep, Ordinary
<1>4. SUFFICES ASSUME NEW u \in Tabs, Alone(u)', Calm'
               PROVE  SlidersKept' /\ ListShown(u)'
  BY <1>2 DEF QuietInvariant
<1>5. Alone(u)
  BY <1>4 DEF Alone, PageStep, PagesKept
<1>6. Calm
  <2>1. \A q \in net : q.tab \in Tabs
    BY DEF DeskInvariant, RequestsSound, Addressed
  <2>2. QED BY <1>1, <1>3, <1>4, <2>1 DEF Calm, PageStep
<1>7. SlidersKept /\ ListShown(u)
  BY <1>5, <1>6 DEF QuietInvariant
<1>8. \A item : Releasing(item)' <=> Releasing(item)
  BY <1>3 DEF Releasing
<1>9. SlidersKept'
  BY <1>3, <1>7, <1>8 DEF SlidersKept
<1>10. ListShown(u)'
  <2>1. SUFFICES ASSUME OnRollouts(u)', NEW item \in Items PROVE RowShown(u, item)'
    BY DEF ListShown
  <2>2. tabs'[u] # Null /\ OnRollouts(u) /\ tabs'[u].copy = tabs[u].copy
    BY <1>1, <2>1 DEF OnRollouts, At
  <2>3. RowShown(u, item)
    BY <1>7, <2>2 DEF ListShown
  <2>4. \A q : q.tab = u => (There(q)' <=> There(q))
    BY <2>2 DEF There, OnRollouts, At, PageStep, PageKept
  <2>5. Unheard(u, item)' = Unheard(u, item)
    <3>1. \A q \in net : q.tab = u /\ There(q) => q \in net'
      BY <2>2 DEF PageStep
    <3>2. \A q \in net' : q.status = "applied" => q \in net
      BY <1>3
    <3>3. QED BY <2>4, <3>1, <3>2 DEF Unheard
  <2>6. QED BY <1>3, <1>8, <2>2, <2>3, <2>5 DEF RowShown
<1>11. QED BY <1>9, <1>10

\* A tab opens on the rows as they are, with a number no request bears.
LEMMA OpenQuiet ==
  ASSUME DeskInvariant, QuietInvariant, NEW t \in Tabs, NEW page \in desk[t].pages, Open(t, page)
  PROVE  QuietInvariant'
<1>1. /\ tabs[t] = Null /\ UNCHANGED <<rows, ids, net, served, crossed, last>>
      /\ DOMAIN tabs = Tabs /\ desk[t].opens \in Nat /\ PagesKept
  BY DEF Open, table, DeskInvariant, TabsTyped, DeskTyped, PagesKept
<1>2. /\ \A u \in Tabs \ {t} : tabs'[u] = tabs[u]
      /\ tabs'[t].n = desk[t].opens /\ tabs'[t].copy = rows
  BY <1>1 DEF Open
<1>3. \A q \in net : There(q)' => There(q) /\ q.tab \in Tabs \ {t}
  <2>1. SUFFICES ASSUME NEW q \in net, There(q)'
                 PROVE  There(q) /\ q.tab \in Tabs \ {t}
    OBVIOUS
  <2>2. q.tab \in Tabs /\ q.n \in Nat /\ q.n > desk[q.tab].opens
    BY DEF DeskInvariant, RequestsSound, Addressed
  <2>3. q.tab # t
    BY <1>1, <1>2, <2>1, <2>2 DEF There
  <2>4. QED BY <1>2, <2>1, <2>2, <2>3 DEF There
<1>4. \A u \in Tabs \ {t} : \A at : (At(u, at)' <=> At(u, at)) /\ (OnRollouts(u)' <=> OnRollouts(u))
  BY <1>2 DEF At, OnRollouts
<1>5. InPlace'
  <2>1. Placed'
    <3>1. \A q \in net : There(q) =>
            /\ q.op = "percentage" => OnRollouts(q.tab) /\ q.item \in tabs[q.tab].updating
            /\ OnRollouts(q.tab) => q.op \in {"percentage", "archive"} /\ q.type = "ROLLOUT"
            /\ q.op = "save" => At(q.tab, "edit")
      BY DEF QuietInvariant, InPlace, Placed
    <3>2. QED BY <1>1, <1>2, <1>3, <1>4, <3>1 DEF Placed
  <2>2. OneRelease'
    BY <1>1, <1>3 DEF QuietInvariant, InPlace, OneRelease
  <2>3. Turns' /\ LastKnown'
    BY <1>1 DEF QuietInvariant, InPlace, Turns, LastKnown
  <2>4. IdleTabs'
    BY <1>1, <1>2 DEF QuietInvariant, InPlace, IdleTabs, PagesKept
  <2>5. QED BY <2>1, <2>2, <2>3, <2>4 DEF InPlace
<1>6. SUFFICES ASSUME NEW u \in Tabs, Alone(u)', Calm'
               PROVE  SlidersKept' /\ ListShown(u)'
  BY <1>5 DEF QuietInvariant
<1>7. u = t
  BY <1>1, <1>6 DEF Alone, PagesKept
<1>8. Alone(u) /\ Calm
  BY <1>1, <1>3, <1>6 DEF Alone, PagesKept, Calm
<1>9. SlidersKept'
  BY <1>1, <1>8 DEF QuietInvariant, SlidersKept, Releasing
<1>10. ListShown(u)'
  <2>1. \A item : Unheard(u, item)' = {}
    BY <1>1, <1>3, <1>7 DEF Unheard
  <2>2. QED BY <1>1, <1>2, <1>7, <2>1 DEF ListShown, RowShown
<1>11. QED BY <1>9, <1>10

\* A slider is released.
LEMMA DragQuiet ==
  ASSUME DeskInvariant, QuietInvariant, NEW t \in Tabs, NEW item \in Items, NEW n, Drag(t, item, n)
  PROVE  QuietInvariant'
<1> DEFINE q == Request(t, "percentage", item, [percentage |-> n])
<1>1. /\ OnRollouts(t) /\ tabs[t] # Null /\ tabs[t].copy[item] # Null
      /\ item \notin tabs[t].updating
      /\ UNCHANGED <<rows, ids, served, crossed>> /\ net' = net \cup {q}
      /\ tabs' = [tabs EXCEPT ![t].copy[item].percentage = n, ![t].updating = @ \cup {item}]
      /\ last' = [last EXCEPT ![item] = n]
  BY DEF Drag, At, Send, RolloutCards, Listed, OnRollouts, table
<1>2. PagesKept
  BY DEF Drag, Gesture, DeskInvariant, DeskTyped, PagesKept
<1>3. /\ TabTyped(tabs[t], rows, ids) /\ DOMAIN tabs = Tabs /\ DOMAIN tabs[t] = TabFields
      /\ DOMAIN tabs[t].copy = Items
  BY <1>1 DEF DeskInvariant, TabsTyped, TabTyped, KnownRows
<1>4. /\ \A u \in Tabs \ {t} : tabs'[u] = tabs[u]
      /\ tabs'[t] = [[tabs[t] EXCEPT !.copy = tabs'[t].copy] EXCEPT !.updating = @ \cup {item}]
      /\ \A i \in Items \ {item} : tabs'[t].copy[i] = tabs[t].copy[i]
  BY <1>1, <1>3 DEF TabFields
<1>5. /\ DOMAIN tabs'[t] = TabFields
      /\ tabs'[t].page = tabs[t].page /\ tabs'[t].n = tabs[t].n
      /\ tabs'[t].updating = tabs[t].updating \cup {item}
  <2> DEFINE copy == tabs'[t].copy
  <2>1. tabs'[t] = [[tabs[t] EXCEPT !.copy = copy] EXCEPT !.updating = @ \cup {item}]
    BY <1>4
  <2> HIDE DEF copy
  <2>2. QED BY <1>3, <2>1 DEF TabFields
<1>6. /\ q.tab = t /\ q.n = tabs[t].n /\ q.op = "percentage" /\ q.item = item
      /\ q.status = "sent" /\ q.turn = 0 /\ q.type = "ROLLOUT" /\ q.body.percentage = n
  BY <1>1, RequestIs DEF OnRollouts
<1> HIDE DEF q
<1>7. /\ \A r : r.tab \in Tabs /\ There(r)' =>
           /\ There(r) /\ tabs'[r.tab] # Null
           /\ tabs[r.tab].updating \subseteq tabs'[r.tab].updating
      /\ \A u \in Tabs : tabs'[u] # Null => tabs[u] # Null /\ tabs'[u].page = tabs[u].page
      /\ \A r \in net' : r.tab \in Tabs
  <2>1. \A u \in Tabs : tabs'[u] # Null =>
          /\ tabs[u] # Null /\ tabs'[u].page = tabs[u].page /\ tabs'[u].n = tabs[u].n
          /\ tabs[u].updating \subseteq tabs'[u].updating
    BY <1>1, <1>4, <1>5
  <2>2. \A r \in net : r.tab \in Tabs
    BY DEF DeskInvariant, RequestsSound, Addressed
  <2>3. QED BY <1>1, <1>6, <2>1, <2>2 DEF There
<1>8. /\ \A u \in Tabs : tabs'[u] # Null => (OnRollouts(u)' <=> OnRollouts(u))
      /\ \A u \in Tabs : \A at : tabs'[u] # Null => (At(u, at)' <=> At(u, at))
  BY <1>7 DEF OnRollouts, At
<1>9. \A r \in net : r.op = "percentage" /\ r.tab = t /\ There(r) => r.item # item
  BY <1>1 DEF QuietInvariant, InPlace, Placed
<1>10. InPlace'
  <2>1. Placed'
    <3>1. SUFFICES ASSUME NEW r \in net', There(r)'
                   PROVE  /\ r.op = "percentage" =>
                               OnRollouts(r.tab)' /\ r.item \in tabs'[r.tab].updating
                          /\ OnRollouts(r.tab)' =>
                               r.op \in {"percentage", "archive"} /\ r.type = "ROLLOUT"
                          /\ r.op = "save" => At(r.tab, "edit")'
      BY DEF Placed
    <3>2. There(r) /\ tabs'[r.tab] # Null /\ tabs[r.tab].updating \subseteq tabs'[r.tab].updating
          /\ r.tab \in Tabs
      BY <1>7, <3>1
    <3>3. CASE r = q
      BY <1>1, <1>5, <1>6, <1>8, <3>2, <3>3
    <3>4. CASE r \in net
      BY <1>8, <3>2, <3>4 DEF QuietInvariant, InPlace, Placed
    <3>5. QED BY <1>1, <3>3, <3>4
  <2>2. OneRelease'
    <3>1. SUFFICES ASSUME NEW p \in net', NEW r \in net',
                          p.op = "percentage", There(p)', r.op = "percentage", There(r)',
                          p.tab = r.tab, p.item = r.item
                   PROVE  p = r
      BY DEF OneRelease
    <3>2. There(p) /\ There(r)
      BY <1>7, <3>1
    <3>3. QED BY <1>1, <1>6, <1>9, <3>1, <3>2 DEF QuietInvariant, InPlace, OneRelease
  <2>3. Turns'
    BY <1>1, <1>6 DEF QuietInvariant, InPlace, Turns
  <2>4. LastKnown'
    <3>1. item \in ids
      BY <1>1, <1>3 DEF TabTyped, KnownRows, KnownRow
    <3>2. QED BY <1>1, <3>1 DEF QuietInvariant, InPlace, LastKnown
  <2>5. IdleTabs'
    <3>1. \A u \in Tabs : desk[u].pages = {} =>
            u # t /\ tabs[u] = Null /\ \A r \in net : r.tab # u
      BY <1>1 DEF QuietInvariant, InPlace, IdleTabs
    <3>2. QED BY <1>1, <1>2, <1>4, <1>6, <3>1 DEF IdleTabs, PagesKept
  <2>6. QED BY <2>1, <2>2, <2>3, <2>4, <2>5 DEF InPlace
<1>11. SUFFICES ASSUME NEW u \in Tabs, Alone(u)', Calm'
                PROVE  SlidersKept' /\ ListShown(u)'
  BY <1>10 DEF QuietInvariant
<1>12. /\ Alone(u) /\ Calm /\ u = t
       /\ \A r \in net : r.tab = t
  <2>1. Alone(u)
    BY <1>2, <1>11 DEF Alone, PagesKept
  <2>2. u = t /\ \A r \in net : r.tab = t
    BY <1>1, <1>7, <2>1 DEF Alone, QuietInvariant, InPlace, IdleTabs, DeskInvariant, RequestsSound,
                            Addressed
  <2>3. Calm
    BY <1>1, <1>7, <1>11, <2>2 DEF Calm
  <2>4. QED BY <2>1, <2>2, <2>3
<1>13. SlidersKept /\ ListShown(t)
  BY <1>12 DEF QuietInvariant
<1>14. \A i : Releasing(i)' <=> Releasing(i) \/ i = item
  BY <1>1, <1>6 DEF Releasing
<1>15. SlidersKept'
  <2>1. SUFFICES ASSUME NEW i \in Items, last'[i] # Null
                 PROVE  /\ \A r \in net' : r.status = "sent" /\ r.item = i =>
                             /\ r.op # "save"
                             /\ r.op = "percentage" => r.body.percentage = last'[i]
                        /\ ~Releasing(i)' /\ rows[i] # Null /\ ~rows[i].archived =>
                             rows[i].percentage = last'[i]
    BY <1>1 DEF SlidersKept
  <2>2. DOMAIN last = Items
    BY DEF QuietInvariant, InPlace, LastKnown
  <2>3. CASE i = item
    <3>1. last'[i] = n /\ Releasing(i)'
      BY <1>1, <1>14, <2>2, <2>3
    <3>2. \A r \in net : r.status = "sent" /\ r.item = i => r.op \notin {"save", "percentage"}
      <4>1. \A r \in net : r.status = "sent" => There(r) /\ r.tab = t
        BY <1>12 DEF Calm
      <4>2. ~At(t, "edit")
        BY <1>1 DEF OnRollouts, At
      <4>3. QED BY <1>9, <2>3, <4>1, <4>2 DEF QuietInvariant, InPlace, Placed
    <3>3. QED BY <1>1, <1>6, <3>1, <3>2
  <2>4. CASE i # item
    <3>1. last'[i] = last[i]
      BY <1>1, <2>2, <2>4
    <3>2. QED BY <1>1, <1>6, <1>13, <1>14, <2>1, <2>4, <3>1 DEF SlidersKept
  <2>5. QED BY <2>3, <2>4
<1>16. ListShown(t)'
  <2>1. SUFFICES ASSUME tabs'[t] # Null, NEW i \in Items PROVE RowShown(t, i)'
    BY DEF ListShown, OnRollouts, At
  <2>2. Unheard(t, i)' = Unheard(t, i)
    <3>1. \A r : r.tab = t => (There(r)' <=> There(r))
      BY <1>1, <1>5, <2>1 DEF There
    <3>2. \A r : r.status = "applied" => (r \in net' <=> r \in net)
      BY <1>1, <1>6
    <3>3. QED BY <3>1, <3>2 DEF Unheard
  <2>3. RowShown(t, i)
    BY <1>1, <1>13 DEF ListShown
  <2>4. QED BY <1>1, <1>4, <1>14, <2>2, <2>3 DEF RowShown
<1>17. QED BY <1>12, <1>15, <1>16

\* A request is served or fails; it stays where it was sent from.
LEMMA MarkedInPlace ==
  ASSUME DeskInvariant, InPlace, NEW q \in net, NEW new, Marked(new, q), UNCHANGED <<tabs, desk, last>>,
         net' = (net \ {q}) \cup {new}, ids \subseteq ids',
         served' \in Nat, served <= served', new.turn \in Nat, new.turn <= served'
  PROVE  InPlace'
<1>1. /\ new.tab = q.tab /\ new.n = q.n /\ new.op = q.op /\ new.item = q.item /\ new.type = q.type
      /\ There(new) <=> There(q)
  BY DEF Marked, There
<1>2. \A r : There(r)' <=> There(r)
  BY DEF There
<1>3. \A u, at : (At(u, at)' <=> At(u, at)) /\ (OnRollouts(u)' <=> OnRollouts(u))
  BY DEF At, OnRollouts
<1>4. Placed'
  BY <1>1, <1>2, <1>3 DEF InPlace, Placed
<1>5. OneRelease'
  <2>1. SUFFICES ASSUME NEW p \in net', NEW r \in net',
                        p.op = "percentage", There(p), r.op = "percentage", There(r),
                        p.tab = r.tab, p.item = r.item
                 PROVE  p = r
    BY <1>2 DEF OneRelease
  <2>2. CASE p # new /\ r # new
    BY <2>1, <2>2 DEF InPlace, OneRelease
  <2>3. CASE p = new /\ r # new
    BY <1>1, <2>1, <2>3 DEF InPlace, OneRelease
  <2>4. CASE p # new /\ r = new
    BY <1>1, <2>1, <2>4 DEF InPlace, OneRelease
  <2>5. QED BY <2>2, <2>3, <2>4
<1>6. Turns'
  BY DEF InPlace, Turns
<1>7. LastKnown' /\ IdleTabs'
  BY <1>1 DEF InPlace, LastKnown, IdleTabs
<1>8. QED BY <1>4, <1>5, <1>6, <1>7 DEF InPlace

LEMMA LoseQuiet ==
  ASSUME DeskInvariant, QuietInvariant, NEW q \in net, Lose(q)
  PROVE  QuietInvariant'
<1>1. /\ UNCHANGED <<tabs, desk, last, ids, served>> /\ crossed'
      /\ Addressed(q) /\ Carries(q) /\ served \in Nat
  BY DEF Lose, table, DeskInvariant, RequestsSound, QuietInvariant, InPlace, Turns
<1>2. PICK new : new = Failed(q, served) /\ net' = (net \ {q}) \cup {new}
  BY DEF Lose
<1>3. Marked(new, q) /\ new.turn = served
  <2>1. new = Applied(q, served, Null) \/ new = Failed(q, served)
    BY <1>2
  <2>2. QED BY <1>1, <2>1, MarkedCarries
<1>4. InPlace'
  BY <1>1, <1>2, <1>3, MarkedInPlace DEF QuietInvariant
<1>5. QED BY <1>1, <1>4 DEF QuietInvariant, Calm

\* What is served is still what a slider says, unless a form has taken over.
LEMMA ServedSlider ==
  ASSUME DeskInvariant, LastKnown, SlidersKept, NEW q \in net, Serve(q), ~Refuses(q),
         NEW item \in Items, q.item = item, q.op # "load", last[item] # Null,
         q.op # "percentage" => ~Releasing(item),
         rows'[item] # Null, ~rows'[item].archived
  PROVE  rows'[item].percentage = last[item]
<1>1. /\ q.status = "sent" /\ Addressed(q) /\ Carries(q) /\ RowsKnown /\ IdsApart
      /\ q.op \in Operations
  BY DEF Serve, DeskInvariant, RequestsSound, Addressed
<1>2. rows'[item] = Handle(q)
  BY <1>1, ServeRows DEF DeskInvariant
<1>3. q.op # "save" /\ (q.op = "percentage" => q.body.percentage = last[item])
  BY <1>1 DEF SlidersKept
<1>4. q.op # "create"
  BY <1>1 DEF IdsApart, LastKnown
<1>5. rows[item] # Null /\ RowTyped(rows[item])
  BY <1>1, <1>4 DEF Refuses, RowsKnown, KnownRows, KnownRow
<1>6. CASE q.op = "percentage"
  <2>1. rows'[item] = Over(rows[item], q.body)
    BY <1>2, <1>6 DEF Handle
  <2>2. "percentage" \in DOMAIN q.body
    BY <1>1, <1>6 DEF Carries
  <2>3. QED BY <1>3, <1>6, <2>1, <2>2 DEF Over
<1>7. CASE q.op = "assign"
  <2>1. rows'[item] = Over(rows[item], q.body)
    BY <1>2, <1>7 DEF Handle
  <2>2. DOMAIN q.body \subseteq {"variants", "rolloutValues", "flagIds"}
    BY <1>1, <1>7 DEF Carries
  <2>3. /\ rows'[item].percentage = rows[item].percentage
        /\ rows'[item].archived = rows[item].archived
    BY <1>5, <2>1, <2>2 DEF Over, RowTyped, Columns
  <2>4. QED BY <1>5, <1>7, <2>3 DEF SlidersKept
<1>8. CASE q.op = "archive"
  <2>1. rows'[item] = Archived(rows[item], q.body.kind)
    BY <1>2, <1>8 DEF Handle
  <2>2. rows'[item].archived
    BY <1>5, <2>1 DEF Archived, RowTyped, Columns
  <2>3. QED BY <2>2
<1>9. CASE q.op = "delete"
  BY <1>2, <1>9 DEF Handle
<1>10. QED BY <1>1, <1>3, <1>4, <1>6, <1>7, <1>8, <1>9 DEF Operations

LEMMA ServeQuiet ==
  ASSUME DeskInvariant, QuietInvariant, NEW q \in net, Serve(q)
  PROVE  QuietInvariant'
<1>1. /\ UNCHANGED <<tabs, desk, last>> /\ q.status = "sent" /\ served' = served + 1
      /\ crossed' = (crossed \/ ~There(q))
      /\ Addressed(q) /\ Carries(q) /\ served \in Nat /\ \A p \in net : p.turn \in Nat /\ p.turn <= served
      /\ DOMAIN last = Items /\ LastKnown /\ RowsKnown /\ RequestsSound
  BY DEF Serve, DeskInvariant, RequestsSound, QuietInvariant, InPlace, Turns, LastKnown
<1>2. PICK new : /\ new = IF Refuses(q) THEN Failed(q, served + 1)
                                         ELSE Applied(q, served + 1, Handle(q))
                 /\ net' = (net \ {q}) \cup {new}
  BY DEF Serve
<1>3. /\ Marked(new, q) /\ new.turn = served + 1
      /\ new.status = IF Refuses(q) THEN "failed" ELSE "applied"
      /\ ~Refuses(q) => new.reply = Handle(q)
  <2>1. new = Applied(q, served + 1, Handle(q)) \/ new = Failed(q, served + 1)
    BY <1>2
  <2>2. QED BY <1>1, <1>2, <2>1, MarkedCarries
<1>4. /\ ids \subseteq ids'
      /\ \A item \in Items : q.op = "load" \/ Refuses(q) \/ q.item # item => rows'[item] = rows[item]
      /\ q.op # "load" /\ ~Refuses(q) => rows'[q.item] = Handle(q)
  BY <1>1, ServeRows DEF Serve, RowsGrow, table, RowsKnown, KnownRows
<1>5. InPlace'
  BY <1>1, <1>2, <1>3, <1>4, MarkedInPlace DEF QuietInvariant
<1>6. SUFFICES ASSUME NEW t \in Tabs, Alone(t)', Calm'
               PROVE  SlidersKept' /\ ListShown(t)'
  BY <1>5 DEF QuietInvariant
<1>7. \A r : There(r)' <=> There(r)
  BY <1>1 DEF There
<1>8. Alone(t) /\ Calm /\ There(q)
  BY <1>1, <1>2, <1>6, <1>7 DEF Alone, Calm
<1>9. SlidersKept /\ ListShown(t)
  BY <1>8 DEF QuietInvariant
<1>10. new.op = q.op /\ new.item = q.item /\ new.tab = q.tab /\ new.n = q.n
  BY <1>3 DEF Marked
<1>11. \A item : Releasing(item) => Releasing(item)' \/ (q.op = "percentage" /\ q.item = item)
  BY <1>2 DEF Releasing
<1>12. \A item : Releasing(item)' => Releasing(item)
  BY <1>2, <1>3 DEF Releasing
<1>13. SlidersKept'
  <2>1. SUFFICES ASSUME NEW item \in Items, last[item] # Null,
                        ~Releasing(item)', rows'[item] # Null, ~rows'[item].archived
                 PROVE  rows'[item].percentage = last[item]
    BY <1>1, <1>2, <1>3, <1>9 DEF SlidersKept
  <2>2. CASE rows'[item] = rows[item] /\ ~Releasing(item)
    BY <1>9, <2>1, <2>2 DEF SlidersKept
  <2>3. CASE q.item = item /\ q.op # "load" /\ ~Refuses(q)
    <3>1. q.op # "percentage" => ~Releasing(item)
      BY <1>11, <2>1
    <3>2. QED BY <1>1, <1>9, <2>1, <2>3, <3>1, ServedSlider
  <2>4. CASE q.item = item /\ q.op = "percentage" /\ Refuses(q)
    <3>1. rows[item] = Null
      BY <2>4 DEF Refuses
    <3>2. QED BY <1>4, <2>1, <2>4, <3>1
  <2>5. QED BY <1>4, <1>11, <2>1, <2>2, <2>3, <2>4
<1>14. ListShown(t)'
  <2>1. SUFFICES ASSUME OnRollouts(t), NEW item \in Items PROVE RowShown(t, item)'
    BY <1>1 DEF ListShown, OnRollouts, At
  <2>2. q.tab = t /\ q.op \in {"percentage", "archive"}
    <3>1. q.tab = t
      BY <1>1, <1>8 DEF Alone, QuietInvariant, InPlace, IdleTabs, Addressed
    <3>2. QED BY <1>8, <2>1, <3>1 DEF QuietInvariant, InPlace, Placed
  <2>3. RowShown(t, item)
    BY <1>9, <2>1 DEF ListShown
  <2>4. CASE q.item # item \/ Refuses(q)
    <3>1. Unheard(t, item)' = Unheard(t, item)
      BY <1>1, <1>2, <1>3, <1>7, <1>10, <2>4 DEF Unheard
    <3>2. rows'[item] = rows[item]
      BY <1>4, <2>4
    <3>3. Releasing(item) /\ ~Releasing(item)' => rows[item] = Null
      BY <1>11, <2>4 DEF Refuses
    <3>4. QED BY <1>1, <1>12, <2>3, <3>1, <3>2, <3>3 DEF RowShown
  <2>5. CASE q.item = item /\ ~Refuses(q)
    <3>1. new \in Unheard(t, item)'
      BY <1>2, <1>3, <1>7, <1>8, <1>10, <2>2, <2>5 DEF Unheard, There
    <3>2. rows'[item] = new.reply
      BY <1>3, <1>4, <2>2, <2>5
    <3>3. \A r \in Unheard(t, item)' : r # new => r.turn < new.turn
      BY <1>1, <1>2, <1>3 DEF Unheard
    <3>4. \A r \in Unheard(t, item)' : r.turn \in Nat
      BY <1>1, <1>2, <1>3 DEF Unheard
    <3>5. ASSUME NEW r \in Unheard(t, item)', \A p \in Unheard(t, item)' : p.turn <= r.turn
          PROVE  r = new
      <4>1. new.turn <= r.turn
        BY <3>1, <3>5
      <4>2. new.turn \in Nat /\ r.turn \in Nat
        BY <3>1, <3>4
      <4>3. QED BY <3>3, <4>1, <4>2
    <3>6. QED BY <3>1, <3>2, <3>5 DEF RowShown
  <2>6. QED BY <2>4, <2>5
<1>15. QED BY <1>13, <1>14

\* The list of rollouts hears what became of a slider or a menu.
Heard(q) ==
  /\ UNCHANGED <<rows, ids, served, last, desk>>
  /\ crossed' = (crossed \/ \E p \in net : p.tab = q.tab /\ p.status # "sent" /\ p.turn < q.turn)
  /\ net' = net \ {q} /\ DOMAIN tabs' = Tabs
  /\ \A u \in Tabs \ {q.tab} : tabs'[u] = tabs[u]
  /\ tabs'[q.tab].page = tabs[q.tab].page /\ tabs'[q.tab].n = tabs[q.tab].n
  /\ tabs[q.tab].updating \ {q.item} \subseteq tabs'[q.tab].updating
  /\ q.op = "archive" => tabs'[q.tab].updating = tabs[q.tab].updating
  /\ \A item \in Items : tabs'[q.tab].copy[item] =
       IF item = q.item /\ q.status = "applied" THEN q.reply ELSE tabs[q.tab].copy[item]

LEMMA HeardQuiet ==
  ASSUME DeskInvariant, QuietInvariant, NEW q \in net, q.status # "sent",
         There(q), OnRollouts(q.tab), Heard(q)
  PROVE  QuietInvariant'
<1> DEFINE t == q.tab
<1>1. /\ t \in Tabs /\ tabs[t] # Null /\ DOMAIN tabs = Tabs /\ Addressed(q)
      /\ q.op \in {"percentage", "archive"} /\ \A r \in net : r.tab \in Tabs
  BY DEF DeskInvariant, RequestsSound, Addressed, There, TabsTyped, QuietInvariant, InPlace, Placed
<1>2. \A u \in Tabs : tabs'[u] # Null =>
        tabs[u] # Null /\ tabs'[u].page = tabs[u].page /\ tabs'[u].n = tabs[u].n
  BY <1>1 DEF Heard
<1>3. /\ \A u \in Tabs : tabs'[u] # Null => (OnRollouts(u)' <=> OnRollouts(u))
      /\ \A u \in Tabs : \A at : tabs'[u] # Null => (At(u, at)' <=> At(u, at))
      /\ \A r : r.tab \in Tabs => (There(r)' <=> There(r) /\ tabs'[r.tab] # Null)
  BY <1>2 DEF OnRollouts, At, There
<1>4. InPlace'
  <2>1. Placed'
    <3>1. SUFFICES ASSUME NEW r \in net', There(r)'
                   PROVE  /\ r.op = "percentage" =>
                               OnRollouts(r.tab)' /\ r.item \in tabs'[r.tab].updating
                          /\ OnRollouts(r.tab)' =>
                               r.op \in {"percentage", "archive"} /\ r.type = "ROLLOUT"
                          /\ r.op = "save" => At(r.tab, "edit")'
      BY DEF Placed
    <3>2. r \in net /\ r # q /\ r.tab \in Tabs /\ There(r) /\ tabs'[r.tab] # Null
      BY <1>1, <1>3, <3>1 DEF Heard
    <3>3. /\ r.op = "percentage" => OnRollouts(r.tab) /\ r.item \in tabs[r.tab].updating
          /\ OnRollouts(r.tab) => r.op \in {"percentage", "archive"} /\ r.type = "ROLLOUT"
          /\ r.op = "save" => At(r.tab, "edit")
      BY <3>2 DEF QuietInvariant, InPlace, Placed
    <3>4. r.op = "percentage" => r.item \in tabs'[r.tab].updating
      <4>1. SUFFICES ASSUME r.op = "percentage" PROVE r.item \in tabs'[r.tab].updating
        OBVIOUS
      <4>2. CASE r.tab # t
        BY <3>2, <3>3, <4>1, <4>2 DEF Heard
      <4>3. CASE r.tab = t /\ q.op = "archive"
        BY <3>3, <4>1, <4>3 DEF Heard
      <4>4. CASE r.tab = t /\ q.op = "percentage"
        <5>1. r.item # q.item
          BY <3>2, <4>1, <4>4 DEF QuietInvariant, InPlace, OneRelease
        <5>2. QED BY <3>3, <4>1, <4>4, <5>1 DEF Heard
      <4>5. QED BY <1>1, <4>2, <4>3, <4>4
    <3>5. QED BY <1>3, <3>2, <3>3, <3>4
  <2>2. OneRelease'
    BY <1>1, <1>3 DEF Heard, QuietInvariant, InPlace, OneRelease
  <2>3. Turns' /\ LastKnown'
    BY DEF Heard, QuietInvariant, InPlace, Turns, LastKnown
  <2>4. IdleTabs'
    <3>1. \A u \in Tabs : desk[u].pages = {} =>
            u # t /\ tabs[u] = Null /\ \A r \in net : r.tab # u
      BY DEF QuietInvariant, InPlace, IdleTabs
    <3>2. QED BY <3>1 DEF IdleTabs, Heard
  <2>5. QED BY <2>1, <2>2, <2>3, <2>4 DEF InPlace
<1>5. SUFFICES ASSUME NEW u \in Tabs, Alone(u)', Calm'
               PROVE  SlidersKept' /\ ListShown(u)'
  BY <1>4 DEF QuietInvariant
<1>6. Alone(u) /\ Calm
  BY <1>1, <1>3, <1>5 DEF Alone, Calm, Heard
<1>7. u = t
  BY <1>1, <1>6 DEF Alone, QuietInvariant, InPlace, IdleTabs
<1>8. SlidersKept /\ ListShown(t)
  BY <1>6, <1>7 DEF QuietInvariant
<1>9. \A item : Releasing(item)' <=> Releasing(item)
  BY DEF Releasing, Heard
<1>10. SlidersKept'
  BY <1>8, <1>9 DEF SlidersKept, Heard
<1>11. ListShown(t)'
  <2>1. SUFFICES ASSUME tabs'[t] # Null, NEW item \in Items PROVE RowShown(t, item)'
    BY DEF ListShown, OnRollouts, At
  <2>2. RowShown(t, item)
    BY <1>8 DEF ListShown
  <2>3. Unheard(t, item)' = Unheard(t, item) \ {q}
    <3>1. \A r : r.tab = t => (There(r)' <=> There(r))
      BY <1>1, <1>3, <2>1
    <3>2. QED BY <3>1 DEF Unheard, Heard
  <2>4. CASE item # q.item \/ q.status # "applied"
    <3>1. Unheard(t, item)' = Unheard(t, item) /\ tabs'[t].copy[item] = tabs[t].copy[item]
      BY <2>3, <2>4 DEF Unheard, Heard
    <3>2. rows' = rows
      BY DEF Heard
    <3>3. QED BY <1>9, <2>2, <3>1, <3>2 DEF RowShown
  <2>5. CASE item = q.item /\ q.status = "applied"
    <3>1. q \in Unheard(t, item) /\ tabs'[t].copy[item] = q.reply /\ rows' = rows
      BY <2>5 DEF Unheard, Heard
    <3>2. \A p \in Unheard(t, item) : q.turn <= p.turn
      <4>1. \A p \in net : p.tab = t /\ p.status # "sent" => ~(p.turn < q.turn)
        BY <1>5 DEF Calm, Heard
      <4>2. \A p \in net : p.turn \in Nat
        BY DEF QuietInvariant, InPlace, Turns
      <4>3. QED BY <4>1, <4>2 DEF Unheard
    <3>3. Unheard(t, item)' = {} => q.reply = rows[item]
      <4>1. SUFFICES ASSUME Unheard(t, item)' = {} PROVE q.reply = rows[item]
        OBVIOUS
      <4>2. \A p \in Unheard(t, item) : p = q
        BY <2>3, <4>1
      <4>3. \A p \in Unheard(t, item) : p.turn <= q.turn
        BY <4>2 DEF QuietInvariant, InPlace, Turns
      <4>4. QED BY <2>2, <3>1, <4>3 DEF RowShown
    <3>4. ASSUME NEW r \in Unheard(t, item)', \A p \in Unheard(t, item)' : p.turn <= r.turn
          PROVE  r.reply = rows[item]
      <4>1. r \in Unheard(t, item)
        BY <2>3, <3>4
      <4>2. \A p \in Unheard(t, item) : p.turn <= r.turn
        BY <2>3, <3>2, <3>4, <4>1
      <4>3. QED BY <2>2, <4>1, <4>2 DEF RowShown
    <3>5. QED BY <3>1, <3>3, <3>4 DEF RowShown
  <2>6. QED BY <2>4, <2>5
<1>12. QED BY <1>7, <1>10, <1>11

LEMMA AnswerQuiet ==
  ASSUME DeskInvariant, QuietInvariant, NEW q \in net, Answer(q)
  PROVE  QuietInvariant'
<1> DEFINE t == q.tab
<1>1. /\ t \in Tabs /\ Addressed(q) /\ DOMAIN tabs = Tabs
      /\ tabs[t] # Null => TabTyped(tabs[t], rows, ids) /\ DOMAIN tabs[t] = TabFields
      /\ There(q) => /\ tabs[t] # Null
                     /\ q.at \in {"assign", "values"} => tabs[t].page.at = "flag"
                     /\ q.at \in {"list", "flag"} => tabs[t].page.at = q.at
  BY StillThere
<1>2. /\ q.status \in {"applied", "failed"} /\ UNCHANGED <<rows, ids, served, last, desk>>
      /\ crossed => crossed'
      /\ crossed' = (crossed \/ \E p \in net : p.tab = q.tab /\ p.status # "sent" /\ p.turn < q.turn)
  BY <1>1 DEF Answer, table, Addressed
<1>3. There(q) => /\ q.op = "percentage" => OnRollouts(t)
                  /\ OnRollouts(t) => q.op \in {"percentage", "archive"} /\ q.type = "ROLLOUT"
  BY DEF QuietInvariant, InPlace, Placed
<1>4. ASSUME \A u \in Tabs \ {t} : tabs'[u] = tabs[u], PageKept(t),
             \/ net' = net \ {q}
             \/ tabs[t] # Null /\ ~OnRollouts(t) /\ net' = (net \ {q}) \cup {Reload(q)},
             There(q) /\ tabs'[t] # Null => ~OnRollouts(t)
      PROVE  QuietInvariant'
  <2>1. PICK sent : /\ net' = (net \ {q}) \cup sent
                    /\ sent # {} => tabs[t] # Null /\ ~OnRollouts(t)
                    /\ sent \subseteq {Reload(q)}
    <3>1. CASE net' = net \ {q}
      <4>1. PICK none : none = {}
        OBVIOUS
      <4>2. net' = (net \ {q}) \cup none /\ none \subseteq {Reload(q)} /\ ~(none # {})
        BY <3>1, <4>1
      <4>3. QED BY <4>2
    <3>2. CASE tabs[t] # Null /\ ~OnRollouts(t) /\ net' = (net \ {q}) \cup {Reload(q)}
      BY <3>2
    <3>3. QED BY <1>4, <3>1, <3>2
  <2>2. \A r \in sent : Ordinary(r, t)
    <3>1. SUFFICES ASSUME sent # {} PROVE Ordinary(Reload(q), t)
      BY <2>1
    <3>2. tabs[t] # Null
      BY <2>1, <3>1
    <3>3. /\ Reload(q).tab = t /\ Reload(q).n = tabs[t].n /\ Reload(q).op = "load"
          /\ Reload(q).status = "sent" /\ Reload(q).turn = 0
      BY <3>2, RequestIs DEF Reload, RequestFields
    <3>4. QED BY <2>1, <3>1, <3>3 DEF Ordinary
  <2>3. PageStep(t, sent)
    BY <1>1, <1>2, <1>4, <2>1, <2>2 DEF PageStep, PagesKept, QuietInvariant, InPlace, LastKnown
  <2>4. QED BY <1>1, <2>3, PageStepQuiet
<1>5. CASE tabs' = tabs /\ net' = net \ {q} /\ ~There(q)
  BY <1>4, <1>5 DEF PageKept
<1>6. CASE AnswerForm(q)
  <2>1. There(q) => ~OnRollouts(t)
    BY <1>1, <1>3, <1>6 DEF AnswerForm, Addressed, OnRollouts, At
  <2>2. /\ net' = net \ {q}
        /\ \/ tabs' = tabs
           \/ tabs' = [tabs EXCEPT ![t] = Null]
           \/ There(q) /\ tabs' = [tabs EXCEPT ![t].saving = {}]
    BY <1>6 DEF AnswerForm
  <2>3. (\A u \in Tabs \ {t} : tabs'[u] = tabs[u]) /\ PageKept(t)
    BY <1>1, <2>2 DEF PageKept, TabFields
  <2>4. QED BY <1>4, <2>1, <2>2, <2>3
<1>7. CASE AnswerSlider(q) /\ There(q)
  <2>1. /\ tabs[t] # Null /\ TabTyped(tabs[t], rows, ids) /\ DOMAIN tabs[t] = TabFields
        /\ OnRollouts(t) /\ q.item \in Items /\ q.op = "percentage" /\ net' = net \ {q}
        /\ DOMAIN tabs[t].copy = Items
    BY <1>1, <1>3, <1>7 DEF AnswerSlider, Addressed, TabTyped, KnownRows
  <2> DEFINE row == IF q.status = "applied" THEN q.reply ELSE tabs[t].copy[q.item]
  <2>2. tabs' = [tabs EXCEPT ![t].updating = @ \ {q.item}, ![t].copy[q.item] = row]
    BY <1>1, <1>7, <2>1 DEF AnswerSlider, TabFields
  <2> HIDE DEF row
  <2>3. /\ DOMAIN tabs' = Tabs /\ \A u \in Tabs \ {t} : tabs'[u] = tabs[u]
        /\ tabs'[t].page = tabs[t].page /\ tabs'[t].n = tabs[t].n
        /\ tabs'[t].updating = tabs[t].updating \ {q.item}
        /\ tabs'[t].copy = [tabs[t].copy EXCEPT ![q.item] = row]
    BY <1>1, <2>1, <2>2 DEF TabFields
  <2>4. Heard(q)
    BY <1>2, <2>1, <2>3 DEF Heard, row
  <2>5. QED BY <1>2, <1>7, <2>1, <2>4, HeardQuiet
<1>8. CASE AnswerSlider(q) /\ ~There(q)
  BY <1>5, <1>8 DEF AnswerSlider
<1>9. CASE AnswerMenu(q) /\ There(q) /\ OnRollouts(t)
  <2>1. /\ tabs[t] # Null /\ TabTyped(tabs[t], rows, ids) /\ DOMAIN tabs[t] = TabFields
        /\ q.item \in Items /\ q.op = "archive" /\ q.type = "ROLLOUT"
        /\ DOMAIN tabs[t].copy = Items
    BY <1>1, <1>3, <1>9 DEF AnswerMenu, Addressed, TabTyped, KnownRows
  <2>2. /\ net' = net \ {q}
        /\ tabs' = IF q.status = "applied" THEN [tabs EXCEPT ![t].copy[q.item] = q.reply] ELSE tabs
    BY <1>2, <1>9, <2>1 DEF AnswerMenu
  <2>3. /\ DOMAIN tabs' = Tabs /\ \A u \in Tabs \ {t} : tabs'[u] = tabs[u]
        /\ tabs'[t].page = tabs[t].page /\ tabs'[t].n = tabs[t].n
        /\ tabs'[t].updating = tabs[t].updating
        /\ tabs'[t].copy = IF q.status = "applied" THEN [tabs[t].copy EXCEPT ![q.item] = q.reply]
                           ELSE tabs[t].copy
    BY <1>1, <2>1, <2>2 DEF TabFields
  <2>4. Heard(q)
    BY <1>2, <2>1, <2>2, <2>3 DEF Heard
  <2>5. QED BY <1>2, <1>9, <2>4, HeardQuiet
<1>10. CASE AnswerMenu(q) /\ There(q) /\ ~OnRollouts(t)
  <2>1. /\ tabs[t] # Null /\ DOMAIN tabs[t] = TabFields
    BY <1>1, <1>10
  <2>2. \/ net' = net \ {q} /\ tabs' = tabs
        \/ net' = net \ {q} /\ tabs' = [tabs EXCEPT ![t].copy[q.item] = q.reply]
        \/ net' = (net \ {q}) \cup {Reload(q)} /\ tabs' = tabs
    BY <1>10 DEF AnswerMenu
  <2>3. (\A u \in Tabs \ {t} : tabs'[u] = tabs[u]) /\ PageKept(t)
    BY <1>1, <1>10, <2>1, <2>2 DEF PageKept, TabFields
  <2>4. QED BY <1>4, <1>10, <2>1, <2>2, <2>3
<1>11. CASE AnswerMenu(q) /\ ~There(q)
  BY <1>5, <1>11 DEF AnswerMenu
<1>12. CASE AnswerDialog(q) /\ There(q)
  <2>1. /\ tabs[t] # Null /\ DOMAIN tabs[t] = TabFields /\ ~OnRollouts(t)
    BY <1>1, <1>12 DEF AnswerDialog, OnRollouts, At
  <2>2. PICK modal : tabs' = [tabs EXCEPT ![t].saving = @ \ {q.at}, ![t].modal = modal]
    BY <1>1, <1>12, <2>1 DEF AnswerDialog, TabFields
  <2>3. /\ \A u \in Tabs \ {t} : tabs'[u] = tabs[u]
        /\ tabs'[t].page = tabs[t].page /\ tabs'[t].n = tabs[t].n
        /\ tabs'[t].updating = tabs[t].updating
    BY <1>1, <2>1, <2>2 DEF TabFields
  <2>4. net' = (net \ {q}) \cup {Reload(q)} \/ net' = net \ {q}
    BY <1>12 DEF AnswerDialog
  <2>5. QED BY <1>4, <2>1, <2>3, <2>4 DEF PageKept
<1>13. CASE AnswerDialog(q) /\ ~There(q)
  BY <1>5, <1>13 DEF AnswerDialog
<1>14. CASE AnswerLoad(q)
  <2>1. net' = net \ {q} /\ q.op = "load" /\ (There(q) => ~OnRollouts(t))
    BY <1>3, <1>14 DEF AnswerLoad
  <2>2. tabs' = tabs \/ (There(q) /\ tabs' = [tabs EXCEPT ![t].copy = q.reply])
    BY <1>14 DEF AnswerLoad
  <2>3. (\A u \in Tabs \ {t} : tabs'[u] = tabs[u]) /\ PageKept(t)
    BY <1>1, <2>1, <2>2 DEF PageKept, TabFields
  <2>4. QED BY <1>4, <2>1, <2>3
<1>15. QED BY <1>6, <1>7, <1>8, <1>9, <1>10, <1>11, <1>12, <1>13, <1>14 DEF Answer

\* A gesture on a page: it changes its form or its dialog, or waits; it may send one request.
Touched(t, new) ==
  \/ new = tabs
  \/ \E form : new = [tabs EXCEPT ![t].form = form]
  \/ \E saving : new = [tabs EXCEPT ![t].saving = saving]
  \/ \E modal : new = [tabs EXCEPT ![t].modal = modal]

LEMMA TouchedKept ==
  ASSUME DeskInvariant, NEW t \in Tabs, tabs[t] # Null, Touched(t, tabs')
  PROVE  (\A u \in Tabs \ {t} : tabs'[u] = tabs[u]) /\ PageKept(t)
<1>1. DOMAIN tabs = Tabs /\ DOMAIN tabs[t] = TabFields
  BY DEF DeskInvariant, TabsTyped, TabTyped
<1>2. CASE tabs' = tabs
  BY <1>2 DEF PageKept
<1>3. ASSUME NEW form, tabs' = [tabs EXCEPT ![t].form = form]
      PROVE  (\A u \in Tabs \ {t} : tabs'[u] = tabs[u]) /\ PageKept(t)
  BY <1>1, <1>3 DEF PageKept, TabFields
<1>4. ASSUME NEW saving, tabs' = [tabs EXCEPT ![t].saving = saving]
      PROVE  (\A u \in Tabs \ {t} : tabs'[u] = tabs[u]) /\ PageKept(t)
  BY <1>1, <1>4 DEF PageKept, TabFields
<1>5. ASSUME NEW modal, tabs' = [tabs EXCEPT ![t].modal = modal]
      PROVE  (\A u \in Tabs \ {t} : tabs'[u] = tabs[u]) /\ PageKept(t)
  BY <1>1, <1>5 DEF PageKept, TabFields
<1>6. QED BY <1>2, <1>3, <1>4, <1>5 DEF Touched

LEMMA SilentQuiet ==
  ASSUME DeskInvariant, QuietInvariant, NEW t \in Tabs, Gesture(t) \/ UNCHANGED desk,
         UNCHANGED <<rows, ids, net, served, crossed, last>>,
         \/ tabs' = [tabs EXCEPT ![t] = Null]
         \/ tabs[t] # Null /\ Touched(t, tabs')
  PROVE  QuietInvariant'
<1>1. PagesKept
  BY DEF Gesture, DeskInvariant, DeskTyped, PagesKept
<1>2. (\A u \in Tabs \ {t} : tabs'[u] = tabs[u]) /\ PageKept(t)
  BY TouchedKept DEF PageKept, DeskInvariant, TabsTyped
<1>3. PICK sent : sent = {}
  OBVIOUS
<1>4. PageStep(t, sent)
  BY <1>1, <1>2, <1>3 DEF PageStep
<1>5. QED BY <1>4, PageStepQuiet

LEMMA SentQuiet ==
  ASSUME DeskInvariant, QuietInvariant, NEW t \in Tabs, Gesture(t), tabs[t] # Null,
         Touched(t, tabs'), NEW q, Send(q), Ordinary(q, t),
         DOMAIN last' = DOMAIN last, \A item \in Items : last'[item] \in {last[item], Null}
  PROVE  QuietInvariant'
<1>1. PagesKept
  BY DEF Gesture, DeskInvariant, DeskTyped, PagesKept
<1>2. (\A u \in Tabs \ {t} : tabs'[u] = tabs[u]) /\ PageKept(t)
  BY TouchedKept
<1>3. PICK sent : sent = {q}
  OBVIOUS
<1>4. PageStep(t, sent)
  BY <1>1, <1>2, <1>3 DEF PageStep, Send, table
<1>5. QED BY <1>4, PageStepQuiet

LEMMA FormsQuiet ==
  ASSUME DeskInvariant, QuietInvariant, NEW t \in Tabs,
         SubmitNew(t) \/ SubmitEdit(t) \/ CompleteEdit(t) \/ DeleteEdit(t)
  PROVE  QuietInvariant'
<1>1. DOMAIN last = Items
  BY DEF QuietInvariant, InPlace, LastKnown
<1>2. ASSUME NEW op, NEW item, NEW body, NEW q, q = Request(t, op, item, body), tabs[t] # Null,
             tabs[t].page.at # "list"
      PROVE  /\ q.status = "sent" /\ q.tab = t /\ q.n = tabs[t].n /\ q.turn = 0
             /\ q.op = op /\ q.item = item /\ ~OnRollouts(t)
  BY <1>2, RequestIs DEF OnRollouts, At
<1>3. CASE SubmitNew(t)
  <2>1. PICK body : Send(Request(t, "create", CHOOSE item \in Free : TRUE, body))
    BY <1>3 DEF SubmitNew
  <2>2. PICK q : q = Request(t, "create", CHOOSE item \in Free : TRUE, body)
    OBVIOUS
  <2>3. /\ tabs[t] # Null /\ tabs[t].page.at = "new" /\ Gesture(t) /\ UNCHANGED last
        /\ Touched(t, tabs')
    BY <1>3 DEF SubmitNew, At, Touched
  <2>4. Ordinary(q, t) /\ Send(q)
    BY <1>2, <2>1, <2>2, <2>3 DEF Ordinary
  <2>5. QED BY <2>3, <2>4, SentQuiet
<1>4. CASE SubmitEdit(t)
  <2> DEFINE item == tabs[t].page.item
  <2>1. PICK body : Send(Request(t, "save", item, body))
    BY <1>4 DEF SubmitEdit
  <2>2. PICK q : q = Request(t, "save", item, body)
    OBVIOUS
  <2>3. /\ tabs[t] # Null /\ tabs[t].page.at = "edit" /\ Gesture(t) /\ At(t, "edit")
        /\ last' = [last EXCEPT ![item] = Null] /\ Touched(t, tabs')
    BY <1>4 DEF SubmitEdit, At, Touched
  <2>4. item \in Items
    BY <2>3 DEF DeskInvariant, TabsTyped, TabTyped, PageTyped
  <2> HIDE DEF item
  <2>5. Ordinary(q, t) /\ Send(q)
    BY <1>1, <1>2, <2>1, <2>2, <2>3, <2>4 DEF Ordinary
  <2>6. QED BY <1>1, <2>3, <2>5, SentQuiet
<1>5. CASE CompleteEdit(t) \/ DeleteEdit(t)
  <2>1. PICK op \in {"archive", "delete"} : \E body : Send(Request(t, op, tabs[t].page.item, body))
    BY <1>5 DEF CompleteEdit, DeleteEdit
  <2>2. PICK q : \E body : q = Request(t, op, tabs[t].page.item, body) /\ Send(q)
    BY <2>1
  <2>3. /\ tabs[t] # Null /\ tabs[t].page.at = "edit" /\ Gesture(t) /\ UNCHANGED last
        /\ Touched(t, tabs')
    BY <1>5 DEF CompleteEdit, DeleteEdit, At, Touched
  <2>4. Ordinary(q, t) /\ Send(q)
    BY <1>2, <2>2, <2>3 DEF Ordinary
  <2>5. QED BY <2>3, <2>4, SentQuiet
<1>6. QED BY <1>3, <1>4, <1>5

LEMMA MenusQuiet ==
  ASSUME DeskInvariant, QuietInvariant, NEW t \in Tabs, NEW item \in Items,
         \/ \E kind \in {"cancel", "complete"} : ArchiveListed(t, item, kind)
         \/ DeleteListed(t, item)
  PROVE  QuietInvariant'
<1>1. /\ tabs[t] # Null /\ Gesture(t) /\ UNCHANGED last /\ Touched(t, tabs')
  BY DEF ArchiveListed, DeleteListed, At, Touched
<1>2. PICK op, body : /\ Send(Request(t, op, item, body)) /\ op \in {"archive", "delete"}
                      /\ OnRollouts(t) => op = "archive"
  BY DEF ArchiveListed, DeleteListed, TestCards, OnRollouts
<1>3. PICK q : q = Request(t, op, item, body)
  OBVIOUS
<1>4. Ordinary(q, t) /\ Send(q)
  BY <1>1, <1>2, <1>3, RequestIs DEF Ordinary, OnRollouts
<1>5. QED BY <1>1, <1>4, SentQuiet

LEMMA DialogsQuiet ==
  ASSUME DeskInvariant, QuietInvariant, NEW t \in Tabs, Add(t) \/ SaveChanges(t)
  PROVE  QuietInvariant'
<1>1. tabs[t] # Null /\ tabs[t].page.at = "flag" /\ Gesture(t)
  BY DEF Add, SaveChanges, Modal, At
<1>2. PICK body : SaveEntry(t, body)
  BY DEF Add, SaveChanges
<1> DEFINE plain == Request(t, "assign", tabs[t].modal.item, body)
           copy == tabs[t].modal.copy[tabs[t].modal.item]
           entry == <<tabs[t].modal.env, tabs[t].page.flag>>
           q == [plain EXCEPT !.at = tabs[t].modal.at, !.copy = copy, !.entry = entry,
                              !.shown = tabs[t].modal.vals]
<1>3. UNCHANGED last /\ Send(q) /\ Touched(t, tabs')
  BY <1>2 DEF SaveEntry, Touched
<1>4. /\ DOMAIN plain = RequestFields
      /\ plain.tab = t /\ plain.n = tabs[t].n /\ plain.op = "assign" /\ plain.status = "sent"
      /\ plain.turn = 0
  BY <1>1, RequestIs
<1> HIDE DEF plain, copy, entry
<1>5. /\ q.tab = t /\ q.n = tabs[t].n /\ q.op = "assign" /\ q.status = "sent" /\ q.turn = 0
  BY <1>4 DEF RequestFields
<1> HIDE DEF q
<1>6. Ordinary(q, t)
  BY <1>1, <1>5 DEF Ordinary, OnRollouts, At
<1>7. QED BY <1>1, <1>3, <1>6, SentQuiet

LEMMA GesturesQuiet ==
  ASSUME DeskInvariant, QuietInvariant, NEW t \in Tabs,
         \/ Leave(t) \/ Type(t) \/ Cancel(t)
         \/ \E item \in Items : Select(t, item)
         \/ \E env \in Envs : ShowAssign(t, env) \/ \E item \in Items : ShowValues(t, env, item)
  PROVE  QuietInvariant'
<1>1. CASE Leave(t)
  <2>1. /\ tabs' = [tabs EXCEPT ![t] = Null] /\ UNCHANGED desk
        /\ UNCHANGED <<rows, ids, net, served, crossed, last>>
    BY <1>1 DEF Leave, table
  <2>2. QED BY <2>1, SilentQuiet
<1>2. CASE Type(t)
  <2>1. /\ tabs[t] # Null /\ Gesture(t) /\ Touched(t, tabs')
        /\ UNCHANGED <<rows, ids, net, served, crossed, last>>
    BY <1>2 DEF Type, table, Touched
  <2>2. QED BY <2>1, SilentQuiet
<1>3. CASE Cancel(t)
  <2>1. /\ tabs[t] # Null /\ UNCHANGED desk /\ Touched(t, tabs')
        /\ UNCHANGED <<rows, ids, net, served, crossed, last>>
    BY <1>3 DEF Cancel, table, Touched
  <2>2. QED BY <2>1, SilentQuiet
<1>4. ASSUME NEW item \in Items, Select(t, item) PROVE QuietInvariant'
  <2>1. /\ tabs[t] # Null /\ tabs[t].modal # Null /\ Gesture(t)
        /\ UNCHANGED <<rows, ids, net, served, crossed, last>>
    BY <1>4 DEF Select, table, Modal, At
  <2>2. PICK vals : tabs' = [tabs EXCEPT ![t].modal.item = item, ![t].modal.vals = vals]
    BY <1>4 DEF Select
  <2>3. /\ DOMAIN tabs = Tabs /\ DOMAIN tabs[t] = TabFields
    BY <2>1 DEF DeskInvariant, TabsTyped, TabTyped
  <2>4. tabs' = [tabs EXCEPT ![t].modal = [[tabs[t].modal EXCEPT !.item = item] EXCEPT !.vals = vals]]
    BY <2>2, <2>3 DEF TabFields
  <2>5. Touched(t, tabs')
    BY <2>4 DEF Touched
  <2>6. QED BY <2>1, <2>5, SilentQuiet
<1>5. ASSUME NEW env \in Envs, ShowAssign(t, env) \/ \E item \in Items : ShowValues(t, env, item)
      PROVE  QuietInvariant'
  <2>1. /\ tabs[t] # Null /\ Gesture(t) /\ Touched(t, tabs')
        /\ UNCHANGED <<rows, ids, net, served, crossed, last>>
    BY <1>5 DEF ShowAssign, ShowValues, table, At, Touched
  <2>2. QED BY <2>1, SilentQuiet
<1>6. QED BY <1>1, <1>2, <1>3, <1>4, <1>5

LEMMA SetValueQuiet ==
  ASSUME DeskInvariant, QuietInvariant, NEW t \in Tabs, NEW group, NEW value,
         SetValue(t, group, value)
  PROVE  QuietInvariant'
<1>1. /\ tabs[t] # Null /\ tabs[t].modal # Null /\ Gesture(t)
      /\ UNCHANGED <<rows, ids, net, served, crossed, last>>
      /\ tabs' = [tabs EXCEPT ![t].modal.vals[group] = value]
  BY DEF SetValue, table
<1>2. /\ DOMAIN tabs = Tabs /\ DOMAIN tabs[t] = TabFields
  BY <1>1 DEF DeskInvariant, TabsTyped, TabTyped
<1>3. tabs' = [tabs EXCEPT ![t].modal = [tabs[t].modal EXCEPT !.vals[group] = value]]
  BY <1>1, <1>2 DEF TabFields
<1>4. Touched(t, tabs')
  BY <1>3 DEF Touched
<1>5. QED BY <1>1, <1>4, SilentQuiet

LEMMA InitQuiet ==
  Init => QuietInvariant
<1> SUFFICES ASSUME Init PROVE QuietInvariant
  OBVIOUS
<1>1. /\ tabs = [t \in Tabs |-> Null] /\ net = {} /\ served = 0
      /\ last = [item \in Items |-> Null]
  BY DEF Init
<1>2. InPlace
  BY <1>1 DEF InPlace, Placed, OneRelease, Turns, LastKnown, IdleTabs
<1>3. SlidersKept
  BY <1>1 DEF SlidersKept
<1>4. \A t \in Tabs : ListShown(t)
  BY <1>1 DEF ListShown, OnRollouts, At
<1>5. QED BY <1>2, <1>3, <1>4 DEF QuietInvariant

LEMMA StepQuiet ==
  DeskInvariant /\ QuietInvariant /\ [Next]_vars => QuietInvariant'
<1> SUFFICES ASSUME DeskInvariant, QuietInvariant, [Next]_vars PROVE QuietInvariant'
  OBVIOUS
<1>1. ASSUME NEW t \in Tabs, NEW page \in desk[t].pages, Open(t, page)
      PROVE  QuietInvariant'
  BY <1>1, OpenQuiet
<1>2. ASSUME NEW t \in Tabs,
             \/ Leave(t) \/ Type(t) \/ Cancel(t)
             \/ \E item \in Items : Select(t, item)
             \/ \E env \in Envs : ShowAssign(t, env) \/ \E item \in Items : ShowValues(t, env, item)
      PROVE  QuietInvariant'
  BY <1>2, GesturesQuiet
<1>3. ASSUME NEW t \in Tabs, SubmitNew(t) \/ SubmitEdit(t) \/ CompleteEdit(t) \/ DeleteEdit(t)
      PROVE  QuietInvariant'
  BY <1>3, FormsQuiet
<1>4. ASSUME NEW t \in Tabs, NEW item \in Items,
             \/ \E kind \in {"cancel", "complete"} : ArchiveListed(t, item, kind)
             \/ DeleteListed(t, item)
             \/ \E n \in Numbers \cap 0 .. 100 : Drag(t, item, n)
      PROVE  QuietInvariant'
  BY <1>4, MenusQuiet, DragQuiet
<1>5. ASSUME NEW t \in Tabs, Add(t) \/ SaveChanges(t)
      PROVE  QuietInvariant'
  BY <1>5, DialogsQuiet
<1>6. ASSUME NEW t \in Tabs,
             \E group \in DOMAIN tabs[t].modal.vals, value \in FlagValues : SetValue(t, group, value)
      PROVE  QuietInvariant'
  BY <1>6, SetValueQuiet
<1>7. ASSUME NEW q \in net, Serve(q) \/ Lose(q) \/ Answer(q)
      PROVE  QuietInvariant'
  BY <1>7, ServeQuiet, LoseQuiet, AnswerQuiet
<1>8. CASE UNCHANGED vars
  <2>1. UNCHANGED <<rows, ids, tabs, net, desk, served, crossed, last>>
    BY <1>8 DEF vars, table
  <2>2. \A q : There(q)' <=> There(q)
    BY <2>1 DEF There
  <2>3. \A t, at : (At(t, at)' <=> At(t, at)) /\ (OnRollouts(t)' <=> OnRollouts(t))
    BY <2>1 DEF At, OnRollouts
  <2>4. InPlace'
    BY <2>1, <2>2, <2>3 DEF QuietInvariant, InPlace, Placed, OneRelease, Turns, LastKnown, IdleTabs
  <2>5. \A t \in Tabs : Alone(t)' /\ Calm' => SlidersKept /\ ListShown(t)
    BY <2>1, <2>2 DEF QuietInvariant, Alone, Calm
  <2>6. SlidersKept => SlidersKept'
    BY <2>1 DEF SlidersKept, Releasing
  <2>7. \A t, item : Unheard(t, item)' = Unheard(t, item)
    BY <2>1, <2>2 DEF Unheard
  <2>8. \A t \in Tabs : ListShown(t) => ListShown(t)'
    BY <2>1, <2>3, <2>7 DEF ListShown, RowShown, Releasing
  <2>9. QED BY <2>4, <2>5, <2>6, <2>8 DEF QuietInvariant
<1>9. QED BY <1>1, <1>2, <1>3, <1>4, <1>5, <1>6, <1>7, <1>8 DEF Next

\* Once everything a lone administrator did has been answered, in order and to the page it
\* came from, the list of rollouts shows every row as it is stored, and every running
\* rollout is where its slider was last released, unless its form was submitted since.
THEOREM QuietListsAreTrue ==
  Spec => []QuietListIsTrue
<1>1. ASSUME QuietInvariant PROVE QuietListIsTrue
  <2>1. SUFFICES ASSUME NEW t \in Tabs, OnRollouts(t), Alone(t), net = {}, ~crossed,
                        NEW item \in Listed(t)
                 PROVE  /\ rows[item] = tabs[t].copy[item]
                        /\ last[item] # Null /\ ~rows[item].archived =>
                             rows[item].percentage = last[item]
    BY DEF QuietListIsTrue, OnRollouts
  <2>2. SlidersKept /\ ListShown(t) /\ ~Releasing(item)
    BY <1>1, <2>1 DEF QuietInvariant, Calm, Releasing
  <2>3. Unheard(t, item) = {}
    BY <2>1 DEF Unheard
  <2>4. item \in Items /\ tabs[t].copy[item] # Null
    BY DEF Listed
  <2>5. tabs[t].copy[item] = rows[item]
    BY <2>1, <2>2, <2>3, <2>4 DEF ListShown, RowShown
  <2>6. QED BY <2>2, <2>4, <2>5 DEF SlidersKept
<1>2. QED BY <1>1, DeskIsSound, InitQuiet, StepQuiet, PTL DEF Spec

=============================================================================
