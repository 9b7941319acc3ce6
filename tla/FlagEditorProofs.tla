--------------------------- MODULE FlagEditorProofs ---------------------------
(***************************************************************************)
(* Theorems about FlagEditor, for any flags, tabs, gestures, failures and  *)
(* releases: what is true of the rows, the pages and the requests, what    *)
(* a request may change, and what an administrator alone can rely on.      *)
(***************************************************************************)
EXTENDS FlagEditor, TLAPS

ValueTypes == {"bool", "string", "int", "double", "date", "json"}

FormFields == {"mode", "key", "name", "type", "notes", "defaults", "locked"}

\* A form whose defaults its type can process.
Whole(form) ==
  /\ DOMAIN form = FormFields
  /\ form.type \in ValueTypes
  /\ DOMAIN form.defaults = Envs
  /\ form.type \in {"string", "date"} => \A env \in Envs : Kind(form.defaults[env]) = "string"

\* What a request may ask of a row.
Fits(body) ==
  /\ DOMAIN body \subseteq RowFields
  /\ "type" \in DOMAIN body <=> "defaults" \in DOMAIN body
  /\ "type" \in DOMAIN body =>
       body.type \in ValueTypes /\ DOMAIN body.defaults = Envs /\ \A env \in Envs : OfType(body.defaults[env], body.type)
  /\ "variants" \in DOMAIN body => ListsOfVariants(body.variants)

PayloadFields == {"key", "name", "type", "notes", "defaults"}

LEMMA NewFlagIsWhole == Whole(NewFlag)
  BY DEF NewFlag, Whole, FormFields, ValueTypes

LEMMA EditFlagIsWhole ==
  ASSUME NEW row, WellFormed(row)
  PROVE  Whole(EditFlag(row))
  BY DEF EditFlag, Whole, FormFields, ValueTypes, WellFormed, OfType, KindOf

LEMMA UpdatedFields ==
  ASSUME NEW row, NEW body, DOMAIN row = RowFields, DOMAIN body \subseteq RowFields
  PROVE  /\ DOMAIN Updated(row, body) = RowFields
         /\ \A field \in DOMAIN body : Updated(row, body)[field] = body[field]
         /\ \A field \in RowFields \ (DOMAIN body \cup {"released"}) :
              Updated(row, body)[field] = row[field]
  BY DEF Updated, Spread, RowFields

LEMMA UpdatedIsWellFormed ==
  ASSUME NEW row, NEW body, WellFormed(row), Fits(body)
  PROVE  WellFormed(Updated(row, body))
  <1>1. /\ DOMAIN Updated(row, body) = RowFields
        /\ \A field \in DOMAIN body : Updated(row, body)[field] = body[field]
        /\ \A field \in RowFields \ (DOMAIN body \cup {"released"}) :
              Updated(row, body)[field] = row[field]
    BY UpdatedFields DEF WellFormed, Fits
  <1>2. "type" \in RowFields /\ "defaults" \in RowFields /\ "variants" \in RowFields
    BY DEF RowFields
  <1> QED BY <1>1, <1>2 DEF WellFormed, Fits, ValueTypes

LEMMA CreatedIsWellFormed ==
  ASSUME NEW body, DOMAIN body = PayloadFields, Fits(body)
  PROVE  WellFormed(Created(body)) /\ \A field \in PayloadFields : Created(body)[field] = body[field]
  <1>1. /\ DOMAIN Created(body) = RowFields
        /\ \A field \in PayloadFields : Created(body)[field] = body[field]
        /\ Created(body).variants = [env \in Envs |-> <<>>]
    BY DEF Created, Spread, PayloadFields, RowFields
  <1>2. ListsOfVariants([env \in Envs |-> <<>>])
    BY DEF ListsOfVariants
  <1> QED BY <1>1, <1>2 DEF WellFormed, Fits, ValueTypes, PayloadFields

LEMMA PayloadFits ==
  ASSUME NEW form, NEW initial, Whole(form)
  PROVE  LET payload == FlagPayload(form)
             panel == FlagPanel(form, initial)
         IN  /\ DOMAIN payload = PayloadFields /\ Fits(payload)
             /\ payload.key = panel.key /\ payload.type = panel.type /\ payload.defaults = panel.defaults
  <1>1. ASSUME NEW env \in Envs
        PROVE  OfType(ProcessValueForType(form.defaults[env], form.type), form.type)
    BY <1>1, FlagFormAssumption
    DEF Whole, OfType, ProcessValueForType, KindOf, Kind, Text, Value, ParseInt, ValueTypes
  <1> QED BY <1>1 DEF FlagPayload, FlagPanel, Processed, Fits, PayloadFields, RowFields, Whole

LEMMA SectionsStayWhole ==
  ASSUME NEW form, Whole(form), NEW section \in DOMAIN FlagSections(form),
         NEW next \in FlagSections(form)[section]
  PROVE  Whole(next)
  <1>1. CASE next \in FlagNameSection(form)
    BY <1>1 DEF FlagNameSection, Whole, FormFields
  <1>2. CASE next \in FlagNotesSection(form)
    BY <1>2 DEF FlagNotesSection, Whole, FormFields
  <1>3. CASE next \in TypeSection(form)
    <2>1. PICK type \in FlagTypes : next = SetTypeAndReset(form, type)
      BY <1>3 DEF TypeSection
    <2>2. type \in {"string", "date"} => Kind(GetDefaultValueForType(type)) = "string"
      BY DEF GetDefaultValueForType, Kind, Value
    <2> QED BY <2>1, <2>2, FlagFormAssumption DEF SetTypeAndReset, Whole, FormFields, ValueTypes
  <1>4. CASE next \in DefaultsSection(form)
    <2>1. PICK env \in Envs, value \in FlagValueInput(form.type) :
            next = [form EXCEPT !.defaults[env] = value]
      BY <1>4 DEF DefaultsSection
    <2>2. form.type \in {"string", "date"} => Kind(value) = "string"
      BY DEF FlagValueInput, Kind, Value
    <2> QED BY <2>1, <2>2 DEF Whole, FormFields
  <1> QED BY <1>1, <1>2, <1>3, <1>4 DEF FlagSections

LEMMA StoredAre ==
  ASSUME NEW row, NEW held
  PROVE  held \in Stored(row) <=>
           \E env \in Envs : \E i \in DOMAIN row.variants[env] : held = <<env, row.variants[env][i]>>
  <1> DEFINE Column(env) == {<<env, v>> : v \in Range(row.variants[env])}
  <1>1. Stored(row) = UNION {Column(env) : env \in Envs}
    BY DEF Stored
  <1>2. ASSUME NEW env
        PROVE  held \in Column(env) <=> \E i \in DOMAIN row.variants[env] : held = <<env, row.variants[env][i]>>
    <2> DEFINE list == row.variants[env]
    <2>1. \A v : v \in Range(list) <=> \E i \in DOMAIN list : v = list[i]
      BY DEF Range
    <2> HIDE DEF list
    <2>2. held \in {<<env, v>> : v \in Range(list)} <=> \E i \in DOMAIN list : held = <<env, list[i]>>
      BY <2>1
    <2> QED BY <2>2 DEF list
  <1> HIDE DEF Column
  <1>3. held \in Stored(row) <=> \E env \in Envs : held \in Column(env)
    BY <1>1
  <1> QED BY <1>2, <1>3

LEMMA VariantsAre ==
  ASSUME NEW row, NEW variant
  PROVE  variant \in Variants(row) <=>
           \E env \in Envs : \E i \in DOMAIN row.variants[env] :
             variant = <<env, row.variants[env][i].id>>
  <1>1. variant \in Variants(row) <=> \E held \in Stored(row) : variant = <<held[1], held[2].id>>
    BY DEF Variants
  <1>3. ASSUME NEW held
        PROVE  held \in Stored(row) <=>
                 \E env \in Envs : \E i \in DOMAIN row.variants[env] : held = <<env, row.variants[env][i]>>
    BY StoredAre
  <1>4. ASSUME NEW held \in Stored(row), variant = <<held[1], held[2].id>>
        PROVE  \E env \in Envs : \E i \in DOMAIN row.variants[env] :
                 variant = <<env, row.variants[env][i].id>>
    <2>1. PICK env \in Envs : \E i \in DOMAIN row.variants[env] : held = <<env, row.variants[env][i]>>
      BY <1>3
    <2>2. PICK i \in DOMAIN row.variants[env] : held = <<env, row.variants[env][i]>>
      BY <2>1
    <2>3. held[1] = env /\ held[2] = row.variants[env][i]
      BY <2>2
    <2> QED BY <1>4, <2>3
  <1>5. ASSUME NEW env \in Envs, NEW i, i \in DOMAIN row.variants[env],
               variant = <<env, row.variants[env][i].id>>
        PROVE  \E held \in Stored(row) : variant = <<held[1], held[2].id>>
    <2> DEFINE held == <<env, row.variants[env][i]>>
    <2>1. held \in Stored(row)
      BY <1>3, <1>5
    <2>2. held[1] = env /\ held[2] = row.variants[env][i]
      OBVIOUS
    <2> QED BY <1>5, <2>1, <2>2
  <1> QED BY <1>1, <1>4, <1>5

\* Rows with the same lists have the same variants.
LEMMA SameVariants ==
  ASSUME NEW row, NEW other, row.variants = other.variants
  PROVE  Variants(row) = Variants(other)
  BY DEF Variants, Stored

\* Of the three edits of a list, only the removal loses an identifier, the one it names.
Kept(old, new, replaced) ==
  \A variant \in Variants(old) : variant \in Variants(new) \/ replaced = variant[2]

Edited(copy, env, list) == [variants |-> [copy.variants EXCEPT ![env] = list]]

LEMMA EditedKeeps ==
  ASSUME NEW copy, ListsOfVariants(copy.variants), NEW env \in Envs, NEW list, NEW replaced,
         list \in Seq(Range(list)),
         \A i \in DOMAIN copy.variants[env] :
           \/ replaced = copy.variants[env][i].id
           \/ \E j \in DOMAIN list : list[j].id = copy.variants[env][i].id
  PROVE  ListsOfVariants(Edited(copy, env, list).variants) /\ Kept(copy, Edited(copy, env, list), replaced)
  <1> DEFINE edited == Edited(copy, env, list)
  <1>1. edited.variants = [copy.variants EXCEPT ![env] = list]
    BY DEF Edited
  <1>2. ListsOfVariants(edited.variants)
    BY <1>1 DEF ListsOfVariants
  <1>3. ASSUME NEW variant \in Variants(copy), replaced # variant[2]
        PROVE  variant \in Variants(edited)
    <2>1. PICK e \in Envs : \E i \in DOMAIN copy.variants[e] : variant = <<e, copy.variants[e][i].id>>
      BY VariantsAre
    <2>2. PICK i \in DOMAIN copy.variants[e] : variant = <<e, copy.variants[e][i].id>>
      BY <2>1
    <2>3. CASE e = env
      <3>1. PICK j \in DOMAIN list : list[j].id = copy.variants[env][i].id
        BY <1>3, <2>2, <2>3
      <3>2. edited.variants[e] = list
        BY <1>1, <2>3 DEF ListsOfVariants
      <3> QED BY <2>2, <2>3, <3>1, <3>2, VariantsAre
    <2>4. CASE e # env
      <3>1. edited.variants[e] = copy.variants[e]
        BY <1>1, <2>4 DEF ListsOfVariants
      <3> QED BY <2>2, <3>1, VariantsAre
    <2> QED BY <2>3, <2>4
  <1> QED BY <1>2, <1>3 DEF Kept

LEMMA IsList ==
  ASSUME NEW S, NEW s \in Seq(S)
  PROVE  s \in Seq(Range(s))
  <1>1. \A i \in 1 .. Len(s) : s[i] \in Range(s)
    BY DEF Range
  <1> QED BY <1>1

LEMMA AppendKeeps ==
  ASSUME NEW old, old \in Seq(Range(old)), NEW new
  PROVE  /\ Append(old, new) \in Seq(Range(Append(old, new)))
         /\ \A i \in DOMAIN old : \E j \in DOMAIN Append(old, new) : Append(old, new)[j].id = old[i].id
  <1>1. old \in Seq(Range(old) \cup {new})
    BY IsList
  <1>2. Append(old, new) \in Seq(Range(old) \cup {new})
    BY <1>1
  <1>3. \A i \in DOMAIN old : i \in DOMAIN Append(old, new) /\ Append(old, new)[i] = old[i]
    BY <1>1
  <1> QED BY <1>2, <1>3, IsList

Replaced(old, variant) == [i \in DOMAIN old |-> IF old[i].id = variant.id THEN variant ELSE old[i]]

LEMMA ReplaceKeeps ==
  ASSUME NEW old, old \in Seq(Range(old)), NEW variant
  PROVE  /\ Replaced(old, variant) \in Seq(Range(Replaced(old, variant)))
         /\ \A i \in DOMAIN old :
              \E j \in DOMAIN Replaced(old, variant) : Replaced(old, variant)[j].id = old[i].id
  <1> DEFINE list == [i \in DOMAIN old |-> IF old[i].id = variant.id THEN variant ELSE old[i]]
  <1>1. DOMAIN old = 1 .. Len(old) /\ Len(old) \in Nat
    OBVIOUS
  <1>2. list \in Seq(Range(old) \cup {variant})
    <2>1. \A i \in 1 .. Len(old) : list[i] \in Range(old) \cup {variant}
      BY <1>1 DEF Range
    <2> QED BY <1>1, <2>1
  <1>3. \A i \in DOMAIN old : i \in DOMAIN list /\ list[i].id = old[i].id
    OBVIOUS
  <1>4. Replaced(old, variant) = list
    BY DEF Replaced
  <1> QED BY <1>2, <1>3, <1>4, IsList

LEMMA RemoveAtIs ==
  ASSUME NEW old, old \in Seq(Range(old)), NEW k \in DOMAIN old
  PROVE  /\ DOMAIN old = 1 .. Len(old) /\ Len(old) \in Nat /\ k \in 1 .. Len(old)
         /\ RemoveAt(old, k) \in Seq(Range(old)) /\ DOMAIN RemoveAt(old, k) = 1 .. Len(old) - 1
         /\ \A i \in 1 .. k - 1 : RemoveAt(old, k)[i] = old[i]
         /\ \A i \in k .. Len(old) - 1 : RemoveAt(old, k)[i] = old[i + 1]
  <1> DEFINE front == SubSeq(old, 1, k - 1)
             back == SubSeq(old, k + 1, Len(old))
  <1>1. DOMAIN old = 1 .. Len(old) /\ Len(old) \in Nat /\ k \in 1 .. Len(old)
    OBVIOUS
  <1>2. /\ front \in Seq(Range(old)) /\ Len(front) = k - 1
        /\ \A i \in 1 .. k - 1 : front[i] = old[i]
    BY <1>1
  <1>3. /\ back \in Seq(Range(old)) /\ Len(back) = Len(old) - k
        /\ \A i \in 1 .. Len(old) - k : back[i] = old[i + k]
    BY <1>1
  <1>4. RemoveAt(old, k) = front \o back
    BY DEF RemoveAt
  <1>5. /\ RemoveAt(old, k) \in Seq(Range(old)) /\ Len(RemoveAt(old, k)) = Len(old) - 1
        /\ \A i \in 1 .. k - 1 : RemoveAt(old, k)[i] = old[i]
        /\ \A i \in k .. Len(old) - 1 : RemoveAt(old, k)[i] = old[i + 1]
    <2> HIDE DEF front, back
    <2>0. front \o back \in Seq(Range(old))
      BY <1>2, <1>3
    <2>1. Len(front \o back) = Len(old) - 1
      <3>1. Len(front \o back) = Len(front) + Len(back)
        <4>1. \A a, b : a \in Seq(Range(old)) /\ b \in Seq(Range(old)) => Len(a \o b) = Len(a) + Len(b)
          OBVIOUS
        <4> QED BY <4>1, <1>2, <1>3
      <3> QED BY <1>1, <1>2, <1>3, <3>1
    <2>2. \A i \in 1 .. k - 1 : (front \o back)[i] = old[i]
      BY <1>1, <1>2, <1>3
    <2>3. ASSUME NEW i \in k .. Len(old) - 1 PROVE (front \o back)[i] = old[i + 1]
      <3>1. (front \o back)[i] = back[i - (k - 1)]
        BY <1>1, <1>2, <1>3
      <3> QED BY <1>1, <1>3, <3>1
    <2> QED BY <1>4, <2>0, <2>1, <2>2, <2>3
  <1> QED BY <1>1, <1>5

LEMMA RemoveKeeps ==
  ASSUME NEW old, old \in Seq(Range(old)), NEW k \in DOMAIN old
  PROVE  /\ RemoveAt(old, k) \in Seq(Range(RemoveAt(old, k)))
         /\ \A i \in DOMAIN old :
              \/ old[k].id = old[i].id
              \/ \E j \in DOMAIN RemoveAt(old, k) : RemoveAt(old, k)[j].id = old[i].id
  <1>1. DOMAIN old = 1 .. Len(old) /\ Len(old) \in Nat /\ k \in 1 .. Len(old)
    BY RemoveAtIs
  <1>5. /\ RemoveAt(old, k) \in Seq(Range(old)) /\ DOMAIN RemoveAt(old, k) = 1 .. Len(old) - 1
        /\ \A i \in 1 .. k - 1 : RemoveAt(old, k)[i] = old[i]
        /\ \A i \in k .. Len(old) - 1 : RemoveAt(old, k)[i] = old[i + 1]
    BY RemoveAtIs
  <1>6. ASSUME NEW i \in DOMAIN old, i # k
        PROVE  \E j \in DOMAIN RemoveAt(old, k) : RemoveAt(old, k)[j] = old[i]
    <2>1. CASE i < k
      <3>1. i \in DOMAIN RemoveAt(old, k) /\ RemoveAt(old, k)[i] = old[i]
        BY <1>1, <1>5, <2>1
      <3> QED BY <3>1
    <2>2. CASE i > k
      <3>1. i - 1 \in DOMAIN RemoveAt(old, k) /\ RemoveAt(old, k)[i - 1] = old[i]
        BY <1>1, <1>5, <2>2
      <3> QED BY <3>1
    <2> QED BY <1>1, <1>6, <2>1, <2>2
  <1> QED BY <1>5, <1>6, IsList

-----------------------------------------------------------------------------
(* What holds of the rows, the pages and the requests in every state. *)

RequestFields ==
  {"tab", "n", "id", "at", "op", "item", "body", "copy", "replaced", "closes",
   "shown", "status", "reply"}

Writes == {"create", "save", "toggle", "variants"}

Previewed == {"key", "type", "defaults"}

\* A request asks for what its page showed, and was answered with a whole row.
Meant(q) ==
  /\ DOMAIN q = RequestFields /\ q.tab \in Tabs /\ q.n \in Nat /\ q.status \in {"sent", "applied"}
  /\ q.op \in Writes \cup {"delete", "load"}
  /\ q.op # "create" => q.item \in Items
  /\ q.op \in Writes => Fits(q.body)
  /\ q.op = "create" => DOMAIN q.body = PayloadFields
  /\ q.op \in {"create", "save"} =>
       \A field \in Previewed : field \in DOMAIN q.body /\ q.body[field] = q.shown[field]
  /\ q.op = "save" => "variants" \in DOMAIN q.body /\ q.body.variants = q.copy.variants
  /\ q.op = "toggle" => q.body = [archived |-> ~q.copy.archived]
  /\ q.op = "variants" => DOMAIN q.body = {"variants"} /\ Kept(q.copy, q.body, q.replaced)
  /\ q.at = "flags" /\ q.op = "toggle" =>
       q.copy # Null /\ Menu(q.copy) \cap {"archive", "unarchive"} # {}
  /\ q.at = "flags" /\ q.op = "delete" => q.copy # Null /\ "delete" \in Menu(q.copy)
  /\ q.status = "applied" /\ q.reply # Refused =>
       /\ q.op # "delete" => WellFormed(q.reply)
       /\ q.op \in {"create", "save"} => \A field \in Previewed : q.reply[field] = q.shown[field]

TabFields == {"page", "n", "copy", "form", "initial", "modal", "saving", "loading"}

SoundTab(tab) ==
  /\ DOMAIN tab = TabFields /\ tab.page \in Pages /\ tab.n \in Nat
  /\ DOMAIN tab.copy = Items
  /\ \A item \in Items : tab.copy[item] = Null \/ WellFormed(tab.copy[item])
  /\ tab.page.at \in {"new", "edit"} => Whole(tab.form)
  /\ tab.page.at = "edit" => WellFormed(tab.copy[tab.page.item])
  /\ tab.modal # Null =>
       /\ DOMAIN tab.modal = {"item", "env", "old", "edit"}
       /\ tab.modal.item \in Items /\ tab.modal.env \in Envs
       /\ WellFormed(tab.copy[tab.modal.item])

RowsSound == DOMAIN rows = Items /\ \A item \in Items : rows[item] = Null \/ WellFormed(rows[item])

DeskSound ==
  /\ DOMAIN desk = Tabs
  /\ \A t \in Tabs : /\ DOMAIN desk[t] = {"pages", "sections", "gestures", "opens"}
                     /\ desk[t].pages \subseteq Pages /\ desk[t].opens \in Nat /\ desk[t].gestures \in Nat

\* A page's number is used up.
TabsSound ==
  /\ DOMAIN tabs = Tabs
  /\ \A t \in Tabs : tabs[t] = Null \/ (SoundTab(tabs[t]) /\ tabs[t].n > desk[t].opens)

Placed(q) ==
  /\ q.n > desk[q.tab].opens
  /\ q.op = "variants" /\ There(q) => WellFormed(tabs[q.tab].copy[q.item])

NetSound == \A q \in net : Meant(q) /\ Placed(q)

EditorInvariant == RowsSound /\ DeskSound /\ TabsSound /\ NetSound

\* A page is left, worked on or opened.
Follows(t) ==
  \/ tabs'[t] = Null /\ desk'[t].opens = desk[t].opens
  \/ /\ tabs[t] # Null /\ SoundTab(tabs'[t])
     /\ tabs'[t].n = tabs[t].n /\ desk'[t].opens = desk[t].opens
     /\ \A item \in Items : WellFormed(tabs[t].copy[item]) => WellFormed(tabs'[t].copy[item])
  \/ /\ SoundTab(tabs'[t])
     /\ tabs'[t].n = desk[t].opens /\ desk'[t].opens = desk[t].opens - 1

LEMMA Following ==
  ASSUME EditorInvariant, DeskSound', DOMAIN tabs' = Tabs, \A t \in Tabs : Follows(t)
  PROVE  TabsSound' /\ \A q : Meant(q) /\ Placed(q) => Placed(q)'
  <1>1. ASSUME NEW t \in Tabs
        PROVE  tabs'[t] = Null \/ (SoundTab(tabs'[t]) /\ tabs'[t].n > desk'[t].opens)
    BY DEF EditorInvariant, Follows, TabsSound, DeskSound
  <1>2. ASSUME NEW q, Meant(q), Placed(q)
        PROVE  Placed(q)'
    <2>1. q.tab \in Tabs /\ q.n \in Nat /\ (q.op = "variants" => q.item \in Items)
      BY <1>2 DEF Meant
    <2>2. desk'[q.tab].opens <= desk[q.tab].opens /\ desk[q.tab].opens \in Nat /\ desk'[q.tab].opens \in Nat
      BY <2>1 DEF EditorInvariant, Follows, DeskSound
    <2>3. There(q)' => There(q) /\ \A item \in Items :
            WellFormed(tabs[q.tab].copy[item]) => WellFormed(tabs'[q.tab].copy[item])
      BY <1>2, <2>1, <2>2 DEF Follows, There, Placed
    <2> QED BY <1>2, <2>1, <2>2, <2>3 DEF Placed
  <1> QED BY <1>1, <1>2 DEF TabsSound

LEMMA SameDesk ==
  ASSUME EditorInvariant, UNCHANGED desk
  PROVE  DeskSound' /\ \A t \in Tabs : desk'[t].opens = desk[t].opens
  BY DEF EditorInvariant, DeskSound

LEMMA Gesturing ==
  ASSUME EditorInvariant, NEW t \in Tabs, Gesture(t)
  PROVE  DeskSound' /\ \A u \in Tabs : desk'[u].opens = desk[u].opens
  BY DEF EditorInvariant, DeskSound, Gesture

\* One page changes, keeps its number and forgets no row.
LEMMA Working ==
  ASSUME EditorInvariant, \A u \in Tabs : desk'[u].opens = desk[u].opens,
         NEW t \in Tabs, tabs[t] # Null, NEW tab, tabs' = [tabs EXCEPT ![t] = tab],
         SoundTab(tab), tab.n = tabs[t].n,
         \A item \in Items : WellFormed(tabs[t].copy[item]) => WellFormed(tab.copy[item])
  PROVE  DOMAIN tabs' = Tabs /\ \A u \in Tabs : Follows(u)
  BY DEF EditorInvariant, TabsSound, Follows

LEMMA Leaving ==
  ASSUME EditorInvariant, \A u \in Tabs : desk'[u].opens = desk[u].opens,
         NEW t \in Tabs, tabs' = [tabs EXCEPT ![t] = Null]
  PROVE  DOMAIN tabs' = Tabs /\ \A u \in Tabs : Follows(u)
  BY DEF EditorInvariant, TabsSound, Follows

LEMMA Resting ==
  ASSUME EditorInvariant, \A u \in Tabs : desk'[u].opens = desk[u].opens, UNCHANGED tabs
  PROVE  DOMAIN tabs' = Tabs /\ \A u \in Tabs : Follows(u)
  BY DEF EditorInvariant, TabsSound, Follows

LEMMA Quiet ==
  ASSUME EditorInvariant, RowsSound', DeskSound', DOMAIN tabs' = Tabs, \A t \in Tabs : Follows(t),
         net' \subseteq net
  PROVE  EditorInvariant'
  BY Following DEF EditorInvariant, NetSound

LEMMA Requesting ==
  ASSUME EditorInvariant, RowsSound', DeskSound', DOMAIN tabs' = Tabs, \A t \in Tabs : Follows(t),
         NEW q, net' \subseteq net \cup {q}, Meant(q), Placed(q)
  PROVE  EditorInvariant'
  BY Following DEF EditorInvariant, NetSound

LEMMA RequestIs ==
  ASSUME NEW t, NEW op, NEW item, NEW body
  PROVE  LET q == Request(t, op, item, body)
         IN  /\ DOMAIN q = RequestFields
             /\ q.tab = t /\ q.n = tabs[t].n /\ q.at = tabs[t].page.at
             /\ q.op = op /\ q.item = item /\ q.body = body
             /\ op # "create" => q.copy = tabs[t].copy[item]
             /\ tabs[t].page.at # "flags" => q.shown = FlagPanel(tabs[t].form, tabs[t].initial)
             /\ q.status = "sent"
  BY DEF Request, RequestFields

LEMMA TabAt ==
  ASSUME EditorInvariant, NEW t \in Tabs, tabs[t] # Null
  PROVE  /\ SoundTab(tabs[t]) /\ tabs[t].n > desk[t].opens
         /\ tabs[t].page.at \in {"new", "edit", "flags"}
         /\ tabs[t].page.at = "edit" => tabs[t].page.item \in Items
  BY DEF EditorInvariant, TabsSound, SoundTab, Pages, Page

-----------------------------------------------------------------------------
(* The steps. *)

LEMMA OpenKeeps ==
  ASSUME EditorInvariant, NEW t \in Tabs, NEW page \in desk[t].pages, Open(t, page)
  PROVE  EditorInvariant'
  <1>1. page \in Pages /\ desk[t].opens \in Nat /\ DOMAIN tabs = Tabs
    BY DEF EditorInvariant, DeskSound, TabsSound
  <1>2. PICK form : /\ tabs' = [tabs EXCEPT ![t] =
                         [page |-> page, n |-> desk[t].opens, copy |-> rows, form |-> form, initial |-> form,
                          modal |-> Null, saving |-> FALSE, loading |-> FALSE]]
                    /\ page.at = "new" => form = NewFlag
                    /\ page.at = "edit" => form = EditFlag(rows[page.item])
    BY DEF Open
  <1>3. page.at = "edit" => page.item \in Items /\ WellFormed(rows[page.item])
    BY <1>1 DEF Open, Pages, Page, EditorInvariant, RowsSound
  <1>4. page.at \in {"new", "edit"} => Whole(form)
    BY <1>2, <1>3, NewFlagIsWhole, EditFlagIsWhole
  <1>5. SoundTab(tabs'[t]) /\ tabs'[t].n = desk[t].opens
    BY <1>1, <1>2, <1>3, <1>4 DEF SoundTab, TabFields, EditorInvariant, RowsSound
  <1>6. /\ DeskSound' /\ desk'[t].opens = desk[t].opens - 1
        /\ \A u \in Tabs \ {t} : desk'[u].opens = desk[u].opens
    BY DEF Open, EditorInvariant, DeskSound
  <1>7. \A u \in Tabs \ {t} : Follows(u)
    BY <1>1, <1>2, <1>6 DEF Follows, EditorInvariant, TabsSound
  <1>8. Follows(t)
    BY <1>5, <1>6 DEF Follows
  <1>9. DOMAIN tabs' = Tabs
    BY <1>1, <1>2
  <1> QED
    BY <1>6, <1>7, <1>8, <1>9, Quiet DEF Open, EditorInvariant, RowsSound

LEMMA LeaveKeeps ==
  ASSUME EditorInvariant, NEW t \in Tabs, Leave(t)
  PROVE  EditorInvariant'
  BY SameDesk, Leaving, Quiet DEF Leave, EditorInvariant, RowsSound

LEMMA TypeKeeps ==
  ASSUME EditorInvariant, NEW t \in Tabs, Type(t)
  PROVE  EditorInvariant'
  <1>1. tabs[t] # Null /\ tabs[t].page.at \in {"new", "edit"} /\ Gesture(t)
    BY DEF Type, At
  <1>2. SoundTab(tabs[t])
    BY <1>1, TabAt
  <1>3. PICK form : /\ \E section \in DOMAIN FlagSections(tabs[t].form) :
                         form \in FlagSections(tabs[t].form)[section]
                    /\ tabs' = [tabs EXCEPT ![t].form = form]
    BY DEF Type
  <1>4. Whole(form)
    BY <1>1, <1>2, <1>3, SectionsStayWhole DEF SoundTab
  <1> DEFINE tab == [tabs[t] EXCEPT !.form = form]
  <1>5. SoundTab(tab) /\ tab.n = tabs[t].n /\ tab.copy = tabs[t].copy
    BY <1>2, <1>4 DEF SoundTab, TabFields
  <1>6. tabs' = [tabs EXCEPT ![t] = tab]
    BY <1>3
  <1> HIDE DEF tab
  <1>7. DOMAIN tabs' = Tabs /\ \A u \in Tabs : Follows(u)
    BY <1>1, <1>5, <1>6, Gesturing, Working
  <1> QED BY <1>1, <1>7, Gesturing, Quiet DEF Type, EditorInvariant, RowsSound

LEMMA CancelVariantKeeps ==
  ASSUME EditorInvariant, NEW t \in Tabs, CancelVariant(t)
  PROVE  EditorInvariant'
  <1>1. tabs[t] # Null
    BY DEF CancelVariant, At
  <1> DEFINE tab == [tabs[t] EXCEPT !.modal = Null]
  <1>2. SoundTab(tab) /\ tab.n = tabs[t].n /\ tab.copy = tabs[t].copy
    BY <1>1, TabAt DEF SoundTab, TabFields
  <1>3. tabs' = [tabs EXCEPT ![t] = tab]
    BY DEF CancelVariant
  <1> HIDE DEF tab
  <1>4. DOMAIN tabs' = Tabs /\ \A u \in Tabs : Follows(u)
    BY <1>1, <1>2, <1>3, SameDesk, Working DEF CancelVariant
  <1> QED BY <1>4, SameDesk, Quiet DEF CancelVariant, EditorInvariant, RowsSound

LEMMA TypeVariantKeeps ==
  ASSUME EditorInvariant, NEW t \in Tabs, TypeVariant(t)
  PROVE  EditorInvariant'
  <1>1. tabs[t] # Null /\ tabs[t].modal # Null /\ Gesture(t)
    BY DEF TypeVariant, At
  <1>2. PICK edit : tabs' = [tabs EXCEPT ![t].modal.edit = edit]
    BY DEF TypeVariant
  <1> DEFINE tab == [tabs[t] EXCEPT !.modal.edit = edit]
  <1>3. SoundTab(tab) /\ tab.n = tabs[t].n /\ tab.copy = tabs[t].copy
    BY <1>1, TabAt DEF SoundTab, TabFields
  <1>4. tabs' = [tabs EXCEPT ![t] = tab]
    BY <1>2
  <1> HIDE DEF tab
  <1>5. DOMAIN tabs' = Tabs /\ \A u \in Tabs : Follows(u)
    BY <1>1, <1>3, <1>4, Gesturing, Working
  <1> QED BY <1>1, <1>5, Gesturing, Quiet DEF TypeVariant, EditorInvariant, RowsSound

LEMMA ShowVariantKeeps ==
  ASSUME EditorInvariant, NEW t \in Tabs, NEW item \in Items, NEW env \in Envs, ShowVariant(t, item, env)
  PROVE  EditorInvariant'
  <1>1. tabs[t] # Null /\ tabs[t].copy[item] # Null /\ Gesture(t)
    BY DEF ShowVariant, At, Listed
  <1>2. PICK old, edit : tabs' = [tabs EXCEPT ![t].modal =
                                    [item |-> item, env |-> env, old |-> old, edit |-> edit]]
    BY DEF ShowVariant
  <1> DEFINE tab == [tabs[t] EXCEPT !.modal = [item |-> item, env |-> env, old |-> old, edit |-> edit]]
  <1>3. SoundTab(tab) /\ tab.n = tabs[t].n /\ tab.copy = tabs[t].copy
    BY <1>1, TabAt DEF SoundTab, TabFields
  <1>4. tabs' = [tabs EXCEPT ![t] = tab]
    BY <1>2
  <1> HIDE DEF tab
  <1>5. DOMAIN tabs' = Tabs /\ \A u \in Tabs : Follows(u)
    BY <1>1, <1>3, <1>4, Gesturing, Working
  <1> QED BY <1>1, <1>5, Gesturing, Quiet DEF ShowVariant, EditorInvariant, RowsSound

\* A request sent with a gesture, by a page that rests or goes on.
LEMMA SendKeeps ==
  ASSUME EditorInvariant, NEW t \in Tabs, tabs[t] # Null, Gesture(t), NEW q, Send(q),
         Meant(q), q.tab = t, q.n = tabs[t].n, q.op # "variants",
         \/ UNCHANGED tabs
         \/ \E tab : /\ tabs' = [tabs EXCEPT ![t] = tab]
                     /\ SoundTab(tab) /\ tab.n = tabs[t].n /\ tab.copy = tabs[t].copy
  PROVE  EditorInvariant'
  <1>1. DOMAIN tabs' = Tabs /\ \A u \in Tabs : Follows(u)
    BY Gesturing, Working, Resting
  <1>2. Placed(q)
    BY TabAt DEF Placed
  <1> QED BY <1>1, <1>2, Gesturing, Requesting DEF Send, EditorInvariant, RowsSound

LEMMA SubmitNewKeeps ==
  ASSUME EditorInvariant, NEW t \in Tabs, SubmitNew(t)
  PROVE  EditorInvariant'
  <1>1. tabs[t] # Null /\ tabs[t].page.at = "new" /\ Gesture(t)
    BY DEF SubmitNew, At
  <1>2. SoundTab(tabs[t]) /\ Whole(tabs[t].form)
    BY <1>1, TabAt DEF SoundTab
  <1> DEFINE payload == FlagPayload(tabs[t].form)
             q == Request(t, "create", Null, payload)
             tab == [tabs[t] EXCEPT !.saving = TRUE]
  <1>3. /\ DOMAIN payload = PayloadFields /\ Fits(payload)
        /\ \A field \in Previewed :
             field \in DOMAIN payload /\ payload[field] = FlagPanel(tabs[t].form, tabs[t].initial)[field]
    BY <1>2, PayloadFits DEF Previewed, PayloadFields
  <1>4. SoundTab(tab) /\ tab.n = tabs[t].n /\ tab.copy = tabs[t].copy
    BY <1>2 DEF SoundTab, TabFields
  <1>5. tabs' = [tabs EXCEPT ![t] = tab] /\ Send(q)
    BY DEF SubmitNew
  <1> HIDE DEF tab, payload
  <1>6. /\ DOMAIN q = RequestFields /\ q.tab = t /\ q.n = tabs[t].n /\ q.at = "new"
        /\ q.op = "create" /\ q.body = payload /\ q.status = "sent"
        /\ q.shown = FlagPanel(tabs[t].form, tabs[t].initial)
    BY <1>1, RequestIs
  <1> HIDE DEF q
  <1>7. Meant(q)
    BY <1>2, <1>3, <1>6 DEF Meant, Writes, SoundTab
  <1> QED BY <1>1, <1>4, <1>5, <1>6, <1>7, SendKeeps

LEMMA SubmitEditKeeps ==
  ASSUME EditorInvariant, NEW t \in Tabs, SubmitEdit(t)
  PROVE  EditorInvariant'
  <1>1. tabs[t] # Null /\ tabs[t].page.at = "edit" /\ Gesture(t)
    BY DEF SubmitEdit, At
  <1> DEFINE item == tabs[t].page.item
             copy == tabs[t].copy[item]
             payload == FlagPayload(tabs[t].form)
             body == EditBody(payload, copy)
             q == Request(t, "save", item, body)
             tab == [tabs[t] EXCEPT !.saving = TRUE]
  <1>2. SoundTab(tabs[t]) /\ Whole(tabs[t].form) /\ item \in Items /\ WellFormed(copy)
    BY <1>1, TabAt DEF SoundTab
  <1>3. /\ DOMAIN payload = PayloadFields /\ Fits(payload)
        /\ \A field \in Previewed :
             field \in DOMAIN payload /\ payload[field] = FlagPanel(tabs[t].form, tabs[t].initial)[field]
    BY <1>2, PayloadFits DEF Previewed, PayloadFields
  <1>4. SoundTab(tab) /\ tab.n = tabs[t].n /\ tab.copy = tabs[t].copy
    BY <1>2 DEF SoundTab, TabFields
  <1>5. tabs' = [tabs EXCEPT ![t] = tab] /\ Send(q)
    BY DEF SubmitEdit
  <1> HIDE DEF tab, payload
  <1>6. /\ DOMAIN body = PayloadFields \cup {"variants", "archived"}
        /\ body.variants = copy.variants
        /\ \A field \in PayloadFields : body[field] = payload[field]
    BY <1>3 DEF EditBody, Spread, PayloadFields
  <1> HIDE DEF body
  <1>7. /\ DOMAIN q = RequestFields /\ q.tab = t /\ q.n = tabs[t].n /\ q.at = "edit"
        /\ q.op = "save" /\ q.item = item /\ q.body = body /\ q.copy = copy /\ q.status = "sent"
        /\ q.shown = FlagPanel(tabs[t].form, tabs[t].initial)
    BY <1>1, RequestIs
  <1> HIDE DEF q
  <1>8. Fits(body)
    BY <1>2, <1>3, <1>6 DEF Fits, PayloadFields, RowFields, WellFormed
  <1>9. \A field \in Previewed : field \in DOMAIN body /\ body[field] = q.shown[field]
    BY <1>3, <1>6, <1>7 DEF Previewed, PayloadFields
  <1>10. Meant(q)
    BY <1>2, <1>6, <1>7, <1>8, <1>9 DEF Meant, Writes, SoundTab
  <1> QED BY <1>1, <1>4, <1>5, <1>7, <1>10, SendKeeps

LEMMA FitsArchived ==
  ASSUME NEW archived
  PROVE  Fits([archived |-> archived])
  BY DEF Fits, RowFields

LEMMA ToggleEditKeeps ==
  ASSUME EditorInvariant, NEW t \in Tabs, ToggleEdit(t)
  PROVE  EditorInvariant'
  <1>1. tabs[t] # Null /\ tabs[t].page.at = "edit" /\ Gesture(t)
    BY DEF ToggleEdit, At
  <1> DEFINE item == tabs[t].page.item
             body == [archived |-> ~tabs[t].copy[item].archived]
             q == Request(t, "toggle", item, body)
             tab == [tabs[t] EXCEPT !.loading = TRUE]
  <1>2. SoundTab(tabs[t]) /\ item \in Items
    BY <1>1, TabAt
  <1>4. SoundTab(tab) /\ tab.n = tabs[t].n /\ tab.copy = tabs[t].copy
    BY <1>2 DEF SoundTab, TabFields
  <1>5. tabs' = [tabs EXCEPT ![t] = tab] /\ Send(q)
    BY DEF ToggleEdit
  <1> HIDE DEF tab
  <1>6. Fits(body) /\ body = [archived |-> ~tabs[t].copy[item].archived]
    BY FitsArchived
  <1> HIDE DEF body
  <1>7. /\ DOMAIN q = RequestFields /\ q.tab = t /\ q.n = tabs[t].n /\ q.at = "edit"
        /\ q.op = "toggle" /\ q.item = item /\ q.body = body /\ q.copy = tabs[t].copy[item]
        /\ q.status = "sent"
    BY <1>1, RequestIs
  <1> HIDE DEF q
  <1>8. Meant(q)
    BY <1>2, <1>6, <1>7 DEF Meant, Writes, SoundTab
  <1> QED BY <1>1, <1>4, <1>5, <1>7, <1>8, SendKeeps

LEMMA DeleteEditKeeps ==
  ASSUME EditorInvariant, NEW t \in Tabs, DeleteEdit(t)
  PROVE  EditorInvariant'
  <1>1. tabs[t] # Null /\ tabs[t].page.at = "edit" /\ Gesture(t)
    BY DEF DeleteEdit, At
  <1> DEFINE q == Request(t, "delete", tabs[t].page.item, Null)
  <1>2. SoundTab(tabs[t]) /\ tabs[t].page.item \in Items
    BY <1>1, TabAt
  <1>3. UNCHANGED tabs /\ Send(q)
    BY DEF DeleteEdit
  <1>4. /\ DOMAIN q = RequestFields /\ q.tab = t /\ q.n = tabs[t].n /\ q.at = "edit"
        /\ q.op = "delete" /\ q.item = tabs[t].page.item /\ q.status = "sent"
    BY <1>1, RequestIs
  <1> HIDE DEF q
  <1>5. Meant(q)
    BY <1>2, <1>4 DEF Meant, Writes, SoundTab
  <1> QED BY <1>1, <1>3, <1>4, <1>5, SendKeeps

LEMMA ToggleRowKeeps ==
  ASSUME EditorInvariant, NEW t \in Tabs, NEW item \in Items, ToggleRow(t, item)
  PROVE  EditorInvariant'
  <1> DEFINE body == [archived |-> ~tabs[t].copy[item].archived]
             q == Request(t, "toggle", item, body)
  <1>1. /\ tabs[t] # Null /\ tabs[t].page.at = "flags" /\ Gesture(t) /\ tabs[t].copy[item] # Null
        /\ Menu(tabs[t].copy[item]) \cap {"archive", "unarchive"} # {}
    BY DEF ToggleRow, At, Listed
  <1>2. UNCHANGED tabs /\ Send(q)
    BY DEF ToggleRow
  <1>3. Fits(body)
    BY FitsArchived
  <1>4. /\ DOMAIN q = RequestFields /\ q.tab = t /\ q.n = tabs[t].n /\ q.at = "flags"
        /\ q.op = "toggle" /\ q.item = item /\ q.body = body /\ q.copy = tabs[t].copy[item]
        /\ q.status = "sent"
    BY <1>1, RequestIs
  <1> HIDE DEF q
  <1>5. Meant(q)
    BY <1>1, <1>3, <1>4, TabAt DEF Meant, Writes, SoundTab
  <1> QED BY <1>1, <1>2, <1>4, <1>5, SendKeeps

LEMMA DeleteRowKeeps ==
  ASSUME EditorInvariant, NEW t \in Tabs, NEW item \in Items, DeleteRow(t, item)
  PROVE  EditorInvariant'
  <1> DEFINE q == Request(t, "delete", item, Null)
  <1>1. /\ tabs[t] # Null /\ tabs[t].page.at = "flags" /\ Gesture(t) /\ tabs[t].copy[item] # Null
        /\ "delete" \in Menu(tabs[t].copy[item])
    BY DEF DeleteRow, At, Listed
  <1>2. UNCHANGED tabs /\ Send(q)
    BY DEF DeleteRow
  <1>3. /\ DOMAIN q = RequestFields /\ q.tab = t /\ q.n = tabs[t].n /\ q.at = "flags"
        /\ q.op = "delete" /\ q.item = item /\ q.copy = tabs[t].copy[item] /\ q.status = "sent"
    BY <1>1, RequestIs
  <1> HIDE DEF q
  <1>4. Meant(q)
    BY <1>1, <1>3, TabAt DEF Meant, Writes, SoundTab
  <1> QED BY <1>1, <1>2, <1>3, <1>4, SendKeeps

\* A page of the list sends the lists of a row it shows, one of them edited.
LEMMA SendVariantsKeeps ==
  ASSUME EditorInvariant, NEW t \in Tabs, tabs[t] # Null, tabs[t].page.at = "flags", Gesture(t),
         NEW item \in Items, WellFormed(tabs[t].copy[item]), NEW env \in Envs, NEW list, NEW replaced,
         NEW closes, SendVariants(t, item, env, list, replaced, closes),
         list \in Seq(Range(list)),
         \A i \in DOMAIN tabs[t].copy[item].variants[env] :
           \/ replaced = tabs[t].copy[item].variants[env][i].id
           \/ \E j \in DOMAIN list : list[j].id = tabs[t].copy[item].variants[env][i].id,
         \/ UNCHANGED tabs
         \/ \E tab : /\ tabs' = [tabs EXCEPT ![t] = tab]
                     /\ SoundTab(tab) /\ tab.n = tabs[t].n /\ tab.copy = tabs[t].copy
  PROVE  EditorInvariant'
  <1> DEFINE copy == tabs[t].copy[item]
             body == Edited(copy, env, list)
             request == Request(t, "variants", item, body)
             q == [request EXCEPT !.replaced = replaced, !.closes = closes]
  <1>1. Send(q)
    BY DEF SendVariants, Edited
  <1>2. ListsOfVariants(body.variants) /\ Kept(copy, body, replaced)
    BY EditedKeeps DEF WellFormed
  <1>3. DOMAIN body = {"variants"}
    BY DEF Edited
  <1> HIDE DEF body
  <1>4. /\ DOMAIN request = RequestFields /\ request.tab = t /\ request.n = tabs[t].n
        /\ request.at = "flags" /\ request.op = "variants" /\ request.item = item
        /\ request.body = body /\ request.copy = copy /\ request.status = "sent"
    BY RequestIs
  <1> HIDE DEF request
  <1>5. /\ DOMAIN q = RequestFields /\ q.tab = t /\ q.n = tabs[t].n /\ q.at = "flags"
        /\ q.op = "variants" /\ q.item = item /\ q.body = body /\ q.copy = copy
        /\ q.status = "sent" /\ q.replaced = replaced
    BY <1>4 DEF RequestFields
  <1> HIDE DEF q
  <1>6. Fits(body)
    BY <1>2, <1>3 DEF Fits, RowFields
  <1>7. Meant(q)
    BY <1>2, <1>3, <1>5, <1>6, TabAt DEF Meant, Writes, SoundTab
  <1>8. Placed(q)
    BY <1>5, TabAt DEF Placed
  <1>9. DOMAIN tabs' = Tabs /\ \A u \in Tabs : Follows(u)
    BY Gesturing, Working, Resting
  <1> QED BY <1>1, <1>7, <1>8, <1>9, Gesturing, Requesting DEF Send, EditorInvariant, RowsSound

LEMMA SaveVariantKeeps ==
  ASSUME EditorInvariant, NEW t \in Tabs, SaveVariant(t)
  PROVE  EditorInvariant'
  <1> DEFINE modal == tabs[t].modal
             row == tabs[t].copy[modal.item]
             old == modal.old
             new == Spread(modal.edit, [id |-> IF old = Null THEN <<t, desk[t].gestures>> ELSE old.id])
             present == row.variants[modal.env]
             list == IF old = Null THEN Append(present, new)
                     ELSE [i \in DOMAIN present |-> IF present[i].id = old.id THEN new ELSE present[i]]
             replaced == IF old = Null THEN Null ELSE old.id
             tab == [tabs[t] EXCEPT !.modal = Null]
  <1>1. tabs[t] # Null /\ tabs[t].page.at = "flags" /\ Gesture(t) /\ modal # Null
    BY DEF SaveVariant, At
  <1>2. /\ SoundTab(tabs[t]) /\ modal.item \in Items /\ modal.env \in Envs /\ WellFormed(row)
    BY <1>1, TabAt DEF SoundTab
  <1>3. SoundTab(tab) /\ tab.n = tabs[t].n /\ tab.copy = tabs[t].copy
    BY <1>2 DEF SoundTab, TabFields
  <1>4. tabs' = [tabs EXCEPT ![t] = tab] /\ SendVariants(t, modal.item, modal.env, list, replaced, TRUE)
    BY DEF SaveVariant
  <1>5. present \in Seq(Range(present))
    BY <1>2 DEF WellFormed, ListsOfVariants
  <1>6. old # Null => new.id = old.id
    BY DEF Spread
  <1> HIDE DEF tab, new, present
  <1>7. /\ list \in Seq(Range(list))
        /\ \A i \in DOMAIN present : \E j \in DOMAIN list : list[j].id = present[i].id
    <2>1. CASE old = Null
      <3>1. list = Append(present, new)
        BY <2>1
      <3> HIDE DEF list, old
      <3> QED BY <1>5, <3>1, AppendKeeps
    <2>2. CASE old # Null
      <3>1. list = Replaced(present, new)
        BY <1>6, <2>2 DEF Replaced
      <3>2. /\ Replaced(present, new) \in Seq(Range(Replaced(present, new)))
            /\ \A i \in DOMAIN present :
                 \E j \in DOMAIN Replaced(present, new) : Replaced(present, new)[j].id = present[i].id
        BY <1>5, ReplaceKeeps
      <3> HIDE DEF list
      <3> QED BY <3>1, <3>2
    <2> QED BY <2>1, <2>2
  <1> HIDE DEF list, replaced
  <1> QED BY <1>1, <1>2, <1>3, <1>4, <1>7, SendVariantsKeeps DEF present

LEMMA DeleteVariantKeeps ==
  ASSUME EditorInvariant, NEW t \in Tabs, NEW item \in Items, NEW env \in Envs,
         DeleteVariant(t, item, env)
  PROVE  EditorInvariant'
  <1> DEFINE present == tabs[t].copy[item].variants[env]
  <1>1. tabs[t] # Null /\ tabs[t].page.at = "flags" /\ Gesture(t) /\ tabs[t].copy[item] # Null
    BY DEF DeleteVariant, At, Listed
  <1>2. WellFormed(tabs[t].copy[item]) /\ present \in Seq(Range(present))
    BY <1>1, TabAt DEF SoundTab, WellFormed, ListsOfVariants
  <1>3. PICK k \in DOMAIN present :
          SendVariants(t, item, env, RemoveAt(present, k), present[k].id, FALSE)
    BY DEF DeleteVariant
  <1>4. UNCHANGED tabs
    BY DEF DeleteVariant
  <1>5. /\ RemoveAt(present, k) \in Seq(Range(RemoveAt(present, k)))
        /\ \A i \in DOMAIN present :
             \/ present[k].id = present[i].id
             \/ \E j \in DOMAIN RemoveAt(present, k) : RemoveAt(present, k)[j].id = present[i].id
    BY <1>2, RemoveKeeps
  <1> DEFINE list == RemoveAt(present, k)
             replaced == present[k].id
  <1>6. SendVariants(t, item, env, list, replaced, FALSE)
    BY <1>3
  <1>7. /\ list \in Seq(Range(list))
        /\ \A i \in DOMAIN present :
             replaced = present[i].id \/ \E j \in DOMAIN list : list[j].id = present[i].id
    BY <1>5
  <1> HIDE DEF list, replaced
  <1> QED BY <1>1, <1>2, <1>4, <1>6, <1>7, SendVariantsKeeps

Answered(q, reply) == [q EXCEPT !.status = "applied", !.reply = reply]

LEMMA AnsweredIsMeant ==
  ASSUME EditorInvariant, NEW q \in net, NEW reply,
         \/ reply = Refused
         \/ /\ q.op # "delete" => WellFormed(reply)
            /\ q.op \in {"create", "save"} => \A field \in Previewed : reply[field] = q.shown[field]
  PROVE  Meant(Answered(q, reply)) /\ Placed(Answered(q, reply))
  <1> DEFINE answered == Answered(q, reply)
  <1>1. Meant(q) /\ Placed(q)
    BY DEF EditorInvariant, NetSound
  <1>2. /\ DOMAIN answered = RequestFields
        /\ answered.tab = q.tab /\ answered.n = q.n /\ answered.at = q.at /\ answered.op = q.op
        /\ answered.item = q.item /\ answered.body = q.body /\ answered.copy = q.copy
        /\ answered.replaced = q.replaced /\ answered.shown = q.shown
        /\ answered.status = "applied" /\ answered.reply = reply
    BY <1>1 DEF Answered, Meant, RequestFields
  <1> HIDE DEF answered
  <1>3. Meant(answered)
    BY <1>1, <1>2 DEF Meant
  <1>4. Placed(answered)
    BY <1>1, <1>2 DEF Placed, There
  <1> QED BY <1>3, <1>4 DEF answered

LEMMA HandledIsSound ==
  ASSUME EditorInvariant, NEW q \in net, ~Refuses(q)
  PROVE  /\ q.op # "delete" => WellFormed(Handle(q))
         /\ q.op \in {"create", "save"} => \A field \in Previewed : Handle(q)[field] = q.shown[field]
  <1>1. Meant(q)
    BY DEF EditorInvariant, NetSound
  <1>2. CASE q.op = "create"
    <2>1. Handle(q) = Created(q.body)
      BY <1>2 DEF Handle
    <2>2. WellFormed(Created(q.body)) /\ \A field \in PayloadFields : Created(q.body)[field] = q.body[field]
      BY <1>1, <1>2, CreatedIsWellFormed DEF Meant, Writes
    <2> QED BY <1>1, <1>2, <2>1, <2>2 DEF Meant, Previewed, PayloadFields
  <1>3. CASE q.op # "create"
    <2>1. WellFormed(rows[q.item])
      BY <1>1, <1>3 DEF Refuses, Meant, EditorInvariant, RowsSound
    <2>2. CASE q.op = "load"
      BY <2>1, <2>2 DEF Handle
    <2>3. CASE q.op \in {"save", "toggle", "variants"}
      <3>1. Handle(q) = Updated(rows[q.item], q.body)
        BY <2>3 DEF Handle
      <3>2. Fits(q.body)
        BY <1>1, <2>3 DEF Meant, Writes
      <3>3. WellFormed(Updated(rows[q.item], q.body))
        BY <2>1, <3>2, UpdatedIsWellFormed
      <3>4. \A field \in DOMAIN q.body : Updated(rows[q.item], q.body)[field] = q.body[field]
        BY <2>1, <3>2, UpdatedFields DEF WellFormed, Fits
      <3> QED BY <1>1, <2>3, <3>1, <3>3, <3>4 DEF Meant
    <2> QED BY <1>1, <1>3, <2>2, <2>3 DEF Meant, Writes
  <1> QED BY <1>2, <1>3

LEMMA ServeKeeps ==
  ASSUME EditorInvariant, NEW q \in net, Serve(q)
  PROVE  EditorInvariant'
  <1>1. DeskSound' /\ DOMAIN tabs' = Tabs /\ \A u \in Tabs : Follows(u)
    BY SameDesk, Resting DEF Serve
  <1>2. CASE Refuses(q)
    <2>1. net' = (net \ {q}) \cup {Answered(q, Refused)} /\ UNCHANGED rows
      BY <1>2 DEF Serve, Answered
    <2>2. Meant(Answered(q, Refused)) /\ Placed(Answered(q, Refused))
      BY AnsweredIsMeant
    <2>3. RowsSound'
      BY <2>1 DEF EditorInvariant, RowsSound
    <2> QED BY <1>1, <2>1, <2>2, <2>3, Requesting
  <1>3. CASE ~Refuses(q)
    <2>1. PICK item \in IF q.op = "create" THEN Free ELSE {q.item} : rows' = [rows EXCEPT ![item] = Handle(q)]
      BY <1>3 DEF Serve
    <2>2. net' = (net \ {q}) \cup {Answered(q, Handle(q))}
      BY <1>3 DEF Serve, Answered
    <2>3. Meant(Answered(q, Handle(q))) /\ Placed(Answered(q, Handle(q)))
      BY <1>3, AnsweredIsMeant, HandledIsSound
    <2>4. Handle(q) = Null \/ WellFormed(Handle(q))
      BY <1>3, HandledIsSound DEF Handle
    <2>5. RowsSound'
      BY <2>1, <2>4 DEF EditorInvariant, RowsSound
    <2> QED BY <1>1, <2>2, <2>3, <2>5, Requesting
  <1> QED BY <1>2, <1>3

LEMMA LoseKeeps ==
  ASSUME EditorInvariant, NEW q \in net, Lose(q)
  PROVE  EditorInvariant'
  <1>1. DeskSound' /\ DOMAIN tabs' = Tabs /\ \A u \in Tabs : Follows(u)
    BY SameDesk, Resting DEF Lose
  <1>2. net' = (net \ {q}) \cup {Answered(q, Refused)} /\ UNCHANGED rows
    BY DEF Lose, Answered
  <1>3. Meant(Answered(q, Refused)) /\ Placed(Answered(q, Refused))
    BY AnsweredIsMeant
  <1>4. RowsSound'
    BY <1>2 DEF EditorInvariant, RowsSound
  <1> QED BY <1>1, <1>2, <1>3, <1>4, Requesting

LEMMA ReleaseKeeps ==
  ASSUME EditorInvariant, Release
  PROVE  EditorInvariant'
  <1>1. DeskSound' /\ DOMAIN tabs' = Tabs /\ \A u \in Tabs : Follows(u)
    BY SameDesk, Resting DEF Release
  <1>2. ASSUME NEW item \in Items
        PROVE  rows'[item] = Null \/ WellFormed(rows'[item])
    <2>1. CASE rows[item] = Null
      BY <2>1 DEF Release
    <2>2. CASE rows[item] # Null
      <3>1. rows'[item] = [rows[item] EXCEPT !.published = TRUE, !.released = rows[item].archived]
        BY <2>2 DEF Release
      <3>2. WellFormed(rows[item])
        BY <2>2 DEF EditorInvariant, RowsSound
      <3> QED BY <3>1, <3>2 DEF WellFormed, RowFields
    <2> QED BY <2>1, <2>2
  <1>3. RowsSound'
    BY <1>2 DEF RowsSound, Release
  <1> QED BY <1>1, <1>3, Quiet DEF Release

LEMMA AnswerFormKeeps ==
  ASSUME EditorInvariant, NEW q \in net, AnswerForm(q), UNCHANGED <<rows, desk>>
  PROVE  EditorInvariant'
  <1>1. Meant(q) /\ q.tab \in Tabs
    BY DEF EditorInvariant, NetSound, Meant
  <1>2. DOMAIN tabs' = Tabs /\ \A u \in Tabs : Follows(u)
    <2>1. CASE UNCHANGED tabs
      BY <2>1, SameDesk, Resting
    <2>2. CASE tabs' = [tabs EXCEPT ![q.tab] = Null]
      BY <1>1, <2>2, SameDesk, Leaving
    <2>3. CASE There(q) /\ tabs' = [tabs EXCEPT ![q.tab].saving = FALSE]
      <3> DEFINE tab == [tabs[q.tab] EXCEPT !.saving = FALSE]
      <3>1. tabs[q.tab] # Null
        BY <2>3 DEF There
      <3>2. SoundTab(tab) /\ tab.n = tabs[q.tab].n /\ tab.copy = tabs[q.tab].copy
        BY <1>1, <3>1, TabAt DEF SoundTab, TabFields
      <3>3. tabs' = [tabs EXCEPT ![q.tab] = tab]
        BY <2>3
      <3> HIDE DEF tab
      <3> QED BY <1>1, <3>1, <3>2, <3>3, SameDesk, Working
    <2> QED BY <2>1, <2>2, <2>3 DEF AnswerForm
  <1>3. net' \subseteq net
    BY DEF AnswerForm
  <1>4. RowsSound'
    BY DEF EditorInvariant, RowsSound
  <1> QED BY <1>2, <1>3, <1>4, SameDesk, Quiet

\* A page that shows a row as it was answered.
LEMMA ShowsRow ==
  ASSUME NEW tab, SoundTab(tab), NEW item \in Items, NEW row, WellFormed(row)
  PROVE  LET shown == [tab EXCEPT !.copy[item] = row]
         IN  /\ SoundTab(shown) /\ shown.n = tab.n /\ shown.copy[item] = row
             /\ \A other \in Items : WellFormed(tab.copy[other]) => WellFormed(shown.copy[other])
  BY DEF SoundTab, TabFields

LEMMA AnswerToggleKeeps ==
  ASSUME EditorInvariant, NEW q \in net, q.status = "applied", AnswerToggle(q), UNCHANGED <<rows, desk>>
  PROVE  EditorInvariant'
  <1>1. Meant(q) /\ Placed(q) /\ q.tab \in Tabs /\ q.item \in Items /\ q.op = "toggle"
    BY DEF EditorInvariant, NetSound, Meant, AnswerToggle
  <1>2. RowsSound' /\ DeskSound'
    BY SameDesk DEF EditorInvariant, RowsSound
  <1>3. CASE UNCHANGED tabs /\ net' = net \ {q}
    <2>1. DOMAIN tabs' = Tabs /\ \A u \in Tabs : Follows(u)
      BY <1>3, SameDesk, Resting
    <2> QED BY <1>2, <1>3, <2>1, Quiet
  <1>4. CASE /\ UNCHANGED tabs
             /\ net' = (net \ {q}) \cup {[q EXCEPT !.op = "load", !.status = "sent", !.reply = Null]}
    <2> DEFINE load == [q EXCEPT !.op = "load", !.status = "sent", !.reply = Null]
    <2>1. DOMAIN tabs' = Tabs /\ \A u \in Tabs : Follows(u)
      BY <1>4, SameDesk, Resting
    <2>2. /\ DOMAIN load = RequestFields /\ load.tab = q.tab /\ load.n = q.n /\ load.item = q.item
          /\ load.op = "load" /\ load.status = "sent"
      BY <1>1 DEF Meant, RequestFields
    <2>3. net' = (net \ {q}) \cup {load}
      BY <1>4
    <2> HIDE DEF load
    <2>4. Meant(load)
      BY <1>1, <2>2 DEF Meant, Writes
    <2>5. Placed(load)
      BY <1>1, <2>2 DEF Placed
    <2> QED BY <1>2, <2>1, <2>3, <2>4, <2>5, Requesting
  <1>5. CASE /\ There(q) /\ q.reply # Refused
             /\ net' = net \ {q} /\ tabs' = [tabs EXCEPT ![q.tab].copy[q.item] = q.reply]
    <2> DEFINE tab == [tabs[q.tab] EXCEPT !.copy[q.item] = q.reply]
    <2>1. tabs[q.tab] # Null /\ WellFormed(q.reply)
      BY <1>1, <1>5 DEF There, Meant
    <2>2. SoundTab(tabs[q.tab])
      BY <1>1, <2>1, TabAt
    <2>3. /\ SoundTab(tab) /\ tab.n = tabs[q.tab].n
          /\ \A other \in Items : WellFormed(tabs[q.tab].copy[other]) => WellFormed(tab.copy[other])
      BY <1>1, <2>1, <2>2, ShowsRow
    <2>4. tabs' = [tabs EXCEPT ![q.tab] = tab]
      BY <1>5
    <2> HIDE DEF tab
    <2>5. DOMAIN tabs' = Tabs /\ \A u \in Tabs : Follows(u)
      BY <1>1, <2>1, <2>3, <2>4, SameDesk, Working
    <2> QED BY <1>2, <1>5, <2>5, Quiet
  <1> QED BY <1>3, <1>4, <1>5 DEF AnswerToggle

LEMMA AnswerLoadKeeps ==
  ASSUME EditorInvariant, NEW q \in net, q.status = "applied", AnswerLoad(q), UNCHANGED <<rows, desk>>
  PROVE  EditorInvariant'
  <1>1. Meant(q) /\ q.tab \in Tabs /\ q.item \in Items /\ q.op = "load"
    BY DEF EditorInvariant, NetSound, Meant, AnswerLoad
  <1>2. RowsSound' /\ DeskSound' /\ net' \subseteq net
    BY SameDesk DEF EditorInvariant, RowsSound, AnswerLoad
  <1>3. DOMAIN tabs' = Tabs /\ \A u \in Tabs : Follows(u)
    <2>1. CASE UNCHANGED tabs
      BY <2>1, SameDesk, Resting
    <2>2. CASE tabs' = [tabs EXCEPT ![q.tab] = Null]
      BY <1>1, <2>2, SameDesk, Leaving
    <2>3. CASE There(q) /\ q.reply # Refused
      <3> DEFINE form == EditFlag(q.reply)
                 shown == [tabs[q.tab] EXCEPT !.copy[q.item] = q.reply]
                 tab == [shown EXCEPT !.loading = FALSE, !.form = form, !.initial = form]
      <3>1. tabs[q.tab] # Null /\ WellFormed(q.reply)
        BY <1>1, <2>3 DEF There, Meant
      <3>2. SoundTab(tabs[q.tab]) /\ Whole(form)
        BY <1>1, <3>1, TabAt, EditFlagIsWhole
      <3>3. /\ SoundTab(shown) /\ shown.n = tabs[q.tab].n
            /\ \A other \in Items : WellFormed(tabs[q.tab].copy[other]) => WellFormed(shown.copy[other])
        BY <1>1, <3>1, <3>2, ShowsRow
      <3>4. tabs' = [tabs EXCEPT ![q.tab] = tab]
        BY <1>1, <2>3, <3>2 DEF AnswerLoad, SoundTab, TabFields, EditorInvariant, TabsSound
      <3> HIDE DEF shown, form
      <3>5. SoundTab(tab) /\ tab.n = shown.n /\ tab.copy = shown.copy
        BY <3>2, <3>3 DEF SoundTab, TabFields
      <3> HIDE DEF tab
      <3> QED BY <1>1, <3>1, <3>3, <3>4, <3>5, SameDesk, Working
    <2> QED BY <2>1, <2>2, <2>3 DEF AnswerLoad
  <1> QED BY <1>2, <1>3, Quiet

LEMMA AnswerVariantsKeeps ==
  ASSUME EditorInvariant, NEW q \in net, AnswerVariants(q), UNCHANGED <<rows, desk>>
  PROVE  EditorInvariant'
  <1>1. Meant(q) /\ Placed(q) /\ q.tab \in Tabs /\ q.item \in Items /\ q.op = "variants"
    BY DEF EditorInvariant, NetSound, Meant, AnswerVariants
  <1>2. RowsSound' /\ DeskSound' /\ net' \subseteq net
    BY SameDesk DEF EditorInvariant, RowsSound, AnswerVariants
  <1>3. DOMAIN tabs' = Tabs /\ \A u \in Tabs : Follows(u)
    <2>1. CASE UNCHANGED tabs
      BY <2>1, SameDesk, Resting
    <2>2. CASE There(q) /\ q.reply # Refused
      <3> DEFINE old == tabs[q.tab]
                 row == [old.copy[q.item] EXCEPT !.variants = q.body.variants]
                 shown == [old EXCEPT !.copy[q.item] = row]
                 modal == IF q.closes /\ old.modal # Null /\ old.modal.item = q.item THEN Null ELSE old.modal
                 tab == [shown EXCEPT !.modal = modal]
      <3>1. old # Null /\ WellFormed(old.copy[q.item]) /\ ListsOfVariants(q.body.variants)
        BY <1>1, <2>2 DEF There, Meant, Placed, Fits, Writes
      <3>2. SoundTab(old)
        BY <1>1, <3>1, TabAt
      <3>3. WellFormed(row)
        BY <3>1 DEF WellFormed, RowFields
      <3>4. tabs' = [tabs EXCEPT ![q.tab] = tab] /\ shown.modal = old.modal
        BY <1>1, <2>2, <3>2 DEF AnswerVariants, SoundTab, TabFields, EditorInvariant, TabsSound
      <3> HIDE DEF row, old
      <3>5. /\ SoundTab(shown) /\ shown.n = old.n
            /\ \A other \in Items : WellFormed(old.copy[other]) => WellFormed(shown.copy[other])
        BY <1>1, <3>2, <3>3, ShowsRow
      <3> HIDE DEF shown
      <3>6. SoundTab(tab) /\ tab.n = shown.n /\ tab.copy = shown.copy
        BY <3>4, <3>5 DEF SoundTab, TabFields
      <3> HIDE DEF tab
      <3> QED BY <1>1, <3>1, <3>4, <3>5, <3>6, SameDesk, Working DEF old
    <2> QED BY <2>1, <2>2 DEF AnswerVariants
  <1> QED BY <1>2, <1>3, Quiet

-----------------------------------------------------------------------------
(* The theorems. *)

LEMMA StartsSound == Init => EditorInvariant
  <1> SUFFICES ASSUME Init PROVE EditorInvariant
    OBVIOUS
  <1>1. PICK scenario \in Scenarios : rows = scenario.rows /\ desk = scenario.desk
    BY DEF Init
  <1>2. RowsSound /\ DeskSound
    BY <1>1, ScenarioAssumption DEF RowsSound, DeskSound
  <1>3. TabsSound /\ NetSound
    BY DEF Init, TabsSound, NetSound
  <1> QED BY <1>2, <1>3 DEF EditorInvariant

LEMMA StepKeeps == EditorInvariant /\ [Next]_vars => EditorInvariant'
  <1> SUFFICES ASSUME EditorInvariant, [Next]_vars PROVE EditorInvariant'
    OBVIOUS
  <1>1. ASSUME NEW t \in Tabs, NEW page \in desk[t].pages, Open(t, page)
        PROVE  EditorInvariant'
    BY <1>1, OpenKeeps
  <1>2. ASSUME NEW t \in Tabs,
               \/ Leave(t) \/ Type(t) \/ SubmitNew(t) \/ SubmitEdit(t) \/ ToggleEdit(t) \/ DeleteEdit(t)
               \/ TypeVariant(t) \/ CancelVariant(t) \/ SaveVariant(t)
        PROVE  EditorInvariant'
    BY <1>2, LeaveKeeps, TypeKeeps, SubmitNewKeeps, SubmitEditKeeps, ToggleEditKeeps, DeleteEditKeeps,
       TypeVariantKeeps, CancelVariantKeeps, SaveVariantKeeps
  <1>3. ASSUME NEW t \in Tabs, NEW item \in Items, ToggleRow(t, item) \/ DeleteRow(t, item)
        PROVE  EditorInvariant'
    BY <1>3, ToggleRowKeeps, DeleteRowKeeps
  <1>4. ASSUME NEW t \in Tabs, NEW item \in Items, NEW env \in Envs,
               ShowVariant(t, item, env) \/ DeleteVariant(t, item, env)
        PROVE  EditorInvariant'
    BY <1>4, ShowVariantKeeps, DeleteVariantKeeps
  <1>5. ASSUME NEW q \in net, Serve(q) \/ Lose(q)
        PROVE  EditorInvariant'
    BY <1>5, ServeKeeps, LoseKeeps
  <1>6. ASSUME NEW q \in net, Answer(q)
        PROVE  EditorInvariant'
    BY <1>6, AnswerFormKeeps, AnswerToggleKeeps, AnswerLoadKeeps, AnswerVariantsKeeps DEF Answer
  <1>7. CASE Release
    BY <1>7, ReleaseKeeps
  <1>8. CASE UNCHANGED vars
    <2>1. DOMAIN tabs' = Tabs /\ \A u \in Tabs : Follows(u)
      BY <1>8, SameDesk, Resting DEF vars
    <2> QED BY <1>8, <2>1, SameDesk, Quiet DEF vars, EditorInvariant, RowsSound
  <1> QED BY <1>1, <1>2, <1>3, <1>4, <1>5, <1>6, <1>7, <1>8 DEF Next

\* The rows, pages and requests hold what they seem to: every row and every copy of one is whole,
\* a form's values are of its type, and a request asks for what its page showed (schema.prisma,
\* flag-form.tsx, flag-row.tsx).
THEOREM EditorIsSound == Spec => []EditorInvariant
  <1> QED BY StartsSound, StepKeeps, PTL DEF Spec

\* Whatever types are chosen and values typed, and however requests and answers cross, a flag's
\* defaults are of its type and a stored form is the one previewed (flag-form.tsx,
\* setTypeAndReset to handleSubmit; flag-value-input.tsx, processValueForType).
THEOREM FormsAreStoredFaithfully == Spec => []FormsStoreFaithfully
  <1>1. EditorInvariant => FormsStoreFaithfully
    <2> SUFFICES ASSUME EditorInvariant PROVE FormsStoreFaithfully
      OBVIOUS
    <2>1. DefaultsMatchType
      BY DEF DefaultsMatchType, EditorInvariant, RowsSound, WellFormed
    <2>2. StoredIsPreviewed
      BY DEF StoredIsPreviewed, EditorInvariant, NetSound, Meant, Previewed
    <2> QED BY <2>1, <2>2 DEF FormsStoreFaithfully
  <1> QED BY <1>1, EditorIsSound, PTL

\* In every state of a flag's life the server accepts what the menu of its row offers
\* (lib/flag-lifecycle.ts; flag-row.tsx, Action Menu; api/flags/[id]/route.ts).
THEOREM MenusAreAccepted == Spec => []RowOffersAreAccepted
  <1>1. EditorInvariant => RowOffersAreAccepted
    <2> SUFFICES ASSUME EditorInvariant, NEW q \in net, q.at = "flags", q.op \in {"toggle", "delete"},
                        q.copy = rows[q.item]
                 PROVE  ~Refuses(q)
      BY DEF RowOffersAreAccepted
    <2>1. Meant(q)
      BY DEF EditorInvariant, NetSound
    <2>2. CASE q.op = "toggle"
      <3>1. q.body = [archived |-> ~q.copy.archived] /\ DOMAIN q.body = {"archived"}
        BY <2>1, <2>2 DEF Meant
      <3>2. q.copy # Null /\ Menu(q.copy) \cap {"archive", "unarchive"} # {}
        BY <2>1, <2>2 DEF Meant
      <3>3. q.copy.archived \/ q.copy.published
        BY <3>2 DEF Menu
      <3>4. ~UpdateRefused(q.copy, q.body, q.item)
        <4>1. q.body.archived <=> ~q.copy.archived
          <5> DEFINE other == ~q.copy.archived
          <5>1. q.body = [archived |-> other]
            BY <3>1
          <5> HIDE DEF other
          <5>2. q.body.archived = other
            BY <5>1
          <5>3. q.body.archived <=> other
            BY <5>2, Zenon
          <5> QED BY <5>3, Zenon DEF other
        <4>2. "name" \notin DOMAIN q.body
          BY <3>1
        <4> QED BY <3>1, <3>3, <4>1, <4>2 DEF UpdateRefused
      <3> QED BY <2>2, <3>2, <3>4 DEF Refuses
    <2>3. CASE q.op = "delete"
      <3>1. q.copy # Null /\ "delete" \in Menu(q.copy)
        BY <2>1, <2>3 DEF Meant
      <3>2. CanDelete(q.copy)
        BY <3>1 DEF Menu
      <3> QED BY <2>3, <3>1, <3>2 DEF Refuses
    <2> QED BY <2>2, <2>3
  <1> QED BY <1>1, EditorIsSound, PTL

LEMMA OnlyHandlersWrite ==
  ASSUME [Next]_vars
  PROVE  UNCHANGED rows \/ Release \/ \E q \in net : Serve(q)
  <1>1. ASSUME NEW t \in Tabs, NEW page \in desk[t].pages, Open(t, page)
        PROVE  UNCHANGED rows
    BY <1>1 DEF Open
  <1>2. ASSUME NEW t \in Tabs, Leave(t) \/ Type(t) \/ TypeVariant(t) \/ CancelVariant(t)
        PROVE  UNCHANGED rows
    BY <1>2 DEF Leave, Type, TypeVariant, CancelVariant
  <1>3. ASSUME NEW t \in Tabs,
               SubmitNew(t) \/ SubmitEdit(t) \/ ToggleEdit(t) \/ DeleteEdit(t) \/ SaveVariant(t)
        PROVE  UNCHANGED rows
    BY <1>3 DEF SubmitNew, SubmitEdit, ToggleEdit, DeleteEdit, SaveVariant, SendVariants, Send
  <1>4. ASSUME NEW t \in Tabs, NEW item \in Items, ToggleRow(t, item) \/ DeleteRow(t, item)
        PROVE  UNCHANGED rows
    BY <1>4 DEF ToggleRow, DeleteRow, Send
  <1>5. ASSUME NEW t \in Tabs, NEW item \in Items, NEW env \in Envs,
               ShowVariant(t, item, env) \/ DeleteVariant(t, item, env)
        PROVE  UNCHANGED rows
    BY <1>5 DEF ShowVariant, DeleteVariant, SendVariants, Send
  <1>6. ASSUME NEW q \in net, Lose(q) \/ Answer(q)
        PROVE  UNCHANGED rows
    BY <1>6 DEF Lose, Answer
  <1>7. CASE UNCHANGED vars
    BY <1>7 DEF vars
  <1> QED BY <1>1, <1>2, <1>3, <1>4, <1>5, <1>6, <1>7 DEF Next

LEMMA ServedKeepsHidden ==
  ASSUME EditorInvariant, NEW q \in net, Serve(q), NEW item \in Items,
         rows[item] # Null, rows'[item] # Null, rows'[item] # rows[item]
  PROVE  /\ q \in net \ net' /\ q.item = item
         /\ \A variant \in Variants(rows[item]) \ Variants(rows'[item]) :
              /\ q.op \in {"variants", "save"}
              /\ q.replaced = variant[2] \/ variant \notin Variants(q.copy)
         /\ rows[item].archived /\ ~rows'[item].archived => q.op = "toggle"
  <1>1. Meant(q) /\ WellFormed(rows[item])
    BY DEF EditorInvariant, NetSound, RowsSound
  <1>2. ~Refuses(q)
    BY DEF Serve
  <1>3. PICK at \in IF q.op = "create" THEN Free ELSE {q.item} : rows' = [rows EXCEPT ![at] = Handle(q)]
    BY <1>2 DEF Serve
  <1>4. at = item /\ rows'[item] = Handle(q)
    BY <1>3 DEF EditorInvariant, RowsSound
  <1>5. q.op # "create" /\ q.item = item
    BY <1>3, <1>4 DEF Free
  <1>6. q \notin net'
    <2>1. net' = (net \ {q}) \cup {Answered(q, Handle(q))}
      BY <1>2 DEF Serve, Answered
    <2>2. Answered(q, Handle(q)).status = "applied"
      BY <1>1 DEF Answered, Meant, RequestFields
    <2> QED BY <2>1, <2>2 DEF Serve
  <1>7. q.op \in {"save", "toggle", "variants"}
    BY <1>1, <1>4, <1>5 DEF Meant, Writes, Handle
  <1> DEFINE row == Updated(rows[item], q.body)
  <1>8. rows'[item] = row /\ ~UpdateRefused(rows[item], q.body, item)
    BY <1>2, <1>4, <1>5, <1>7 DEF Handle, Refuses
  <1>9. Fits(q.body)
    BY <1>1, <1>7 DEF Meant, Writes
  <1>10. /\ \A field \in DOMAIN q.body : row[field] = q.body[field]
         /\ \A field \in RowFields \ (DOMAIN q.body \cup {"released"}) : row[field] = rows[item][field]
    BY <1>1, <1>9, UpdatedFields DEF WellFormed, Fits
  <1> HIDE DEF row
  <1>11. CASE q.op = "toggle"
    <2>1. DOMAIN q.body = {"archived"}
      BY <1>1, <1>11 DEF Meant
    <2>2. row.variants = rows[item].variants
      BY <1>10, <2>1 DEF RowFields
    <2>3. Variants(row) = Variants(rows[item])
      BY <2>2, SameVariants
    <2> QED BY <1>5, <1>6, <1>8, <1>11, <2>3
  <1>12. CASE q.op = "save"
    <2>1. "variants" \in DOMAIN q.body /\ q.body.variants = q.copy.variants /\ "key" \in DOMAIN q.body
      BY <1>1, <1>12 DEF Meant, Previewed
    <2>2. ~rows[item].archived
      BY <1>8, <2>1 DEF UpdateRefused
    <2>3. row.variants = q.copy.variants
      BY <1>10, <2>1
    <2>4. Variants(row) = Variants(q.copy)
      BY <2>3, SameVariants
    <2> QED BY <1>5, <1>6, <1>8, <1>12, <2>2, <2>4
  <1>13. CASE q.op = "variants"
    <2>1. DOMAIN q.body = {"variants"} /\ Kept(q.copy, q.body, q.replaced)
      BY <1>1, <1>13 DEF Meant
    <2>2. ~rows[item].archived
      BY <1>8, <2>1 DEF UpdateRefused
    <2>3. row.variants = q.body.variants
      BY <1>10, <2>1
    <2>4. Variants(row) = Variants(q.body)
      BY <2>3, SameVariants
    <2> QED BY <1>5, <1>6, <1>8, <1>13, <2>1, <2>2, <2>4 DEF Kept
  <1> QED BY <1>7, <1>11, <1>12, <1>13

\* What a form or a row sends back without showing it is not lost: a variant goes only by a request
\* that names it or that never saw it, and a flag leaves the archive only by a request for that
\* (flags/[id]/edit/page.tsx, handleSubmit; flag-row.tsx, handleVariantSave; api/flags/[id]/route.ts).
THEOREM HiddenIsKept == Spec => HiddenKept
  <1> DEFINE Lost(item) ==
        /\ \A variant \in Variants(rows[item]) \ Variants(rows'[item]) :
             \E q \in net \ net' :
               /\ q.item = item /\ q.op \in {"variants", "save"}
               /\ \/ q.replaced = variant[2]
                  \/ variant \notin Variants(q.copy)
        /\ rows[item].archived /\ ~rows'[item].archived =>
             \E q \in net \ net' : q.op = "toggle" /\ q.item = item
  <1>1. ASSUME EditorInvariant, [Next]_vars, NEW item \in Items, rows[item] # Null, rows'[item] # Null
        PROVE  Lost(item)
    <2>1. CASE rows'[item] = rows[item]
      BY <2>1
    <2>2. ASSUME NEW q \in net, Serve(q), rows'[item] # rows[item]
          PROVE  Lost(item)
      BY <1>1, <2>2, ServedKeepsHidden
    <2>3. CASE Release
      <3>1. rows'[item] = [rows[item] EXCEPT !.published = TRUE, !.released = rows[item].archived]
        BY <1>1, <2>3 DEF Release
      <3>2. WellFormed(rows[item])
        BY <1>1 DEF EditorInvariant, RowsSound
      <3>3. rows'[item].variants = rows[item].variants /\ rows'[item].archived = rows[item].archived
        BY <3>1, <3>2 DEF WellFormed, RowFields
      <3>4. Variants(rows'[item]) = Variants(rows[item])
        BY <3>3, SameVariants
      <3> QED BY <3>3, <3>4
    <2>4. \/ UNCHANGED rows \/ Release \/ \E q \in net : Serve(q)
      BY <1>1, OnlyHandlersWrite
    <2> QED BY <2>1, <2>2, <2>3, <2>4
  <1>2. EditorInvariant /\ [Next]_vars =>
          [\A item \in Items : rows[item] # Null /\ rows'[item] # Null => Lost(item)]_vars
    BY <1>1
  <1> QED BY <1>2, EditorIsSound, PTL DEF Spec, HiddenKept

-----------------------------------------------------------------------------
(* An administrator alone, whose requests were each awaited and succeeded.  What is claimed of the *)
(* state is said of its parts, so that it can be said of the next state's parts as well.           *)

\* No identifier is one that is still to be given.
IdsUsed(variants, d) ==
  \A e \in Envs : \A i \in DOMAIN variants[e] :
    variants[e][i].id[1] \in Tabs =>
      /\ variants[e][i].id[2] \in Nat
      /\ variants[e][i].id[2] > d[variants[e][i].id[1]].gestures

Fresh(variants, d) == IdsDiffer(variants) /\ IdsUsed(variants, d)

Shows(tab, q) == tab # Null /\ tab.n = q.n

\* The lists of a row were written and its page has not heard of it, or they are still to be written.
Unheard(q, item, tab) == q.op = "variants" /\ q.status = "applied" /\ q.item = item /\ Shows(tab, q)

Underway(q, item) == q.op = "variants" /\ q.status = "sent" /\ q.item = item

SoloRow(item, rs, requests, ks, d) ==
  rs[item] # Null =>
    /\ Fresh(rs[item].variants, d)
    /\ (\A q \in requests : ~Underway(q, item)) => ks[item] = Stored(rs[item])

\* The dialog is of the page of the list.
SoloModal(tab) == tab.modal # Null => tab.page.at = "flags"

SoloCopy(tab, rs, requests) ==
  tab.page.at # "new" =>
    \A item \in Items : rs[item] # Null /\ (\A q \in requests : ~Unheard(q, item, tab)) =>
      tab.copy[item].variants = rs[item].variants

SoloRequest(q, t, tab, rs, ks, d) ==
  /\ q.tab = t
  /\ q.status = "applied" => q.reply # Refused
  /\ Shows(tab, q) => tab.page.at = q.at
  /\ q.op = "create" => q.at = "new"
  /\ q.op \in {"save", "toggle", "variants", "load"} /\ rs[q.item] # Null =>
       /\ q.op = "save" /\ q.status = "sent" /\ Shows(tab, q) => q.copy.variants = rs[q.item].variants
       /\ q.op \in {"toggle", "load"} /\ q.status = "applied" => q.reply.variants = rs[q.item].variants
       /\ q.op = "variants" /\ q.status = "applied" => q.body.variants = rs[q.item].variants
       /\ q.op = "variants" /\ q.status = "sent" =>
            Fresh(q.body.variants, d) /\ ks[q.item] = Stored(q.body)

Solo(t, rs, ts, requests, d, ks) ==
  /\ \A u \in Tabs \ {t} : ts[u] = Null
  /\ \A p, q \in requests : p = q
  /\ \A q \in requests : SoloRequest(q, t, ts[t], rs, ks, d)
  /\ \A item \in Items : SoloRow(item, rs, requests, ks, d)
  /\ ts[t] # Null => SoloModal(ts[t]) /\ SoloCopy(ts[t], rs, requests)

SoloInvariant ==
  /\ DOMAIN kept = Items
  /\ \A t \in Tabs : Alone(t) /\ ~crossed => Solo(t, rows, tabs, net, desk, kept)

SoloNow(t) == Solo(t, rows, tabs, net, desk, kept)

SoloThen(t) == Solo(t, rows', tabs', net', desk', kept')

LEMMA FreshStays ==
  ASSUME NEW variants, NEW d, NEW e,
         \A u \in Tabs : d[u].gestures \in Nat /\ e[u].gestures \in Nat /\ e[u].gestures <= d[u].gestures,
         Fresh(variants, d)
  PROVE  Fresh(variants, e)
  BY DEF Fresh, IdsUsed

LEMMA SameStored ==
  ASSUME NEW row, NEW other, row.variants = other.variants
  PROVE  Stored(row) = Stored(other)
  BY DEF Stored

DeskGoesOn ==
  \A u \in Tabs : /\ desk[u].gestures \in Nat /\ desk'[u].gestures \in Nat
                  /\ desk'[u].gestures <= desk[u].gestures
                  /\ desk'[u].pages = desk[u].pages

LEMMA GestureGoesOn ==
  ASSUME EditorInvariant, NEW t \in Tabs, Gesture(t)
  PROVE  DeskGoesOn
  BY DEF EditorInvariant, DeskSound, Gesture, DeskGoesOn

LEMMA SameDeskGoesOn ==
  ASSUME EditorInvariant, UNCHANGED desk
  PROVE  DeskGoesOn
  BY DEF EditorInvariant, DeskSound, DeskGoesOn

\* Steps of a page alone.
LEMMA SoloPageStep ==
  ASSUME NEW t \in Tabs, SoloNow(t), DeskGoesOn, UNCHANGED <<rows, net, kept>>,
         \A u \in Tabs \ {t} : tabs'[u] = Null,
         \A q \in net : Shows(tabs'[t], q) => Shows(tabs[t], q) /\ tabs'[t].page.at = tabs[t].page.at,
         tabs'[t] # Null => SoloModal(tabs'[t]) /\ SoloCopy(tabs'[t], rows, net)
  PROVE  SoloThen(t)
  <1>1. ASSUME NEW q \in net PROVE SoloRequest(q, t, tabs'[t], rows, kept, desk')
    <2>1. SoloRequest(q, t, tabs[t], rows, kept, desk)
      BY DEF SoloNow, Solo
    <2>2. Fresh(q.body.variants, desk) => Fresh(q.body.variants, desk')
      BY FreshStays DEF DeskGoesOn
    <2> QED BY <2>1, <2>2 DEF SoloRequest
  <1>2. ASSUME NEW item \in Items PROVE SoloRow(item, rows, net, kept, desk')
    <2>1. SoloRow(item, rows, net, kept, desk)
      BY DEF SoloNow, Solo
    <2>2. Fresh(rows[item].variants, desk) => Fresh(rows[item].variants, desk')
      BY FreshStays DEF DeskGoesOn
    <2> QED BY <2>1, <2>2 DEF SoloRow
  <1> QED BY <1>1, <1>2 DEF SoloNow, SoloThen, Solo

\* The only page goes on with the same copy.
LEMMA SoloPageGoesOn ==
  ASSUME EditorInvariant, NEW t \in Tabs, SoloNow(t), DeskGoesOn, UNCHANGED <<rows, net, kept>>,
         tabs[t] # Null, NEW tab, tabs' = [tabs EXCEPT ![t] = tab],
         tab.n = tabs[t].n, tab.page = tabs[t].page, tab.copy = tabs[t].copy, SoloModal(tab)
  PROVE  SoloThen(t)
  <1>1. tabs'[t] = tab /\ \A u \in Tabs \ {t} : tabs'[u] = Null
    BY DEF EditorInvariant, TabsSound, SoloNow, Solo
  <1>2. \A q \in net : Shows(tab, q) => Shows(tabs[t], q)
    BY DEF Shows
  <1>3. ASSUME tab # Null PROVE SoloCopy(tab, rows, net)
    BY <1>3 DEF SoloCopy, SoloNow, Solo, Unheard, Shows
  <1> QED BY <1>1, <1>2, <1>3, SoloPageStep

LEMMA SoloActor ==
  ASSUME NEW t \in Tabs, SoloNow(t), NEW u \in Tabs, tabs[u] # Null
  PROVE  u = t
  BY DEF SoloNow, Solo

LEMMA OpenSolo ==
  ASSUME EditorInvariant, NEW t \in Tabs, SoloNow(t), Alone(t),
         NEW u \in Tabs, NEW page \in desk[u].pages, Open(u, page)
  PROVE  SoloThen(t)
  <1>1. u = t
    BY DEF Alone
  <1>2. tabs'[t].n = desk[t].opens /\ tabs'[t].copy = rows /\ tabs'[t].modal = Null
    BY <1>1 DEF Open, EditorInvariant, TabsSound
  <1>3. ASSUME NEW q \in net PROVE ~Shows(tabs'[t], q)
    <2>1. q.n > desk[t].opens /\ q.n \in Nat /\ desk[t].opens \in Nat
      BY DEF EditorInvariant, NetSound, Meant, Placed, SoloNow, Solo, SoloRequest, DeskSound
    <2> QED BY <1>2, <2>1 DEF Shows
  <1>4. DeskGoesOn
    BY DEF Open, EditorInvariant, DeskSound, DeskGoesOn
  <1>5. \A v \in Tabs \ {t} : tabs'[v] = Null
    BY <1>1 DEF Open, EditorInvariant, TabsSound, SoloNow, Solo
  <1>6. SoloModal(tabs'[t]) /\ SoloCopy(tabs'[t], rows, net)
    BY <1>2 DEF SoloModal, SoloCopy
  <1> QED BY <1>3, <1>4, <1>5, <1>6, SoloPageStep DEF Open

LEMMA LeaveSolo ==
  ASSUME EditorInvariant, NEW t \in Tabs, SoloNow(t), NEW u \in Tabs, Leave(u)
  PROVE  SoloThen(t)
  <1>1. u = t
    BY SoloActor DEF Leave
  <1>2. \A v \in Tabs : tabs'[v] = Null
    BY <1>1 DEF Leave, EditorInvariant, TabsSound, SoloNow, Solo
  <1> QED BY <1>2, SameDeskGoesOn, SoloPageStep DEF Leave, Shows

LEMMA TypeSolo ==
  ASSUME EditorInvariant, NEW t \in Tabs, SoloNow(t), NEW u \in Tabs, Type(u)
  PROVE  SoloThen(t)
  <1>1. tabs[t] # Null /\ u = t /\ Gesture(t)
    BY SoloActor DEF Type, At
  <1>2. PICK form : tabs' = [tabs EXCEPT ![t].form = form]
    BY <1>1 DEF Type
  <1> DEFINE tab == [tabs[t] EXCEPT !.form = form]
  <1>3. SoundTab(tabs[t])
    BY <1>1, TabAt
  <1>4. tab.n = tabs[t].n /\ tab.page = tabs[t].page /\ tab.copy = tabs[t].copy /\ tab.modal = tabs[t].modal
    BY <1>3 DEF SoundTab, TabFields
  <1>5. tabs' = [tabs EXCEPT ![t] = tab]
    BY <1>2
  <1> HIDE DEF tab
  <1>6. SoloModal(tab)
    BY <1>1, <1>4 DEF SoloModal, SoloNow, Solo
  <1> QED BY <1>1, <1>4, <1>5, <1>6, GestureGoesOn, SoloPageGoesOn DEF Type

LEMMA TypeVariantSolo ==
  ASSUME EditorInvariant, NEW t \in Tabs, SoloNow(t), NEW u \in Tabs, TypeVariant(u)
  PROVE  SoloThen(t)
  <1>1. tabs[t] # Null /\ u = t /\ Gesture(t) /\ tabs[t].modal # Null
    BY SoloActor DEF TypeVariant, At
  <1>2. PICK edit : tabs' = [tabs EXCEPT ![t].modal.edit = edit]
    BY <1>1 DEF TypeVariant
  <1> DEFINE modal == [tabs[t].modal EXCEPT !.edit = edit]
             tab == [tabs[t] EXCEPT !.modal = modal]
  <1>3. SoundTab(tabs[t])
    BY <1>1, TabAt
  <1>4. tabs' = [tabs EXCEPT ![t] = tab]
    BY <1>2
  <1>5. modal.item = tabs[t].modal.item /\ modal.env = tabs[t].modal.env /\ modal.old = tabs[t].modal.old
    BY <1>1, <1>3 DEF SoundTab
  <1> HIDE DEF modal
  <1>6. tab.n = tabs[t].n /\ tab.page = tabs[t].page /\ tab.copy = tabs[t].copy /\ tab.modal = modal
    BY <1>3 DEF SoundTab, TabFields
  <1> HIDE DEF tab
  <1>7. SoloModal(tab)
    BY <1>1, <1>5, <1>6 DEF SoloModal, SoloNow, Solo
  <1> QED BY <1>1, <1>4, <1>6, <1>7, GestureGoesOn, SoloPageGoesOn DEF TypeVariant

LEMMA CancelVariantSolo ==
  ASSUME EditorInvariant, NEW t \in Tabs, SoloNow(t), NEW u \in Tabs, CancelVariant(u)
  PROVE  SoloThen(t)
  <1>1. tabs[t] # Null /\ u = t
    BY SoloActor DEF CancelVariant, At
  <1> DEFINE tab == [tabs[t] EXCEPT !.modal = Null]
  <1>2. SoundTab(tabs[t])
    BY <1>1, TabAt
  <1>3. tab.n = tabs[t].n /\ tab.page = tabs[t].page /\ tab.copy = tabs[t].copy /\ tab.modal = Null
    BY <1>2 DEF SoundTab, TabFields
  <1>4. tabs' = [tabs EXCEPT ![t] = tab]
    BY <1>1 DEF CancelVariant
  <1> HIDE DEF tab
  <1>5. SoloModal(tab)
    BY <1>3 DEF SoloModal
  <1> QED BY <1>1, <1>3, <1>4, <1>5, SameDeskGoesOn, SoloPageGoesOn DEF CancelVariant

LEMMA ShowVariantSolo ==
  ASSUME EditorInvariant, NEW t \in Tabs, SoloNow(t), NEW u \in Tabs, NEW item \in Items, NEW env \in Envs,
         ShowVariant(u, item, env)
  PROVE  SoloThen(t)
  <1>1. tabs[t] # Null /\ u = t /\ Gesture(t) /\ tabs[t].page.at = "flags"
    BY SoloActor DEF ShowVariant, At
  <1>2. PICK old, edit :
          /\ tabs' = [tabs EXCEPT ![t].modal = [item |-> item, env |-> env, old |-> old, edit |-> edit]]
          /\ old = Null \/ old \in Range(tabs[t].copy[item].variants[env])
    BY <1>1 DEF ShowVariant
  <1> DEFINE modal == [item |-> item, env |-> env, old |-> old, edit |-> edit]
             tab == [tabs[t] EXCEPT !.modal = modal]
  <1>3. SoundTab(tabs[t])
    BY <1>1, TabAt
  <1>4. tabs' = [tabs EXCEPT ![t] = tab]
    BY <1>2
  <1>5. modal.item = item /\ modal.env = env /\ modal.old = old
    OBVIOUS
  <1> HIDE DEF modal
  <1>6. tab.n = tabs[t].n /\ tab.page = tabs[t].page /\ tab.copy = tabs[t].copy /\ tab.modal = modal
    BY <1>3 DEF SoundTab, TabFields
  <1> HIDE DEF tab
  <1>7. SoloModal(tab)
    BY <1>1, <1>6 DEF SoloModal
  <1> QED BY <1>1, <1>4, <1>6, <1>7, GestureGoesOn, SoloPageGoesOn DEF ShowVariant

LEMMA SameModal ==
  ASSUME NEW tab, NEW other, SoloModal(tab),
         other.page = tab.page, other.copy = tab.copy, other.modal = tab.modal
  PROVE  SoloModal(other)
  BY Zenon DEF SoloModal

\* Steps that send, while nothing else is under way.
LEMMA SoloSendStep ==
  ASSUME EditorInvariant, NEW t \in Tabs, SoloNow(t), tabs[t] # Null, Gesture(t), NEW q, Send(q), ~crossed',
         q.status = "sent", q.tab = t, q.at = tabs[t].page.at, q.op \in {"create", "save", "toggle", "delete"},
         q.op = "create" => q.at = "new",
         q.op = "save" => q.at = "edit" /\ q.item \in Items /\ q.copy = tabs[t].copy[q.item],
         UNCHANGED kept,
         \/ UNCHANGED tabs
         \/ \E tab : /\ tabs' = [tabs EXCEPT ![t] = tab]
                     /\ tab.n = tabs[t].n /\ tab.page = tabs[t].page /\ tab.copy = tabs[t].copy
                     /\ tab.modal = tabs[t].modal
  PROVE  SoloThen(t)
  <1>1. net = {} /\ net' = {q} /\ UNCHANGED rows
    BY DEF Send
  <1>2. DeskGoesOn
    BY GestureGoesOn
  <1>3. /\ \A u \in Tabs \ {t} : tabs'[u] = Null
        /\ tabs'[t].page = tabs[t].page /\ tabs'[t].copy = tabs[t].copy
        /\ tabs'[t].modal = tabs[t].modal
    BY DEF EditorInvariant, TabsSound, SoloNow, Solo
  <1>4. SoloModal(tabs[t]) /\ SoloCopy(tabs[t], rows, {})
    BY <1>1 DEF SoloNow, Solo
  <1>5. SoloModal(tabs'[t])
    BY <1>3, <1>4, SameModal
  <1>6. SoloCopy(tabs'[t], rows, net')
    BY <1>3, <1>4 DEF SoloCopy
  <1>7. SoloRequest(q, t, tabs'[t], rows, kept, desk')
    <2>1. q.op = "save" /\ rows[q.item] # Null => q.copy.variants = rows[q.item].variants
      BY <1>4 DEF SoloCopy
    <2> QED BY <1>3, <2>1 DEF SoloRequest
  <1>8. ASSUME NEW item \in Items PROVE SoloRow(item, rows, net', kept, desk')
    <2>1. SoloRow(item, rows, {}, kept, desk)
      BY <1>1 DEF SoloNow, Solo
    <2>2. Fresh(rows[item].variants, desk) => Fresh(rows[item].variants, desk')
      BY <1>2, FreshStays DEF DeskGoesOn
    <2> QED BY <2>1, <2>2 DEF SoloRow
  <1> QED BY <1>1, <1>3, <1>5, <1>6, <1>7, <1>8 DEF SoloThen, Solo

LEMMA SubmitNewSolo ==
  ASSUME EditorInvariant, NEW t \in Tabs, SoloNow(t), ~crossed', NEW u \in Tabs, SubmitNew(u)
  PROVE  SoloThen(t)
  <1>1. tabs[t] # Null /\ u = t /\ Gesture(t) /\ tabs[t].page.at = "new"
    BY SoloActor DEF SubmitNew, At
  <1> DEFINE q == Request(t, "create", Null, FlagPayload(tabs[t].form))
             tab == [tabs[t] EXCEPT !.saving = TRUE]
  <1>2. SoundTab(tabs[t])
    BY <1>1, TabAt
  <1>3. /\ tab.n = tabs[t].n /\ tab.page = tabs[t].page /\ tab.copy = tabs[t].copy
        /\ tab.modal = tabs[t].modal
    BY <1>2 DEF SoundTab, TabFields
  <1>4. tabs' = [tabs EXCEPT ![t] = tab] /\ Send(q) /\ UNCHANGED kept
    BY <1>1 DEF SubmitNew
  <1>5. q.tab = t /\ q.at = "new" /\ q.op = "create" /\ q.status = "sent"
    BY <1>1, RequestIs
  <1> HIDE DEF tab, q
  <1> QED BY <1>1, <1>3, <1>4, <1>5, SoloSendStep

LEMMA SubmitEditSolo ==
  ASSUME EditorInvariant, NEW t \in Tabs, SoloNow(t), ~crossed', NEW u \in Tabs, SubmitEdit(u)
  PROVE  SoloThen(t)
  <1>1. tabs[t] # Null /\ u = t /\ Gesture(t) /\ tabs[t].page.at = "edit"
    BY SoloActor DEF SubmitEdit, At
  <1> DEFINE item == tabs[t].page.item
             q == Request(t, "save", item, EditBody(FlagPayload(tabs[t].form), tabs[t].copy[item]))
             tab == [tabs[t] EXCEPT !.saving = TRUE]
  <1>2. SoundTab(tabs[t]) /\ item \in Items
    BY <1>1, TabAt
  <1>3. /\ tab.n = tabs[t].n /\ tab.page = tabs[t].page /\ tab.copy = tabs[t].copy
        /\ tab.modal = tabs[t].modal
    BY <1>2 DEF SoundTab, TabFields
  <1>4. tabs' = [tabs EXCEPT ![t] = tab] /\ Send(q) /\ UNCHANGED kept
    BY <1>1 DEF SubmitEdit
  <1>5. /\ q.tab = t /\ q.at = "edit" /\ q.op = "save" /\ q.status = "sent"
        /\ q.item = item /\ q.copy = tabs[t].copy[item]
    BY <1>1, RequestIs
  <1> HIDE DEF tab, q
  <1> QED BY <1>1, <1>2, <1>3, <1>4, <1>5, SoloSendStep

LEMMA ToggleEditSolo ==
  ASSUME EditorInvariant, NEW t \in Tabs, SoloNow(t), ~crossed', NEW u \in Tabs, ToggleEdit(u)
  PROVE  SoloThen(t)
  <1>1. tabs[t] # Null /\ u = t /\ Gesture(t)
    BY SoloActor DEF ToggleEdit, At
  <1> DEFINE item == tabs[t].page.item
             q == Request(t, "toggle", item, [archived |-> ~tabs[t].copy[item].archived])
             tab == [tabs[t] EXCEPT !.loading = TRUE]
  <1>2. SoundTab(tabs[t]) /\ ToggleEdit(t)
    BY <1>1, TabAt
  <1>3. /\ tab.n = tabs[t].n /\ tab.page = tabs[t].page /\ tab.copy = tabs[t].copy
        /\ tab.modal = tabs[t].modal
    BY <1>2 DEF SoundTab, TabFields
  <1>4. tabs' = [tabs EXCEPT ![t] = tab] /\ Send(q) /\ UNCHANGED kept
    BY <1>2, Zenon DEF ToggleEdit
  <1>5. q.tab = t /\ q.at = tabs[t].page.at /\ q.op = "toggle" /\ q.status = "sent"
    BY RequestIs
  <1> HIDE DEF tab, q
  <1> QED BY <1>1, <1>3, <1>4, <1>5, SoloSendStep

LEMMA DeleteEditSolo ==
  ASSUME EditorInvariant, NEW t \in Tabs, SoloNow(t), ~crossed', NEW u \in Tabs, DeleteEdit(u)
  PROVE  SoloThen(t)
  <1>1. tabs[t] # Null /\ u = t /\ Gesture(t)
    BY SoloActor DEF DeleteEdit, At
  <1> DEFINE q == Request(t, "delete", tabs[t].page.item, Null)
  <1>2. UNCHANGED tabs /\ Send(q) /\ UNCHANGED kept
    BY <1>1 DEF DeleteEdit
  <1>3. q.tab = t /\ q.at = tabs[t].page.at /\ q.op = "delete" /\ q.status = "sent"
    BY RequestIs
  <1> HIDE DEF q
  <1> QED BY <1>1, <1>2, <1>3, SoloSendStep

LEMMA ToggleRowSolo ==
  ASSUME EditorInvariant, NEW t \in Tabs, SoloNow(t), ~crossed', NEW u \in Tabs, NEW item \in Items,
         ToggleRow(u, item)
  PROVE  SoloThen(t)
  <1>1. tabs[t] # Null /\ u = t /\ Gesture(t)
    BY SoloActor DEF ToggleRow, At
  <1> DEFINE q == Request(t, "toggle", item, [archived |-> ~tabs[t].copy[item].archived])
  <1>2. UNCHANGED tabs /\ Send(q) /\ UNCHANGED kept
    BY <1>1 DEF ToggleRow
  <1>3. q.tab = t /\ q.at = tabs[t].page.at /\ q.op = "toggle" /\ q.status = "sent"
    BY RequestIs
  <1> HIDE DEF q
  <1> QED BY <1>1, <1>2, <1>3, SoloSendStep

LEMMA DeleteRowSolo ==
  ASSUME EditorInvariant, NEW t \in Tabs, SoloNow(t), ~crossed', NEW u \in Tabs, NEW item \in Items,
         DeleteRow(u, item)
  PROVE  SoloThen(t)
  <1>1. tabs[t] # Null /\ u = t /\ Gesture(t)
    BY SoloActor DEF DeleteRow, At
  <1> DEFINE q == Request(t, "delete", item, Null)
  <1>2. UNCHANGED tabs /\ Send(q) /\ UNCHANGED kept
    BY <1>1 DEF DeleteRow
  <1>3. q.tab = t /\ q.at = tabs[t].page.at /\ q.op = "delete" /\ q.status = "sent"
    BY RequestIs
  <1> HIDE DEF q
  <1> QED BY <1>1, <1>2, <1>3, SoloSendStep

\* What the edits of a list do to what is stored.
Without(stored, id) == {held \in stored : held[2].id # id}

LEMMA EditedAt ==
  ASSUME NEW copy, ListsOfVariants(copy.variants), NEW env \in Envs, NEW list
  PROVE  LET edited == Edited(copy, env, list).variants
         IN  /\ edited[env] = list
             /\ \A e \in Envs \ {env} : edited[e] = copy.variants[e]
  BY DEF Edited, ListsOfVariants

LEMMA StoredEdited ==
  ASSUME NEW copy, ListsOfVariants(copy.variants), NEW env \in Envs, NEW list, NEW held
  PROVE  held \in Stored(Edited(copy, env, list)) <=>
           \/ \E e \in Envs \ {env} : \E i \in DOMAIN copy.variants[e] : held = <<e, copy.variants[e][i]>>
           \/ \E j \in DOMAIN list : held = <<env, list[j]>>
  <1> DEFINE edited == Edited(copy, env, list)
  <1>1. edited.variants[env] = list /\ \A e \in Envs \ {env} : edited.variants[e] = copy.variants[e]
    BY EditedAt
  <1> HIDE DEF edited
  <1>2. held \in Stored(edited) <=>
          \E e \in Envs : \E i \in DOMAIN edited.variants[e] : held = <<e, edited.variants[e][i]>>
    BY StoredAre
  <1> QED BY <1>1, <1>2 DEF edited

GesturesFall(d, e) ==
  \A u \in Tabs : d[u].gestures \in Nat /\ e[u].gestures \in Nat /\ e[u].gestures <= d[u].gestures

Adds(edited, copy, env, new, d) ==
  Fresh(edited.variants, d) /\ Stored(edited) = Stored(copy) \cup {<<env, new>>}

LEMMA AppendSolo ==
  ASSUME NEW copy, ListsOfVariants(copy.variants), NEW env \in Envs, NEW new, NEW d, NEW e,
         GesturesFall(d, e),
         Fresh(copy.variants, d),
         NEW t \in Tabs, new.id = <<t, d[t].gestures>>, e[t].gestures < d[t].gestures
  PROVE  Adds(Edited(copy, env, Append(copy.variants[env], new)), copy, env, new, e)
  <1> DEFINE present == copy.variants[env]
             list == Append(present, new)
             last == Len(present) + 1
             edited == Edited(copy, env, list)
  <1>0. \A u \in Tabs : d[u].gestures \in Nat /\ e[u].gestures \in Nat /\ e[u].gestures <= d[u].gestures
    BY DEF GesturesFall
  <1>1. present \in Seq(Range(present))
    BY DEF ListsOfVariants
  <1>2. /\ DOMAIN present = 1 .. Len(present) /\ Len(present) \in Nat
        /\ DOMAIN list = DOMAIN present \cup {last} /\ last \notin DOMAIN present
        /\ list[last] = new /\ \A i \in DOMAIN present : list[i] = present[i]
    <2> HIDE DEF present
    <2>1. present \in Seq(Range(present) \cup {new})
      BY <1>1, IsList
    <2> QED BY <2>1
  <1> HIDE DEF list, last
  <1>3. edited.variants[env] = list /\ \A f \in Envs \ {env} : edited.variants[f] = copy.variants[f]
    BY EditedAt
  <1>4. new.id[1] = t /\ new.id[2] = d[t].gestures
    OBVIOUS
  <1>5. \A f \in Envs : \A i \in DOMAIN copy.variants[f] : copy.variants[f][i].id # new.id
    BY <1>4 DEF Fresh, IdsUsed
  <1>6. ASSUME NEW f \in Envs, NEW i, i \in DOMAIN edited.variants[f]
        PROVE  \/ f = env /\ i = last /\ edited.variants[f][i] = new
               \/ i \in DOMAIN copy.variants[f] /\ edited.variants[f][i] = copy.variants[f][i]
    <2>1. CASE f = env
      BY <1>2, <1>3, <1>6, <2>1
    <2>2. CASE f # env
      BY <1>3, <1>6, <2>2
    <2> QED BY <2>1, <2>2
  <1> HIDE DEF edited
  <1>7. IdsDiffer(edited.variants)
    <2> SUFFICES ASSUME NEW f \in Envs, NEW g \in Envs, NEW i, i \in DOMAIN edited.variants[f],
                        NEW j, j \in DOMAIN edited.variants[g],
                        edited.variants[f][i].id = edited.variants[g][j].id
                 PROVE  f = g /\ i = j
      BY DEF IdsDiffer
    <2> QED BY <1>5, <1>6 DEF Fresh, IdsDiffer
  <1>8. IdsUsed(edited.variants, e)
    <2> SUFFICES ASSUME NEW f \in Envs, NEW i, i \in DOMAIN edited.variants[f],
                        edited.variants[f][i].id[1] \in Tabs
                 PROVE  /\ edited.variants[f][i].id[2] \in Nat
                        /\ edited.variants[f][i].id[2] > e[edited.variants[f][i].id[1]].gestures
      BY DEF IdsUsed
    <2>1. CASE edited.variants[f][i] = new
      BY <1>0, <1>4, <2>1
    <2>2. CASE i \in DOMAIN copy.variants[f] /\ edited.variants[f][i] = copy.variants[f][i]
      BY <1>0, <2>2, FreshStays DEF Fresh, IdsUsed
    <2> QED BY <1>6, <2>1, <2>2
  <1>9. ASSUME NEW held
        PROVE  held \in Stored(edited) <=> held \in Stored(copy) \/ held = <<env, new>>
    <2>1. held \in Stored(edited) <=>
            \/ \E f \in Envs \ {env} : \E i \in DOMAIN copy.variants[f] : held = <<f, copy.variants[f][i]>>
            \/ \E j \in DOMAIN list : held = <<env, list[j]>>
      BY StoredEdited DEF edited
    <2>2. held \in Stored(copy) <=>
            \E f \in Envs : \E i \in DOMAIN copy.variants[f] : held = <<f, copy.variants[f][i]>>
      BY StoredAre
    <2> QED BY <1>2, <2>1, <2>2
  <1>10. Fresh(edited.variants, e) /\ Stored(edited) = Stored(copy) \cup {<<env, new>>}
    BY <1>7, <1>8, <1>9 DEF Fresh
  <1> QED BY <1>10 DEF edited, list, Adds

LEMMA KeepSolo ==
  ASSUME NEW copy, ListsOfVariants(copy.variants), NEW env \in Envs, NEW d, Fresh(copy.variants, d)
  PROVE  LET edited == Edited(copy, env, copy.variants[env])
         IN  Fresh(edited.variants, d) /\ Stored(edited) = Stored(copy)
  <1> DEFINE edited == Edited(copy, env, copy.variants[env])
  <1>1. \A f \in Envs : edited.variants[f] = copy.variants[f]
    BY EditedAt
  <1> HIDE DEF edited
  <1>2. Fresh(edited.variants, d)
    BY <1>1 DEF Fresh, IdsDiffer, IdsUsed
  <1>3. ASSUME NEW held PROVE held \in Stored(edited) <=> held \in Stored(copy)
    BY <1>1, StoredAre
  <1>4. Stored(edited) = Stored(copy)
    BY <1>3 DEF Stored
  <1> QED BY <1>2, <1>4 DEF edited

LEMMA ReplaceSolo ==
  ASSUME NEW copy, ListsOfVariants(copy.variants), NEW env \in Envs, NEW new, NEW d,
         Fresh(copy.variants, d), NEW k, k \in DOMAIN copy.variants[env], copy.variants[env][k].id = new.id
  PROVE  LET edited == Edited(copy, env, Replaced(copy.variants[env], new))
         IN  /\ Fresh(edited.variants, d)
             /\ Stored(edited) = Without(Stored(copy), new.id) \cup {<<env, new>>}
  <1> DEFINE present == copy.variants[env]
             list == Replaced(present, new)
             edited == Edited(copy, env, list)
  <1>1. \A i \in DOMAIN present : present[i].id = new.id => i = k
    BY DEF Fresh, IdsDiffer
  <1>2. /\ DOMAIN list = DOMAIN present /\ list[k] = new
        /\ \A i \in DOMAIN present \ {k} : list[i] = present[i]
    BY <1>1 DEF Replaced
  <1> HIDE DEF list
  <1>3. edited.variants[env] = list /\ \A f \in Envs \ {env} : edited.variants[f] = copy.variants[f]
    BY EditedAt
  <1>4. ASSUME NEW f \in Envs, NEW i, i \in DOMAIN edited.variants[f]
        PROVE  i \in DOMAIN copy.variants[f] /\ edited.variants[f][i].id = copy.variants[f][i].id
    <2>1. CASE f = env
      BY <1>2, <1>3, <1>4, <2>1
    <2>2. CASE f # env
      BY <1>3, <1>4, <2>2
    <2> QED BY <2>1, <2>2
  <1> HIDE DEF edited
  <1>5. Fresh(edited.variants, d)
    BY <1>4 DEF Fresh, IdsDiffer, IdsUsed
  <1>6. ASSUME NEW f \in Envs, NEW i, i \in DOMAIN copy.variants[f]
        PROVE  copy.variants[f][i].id = new.id <=> f = env /\ i = k
    BY <1>6 DEF Fresh, IdsDiffer
  <1>7. ASSUME NEW held
        PROVE  held \in Stored(edited) <=>
                 held \in {other \in Stored(copy) : other[2].id # new.id} \/ held = <<env, new>>
    <2>1. held \in Stored(edited) <=>
            \/ \E f \in Envs \ {env} : \E i \in DOMAIN copy.variants[f] : held = <<f, copy.variants[f][i]>>
            \/ \E j \in DOMAIN list : held = <<env, list[j]>>
      BY StoredEdited DEF edited
    <2>2. held \in Stored(copy) <=>
            \E f \in Envs : \E i \in DOMAIN copy.variants[f] : held = <<f, copy.variants[f][i]>>
      BY StoredAre
    <2>3. ASSUME NEW f \in Envs, NEW i, i \in DOMAIN copy.variants[f], held = <<f, copy.variants[f][i]>>
          PROVE  held[2].id # new.id <=> ~(f = env /\ i = k)
      <3>1. held[2] = copy.variants[f][i]
        BY <2>3
      <3> QED BY <1>6, <2>3, <3>1
    <2>4. (\E j \in DOMAIN list : held = <<env, list[j]>>) <=>
            held = <<env, new>> \/ \E j \in DOMAIN present \ {k} : held = <<env, present[j]>>
      BY <1>2
    <2>5. ASSUME held \in Stored(edited), held # <<env, new>>
          PROVE  held \in Stored(copy) /\ held[2].id # new.id
      <3>1. CASE \E f \in Envs \ {env} : \E i \in DOMAIN copy.variants[f] : held = <<f, copy.variants[f][i]>>
        BY <2>2, <2>3, <3>1
      <3>2. CASE \E j \in DOMAIN present \ {k} : held = <<env, present[j]>>
        BY <2>2, <2>3, <3>2
      <3> QED BY <2>1, <2>4, <2>5, <3>1, <3>2
    <2>6. ASSUME held \in Stored(copy), held[2].id # new.id
          PROVE  held \in Stored(edited)
      <3>1. PICK f \in Envs : \E i \in DOMAIN copy.variants[f] : held = <<f, copy.variants[f][i]>>
        BY <2>2, <2>6
      <3>2. PICK i \in DOMAIN copy.variants[f] : held = <<f, copy.variants[f][i]>>
        BY <3>1
      <3>3. ~(f = env /\ i = k)
        BY <2>3, <2>6, <3>2
      <3> QED BY <2>1, <2>4, <3>2, <3>3
    <2>7. <<env, new>> \in Stored(edited) \/ held # <<env, new>>
      BY <2>1, <2>4
    <2> QED BY <2>5, <2>6, <2>7
  <1> QED BY <1>5, <1>7 DEF edited, list, Without

LEMMA RemoveSolo ==
  ASSUME NEW copy, ListsOfVariants(copy.variants), NEW env \in Envs, NEW d,
         Fresh(copy.variants, d), NEW k, k \in DOMAIN copy.variants[env]
  PROVE  LET edited == Edited(copy, env, RemoveAt(copy.variants[env], k))
         IN  /\ Fresh(edited.variants, d)
             /\ Stored(edited) = Without(Stored(copy), copy.variants[env][k].id)
  <1> DEFINE present == copy.variants[env]
             list == RemoveAt(present, k)
             edited == Edited(copy, env, list)
             at == [i \in DOMAIN list |-> IF i < k THEN i ELSE i + 1]
  <1>1. present \in Seq(Range(present))
    BY DEF ListsOfVariants
  <1>2. /\ DOMAIN present = 1 .. Len(present) /\ Len(present) \in Nat /\ k \in 1 .. Len(present)
        /\ DOMAIN list = 1 .. Len(present) - 1
        /\ \A i \in 1 .. k - 1 : list[i] = present[i]
        /\ \A i \in k .. Len(present) - 1 : list[i] = present[i + 1]
    BY <1>1, RemoveAtIs
  <1> HIDE DEF list
  <1>3. /\ \A i \in DOMAIN list : at[i] \in DOMAIN present \ {k} /\ list[i] = present[at[i]]
        /\ \A i, j \in DOMAIN list : at[i] = at[j] => i = j
    <2>1. \A i \in DOMAIN list : at[i] = (IF i < k THEN i ELSE i + 1)
      OBVIOUS
    <2> HIDE DEF at
    <2>2. ASSUME NEW i \in DOMAIN list
          PROVE  at[i] \in DOMAIN present \ {k} /\ list[i] = present[at[i]]
      <3>1. CASE i < k
        <4>1. at[i] = i /\ i \in 1 .. k - 1
          BY <1>2, <2>1, <3>1
        <4> QED BY <1>2, <4>1
      <3>2. CASE i >= k
        <4>1. at[i] = i + 1 /\ i \in k .. Len(present) - 1
          BY <1>2, <2>1, <3>2
        <4> QED BY <1>2, <4>1
      <3> QED BY <1>2, <3>1, <3>2
    <2>3. ASSUME NEW i \in DOMAIN list, NEW j \in DOMAIN list, at[i] = at[j]
          PROVE  i = j
      BY <1>2, <2>1, <2>3
    <2> QED BY <2>2, <2>3
  <1>4. \A j \in DOMAIN present \ {k} : \E i \in DOMAIN list : list[i] = present[j]
    <2> SUFFICES ASSUME NEW j \in DOMAIN present, j # k PROVE \E i \in DOMAIN list : list[i] = present[j]
      OBVIOUS
    <2>1. CASE j < k
      <3>1. j \in DOMAIN list /\ list[j] = present[j]
        BY <1>2, <2>1
      <3> QED BY <3>1
    <2>2. CASE j > k
      <3>1. j - 1 \in DOMAIN list /\ list[j - 1] = present[j]
        BY <1>2, <2>2
      <3> QED BY <3>1
    <2> QED BY <1>2, <2>1, <2>2
  <1> HIDE DEF at
  <1>5. edited.variants[env] = list /\ \A f \in Envs \ {env} : edited.variants[f] = copy.variants[f]
    BY EditedAt
  <1> HIDE DEF edited
  <1>6. IdsDiffer(edited.variants)
    <2> SUFFICES ASSUME NEW f \in Envs, NEW g \in Envs, NEW i, i \in DOMAIN edited.variants[f],
                        NEW j, j \in DOMAIN edited.variants[g],
                        edited.variants[f][i].id = edited.variants[g][j].id
                 PROVE  f = g /\ i = j
      BY DEF IdsDiffer
    <2>1. CASE f = env /\ g = env
      <3>1. at[i] = at[j]
        BY <1>3, <1>5, <2>1 DEF Fresh, IdsDiffer
      <3> QED BY <1>3, <1>5, <2>1, <3>1
    <2>2. CASE f = env /\ g # env
      BY <1>3, <1>5, <2>2 DEF Fresh, IdsDiffer
    <2>3. CASE f # env /\ g = env
      BY <1>3, <1>5, <2>3 DEF Fresh, IdsDiffer
    <2>4. CASE f # env /\ g # env
      BY <1>5, <2>4 DEF Fresh, IdsDiffer
    <2> QED BY <2>1, <2>2, <2>3, <2>4
  <1>7. IdsUsed(edited.variants, d)
    <2> SUFFICES ASSUME NEW f \in Envs, NEW i, i \in DOMAIN edited.variants[f],
                        edited.variants[f][i].id[1] \in Tabs
                 PROVE  /\ edited.variants[f][i].id[2] \in Nat
                        /\ edited.variants[f][i].id[2] > d[edited.variants[f][i].id[1]].gestures
      BY DEF IdsUsed
    <2>1. PICK j \in DOMAIN copy.variants[f] : edited.variants[f][i] = copy.variants[f][j]
      BY <1>3, <1>5
    <2> QED BY <2>1 DEF Fresh, IdsUsed
  <1>8. ASSUME NEW f \in Envs, NEW i, i \in DOMAIN copy.variants[f]
        PROVE  copy.variants[f][i].id = present[k].id <=> f = env /\ i = k
    BY <1>8 DEF Fresh, IdsDiffer
  <1>9. ASSUME NEW held
        PROVE  held \in Stored(edited) <=> held \in Stored(copy) /\ held[2].id # present[k].id
    <2>1. held \in Stored(edited) <=>
            \/ \E f \in Envs \ {env} : \E i \in DOMAIN copy.variants[f] : held = <<f, copy.variants[f][i]>>
            \/ \E j \in DOMAIN list : held = <<env, list[j]>>
      BY StoredEdited DEF edited
    <2>2. held \in Stored(copy) <=>
            \E f \in Envs : \E i \in DOMAIN copy.variants[f] : held = <<f, copy.variants[f][i]>>
      BY StoredAre
    <2>3. ASSUME NEW f \in Envs, NEW i, i \in DOMAIN copy.variants[f], held = <<f, copy.variants[f][i]>>
          PROVE  held[2].id # present[k].id <=> ~(f = env /\ i = k)
      <3>1. held[2] = copy.variants[f][i]
        BY <2>3
      <3> QED BY <1>8, <2>3, <3>1
    <2>4. (\E j \in DOMAIN list : held = <<env, list[j]>>) <=>
            \E j \in DOMAIN present \ {k} : held = <<env, present[j]>>
      BY <1>3, <1>4
    <2>5. ASSUME held \in Stored(edited)
          PROVE  held \in Stored(copy) /\ held[2].id # present[k].id
      <3>1. CASE \E f \in Envs \ {env} : \E i \in DOMAIN copy.variants[f] : held = <<f, copy.variants[f][i]>>
        BY <2>2, <2>3, <3>1
      <3>2. CASE \E j \in DOMAIN present \ {k} : held = <<env, present[j]>>
        BY <2>2, <2>3, <3>2
      <3> QED BY <2>1, <2>4, <2>5, <3>1, <3>2
    <2>6. ASSUME held \in Stored(copy), held[2].id # present[k].id
          PROVE  held \in Stored(edited)
      <3>1. PICK f \in Envs : \E i \in DOMAIN copy.variants[f] : held = <<f, copy.variants[f][i]>>
        BY <2>2, <2>6
      <3>2. PICK i \in DOMAIN copy.variants[f] : held = <<f, copy.variants[f][i]>>
        BY <3>1
      <3>3. ~(f = env /\ i = k)
        BY <2>3, <2>6, <3>2
      <3> QED BY <2>1, <2>4, <3>2, <3>3
    <2> QED BY <2>5, <2>6
  <1>10. Stored(edited) = Without(Stored(copy), present[k].id)
    BY <1>9 DEF Without
  <1> QED BY <1>6, <1>7, <1>10 DEF edited, list, Fresh

\* Saving and deleting a variant, while nothing else is under way.
LEMMA SoloVariantsStep ==
  ASSUME EditorInvariant, DOMAIN kept = Items, NEW t \in Tabs, SoloNow(t), tabs[t] # Null, Gesture(t),
         tabs[t].page.at = "flags", NEW q, Send(q), ~crossed',
         q.status = "sent", q.tab = t, q.at = "flags", q.op = "variants", NEW item \in Items, q.item = item,
         NEW held, kept' = [kept EXCEPT ![item] = held],
         rows[item] # Null => Fresh(q.body.variants, desk') /\ held = Stored(q.body),
         \/ UNCHANGED tabs
         \/ \E tab : /\ tabs' = [tabs EXCEPT ![t] = tab]
                     /\ tab.n = tabs[t].n /\ tab.page = tabs[t].page /\ tab.copy = tabs[t].copy
                     /\ tab.modal = Null
  PROVE  SoloThen(t)
  <1>1. net = {} /\ net' = {q} /\ UNCHANGED rows
    BY DEF Send
  <1>2. DeskGoesOn
    BY GestureGoesOn
  <1>3. /\ \A u \in Tabs \ {t} : tabs'[u] = Null
        /\ tabs'[t].page = tabs[t].page /\ tabs'[t].copy = tabs[t].copy
        /\ tabs'[t].modal = tabs[t].modal \/ tabs'[t].modal = Null
    BY DEF EditorInvariant, TabsSound, SoloNow, Solo
  <1>4. SoloModal(tabs[t]) /\ SoloCopy(tabs[t], rows, {})
    BY <1>1 DEF SoloNow, Solo
  <1>5. SoloModal(tabs'[t])
    <2>1. CASE tabs'[t].modal = Null
      BY <2>1 DEF SoloModal
    <2>2. CASE tabs'[t].modal = tabs[t].modal
      BY <1>3, <1>4, <2>2, SameModal
    <2> QED BY <1>3, <2>1, <2>2
  <1>6. SoloCopy(tabs'[t], rows, net')
    BY <1>3, <1>4 DEF SoloCopy
  <1>7. kept'[item] = held /\ \A other \in Items \ {item} : kept'[other] = kept[other]
    OBVIOUS
  <1>8. SoloRequest(q, t, tabs'[t], rows, kept', desk')
    BY <1>3, <1>7 DEF SoloRequest
  <1>9. ASSUME NEW other \in Items PROVE SoloRow(other, rows, net', kept', desk')
    <2>1. SoloRow(other, rows, {}, kept, desk)
      BY <1>1 DEF SoloNow, Solo
    <2>2. Fresh(rows[other].variants, desk) => Fresh(rows[other].variants, desk')
      BY <1>2, FreshStays DEF DeskGoesOn
    <2>3. other = item => \E r \in net' : Underway(r, other)
      BY <1>1 DEF Underway
    <2> QED BY <1>7, <2>1, <2>2, <2>3 DEF SoloRow
  <1> QED BY <1>1, <1>3, <1>5, <1>6, <1>8, <1>9 DEF SoloThen, Solo

\* The lists of the page are those of the row, and are what was to be kept.
LEMMA SoloPresent ==
  ASSUME NEW t \in Tabs, SoloNow(t), tabs[t] # Null, tabs[t].page.at = "flags", net = {},
         NEW item \in Items, rows[item] # Null
  PROVE  /\ Fresh(tabs[t].copy[item].variants, desk)
         /\ kept[item] = Stored(tabs[t].copy[item])
         /\ SoloModal(tabs[t])
  <1>1. tabs[t].copy[item].variants = rows[item].variants /\ SoloModal(tabs[t])
    BY DEF SoloNow, Solo, SoloCopy
  <1>2. Fresh(rows[item].variants, desk) /\ kept[item] = Stored(rows[item])
    BY DEF SoloNow, Solo, SoloRow
  <1> QED BY <1>1, <1>2, SameStored

\* What is sent for a list.
LEMMA SendVariantsIs ==
  ASSUME NEW t \in Tabs, tabs[t].page.at = "flags", NEW item, NEW env, NEW list, NEW replaced,
         NEW closes, SendVariants(t, item, env, list, replaced, closes)
  PROVE  \E q : /\ Send(q) /\ q.status = "sent" /\ q.tab = t /\ q.at = "flags" /\ q.op = "variants"
                /\ q.item = item /\ q.body = Edited(tabs[t].copy[item], env, list)
  <1> DEFINE body == Edited(tabs[t].copy[item], env, list)
             request == Request(t, "variants", item, body)
             q == [request EXCEPT !.replaced = replaced, !.closes = closes]
  <1>1. Send(q)
    BY DEF SendVariants, Edited
  <1> HIDE DEF body
  <1>2. /\ DOMAIN request = RequestFields /\ request.tab = t /\ request.at = "flags"
        /\ request.op = "variants" /\ request.item = item /\ request.body = body /\ request.status = "sent"
    BY RequestIs
  <1> HIDE DEF request
  <1>3. /\ q.tab = t /\ q.at = "flags" /\ q.op = "variants" /\ q.item = item /\ q.body = body
        /\ q.status = "sent"
    BY <1>2 DEF RequestFields
  <1> HIDE DEF q
  <1> QED BY <1>1, <1>3 DEF body

LEMMA DeleteVariantSolo ==
  ASSUME EditorInvariant, DOMAIN kept = Items, NEW t \in Tabs, SoloNow(t), ~crossed', NEW u \in Tabs,
         NEW item \in Items, NEW env \in Envs, DeleteVariant(u, item, env)
  PROVE  SoloThen(t)
  <1> DEFINE copy == tabs[t].copy[item]
             present == copy.variants[env]
  <1>1. u = t /\ tabs[t] # Null /\ tabs[t].page.at = "flags" /\ Gesture(t) /\ copy # Null
    BY SoloActor DEF DeleteVariant, At, Listed
  <1>2. ListsOfVariants(copy.variants)
    BY <1>1, TabAt DEF SoundTab, WellFormed
  <1>3. DeleteVariant(t, item, env)
    BY <1>1
  <1>4. PICK k \in DOMAIN present :
          /\ SendVariants(t, item, env, RemoveAt(present, k), present[k].id, FALSE)
          /\ kept' = [kept EXCEPT ![item] = {held \in kept[item] : held[2].id # present[k].id}]
    BY <1>3, Zenon DEF DeleteVariant
  <1> DEFINE list == RemoveAt(present, k)
             replaced == present[k].id
             K == {held \in kept[item] : held[2].id # present[k].id}
             closes == FALSE
  <1>5. /\ UNCHANGED tabs /\ kept' = [kept EXCEPT ![item] = K]
        /\ SendVariants(t, item, env, list, replaced, closes)
    BY <1>1, <1>4 DEF DeleteVariant
  <1>6. PICK q : /\ Send(q) /\ q.status = "sent" /\ q.tab = t /\ q.at = "flags" /\ q.op = "variants"
                 /\ q.item = item /\ q.body = Edited(copy, env, list)
    <2> HIDE DEF list, replaced, K, closes
    <2> QED BY <1>1, <1>5, SendVariantsIs
  <1>7. net = {} /\ DeskGoesOn
    BY <1>1, <1>6, GestureGoesOn DEF Send
  <1>8. ASSUME rows[item] # Null PROVE Fresh(q.body.variants, desk') /\ K = Stored(q.body)
    <2>1. Fresh(copy.variants, desk) /\ kept[item] = Stored(copy)
      BY <1>1, <1>7, <1>8, SoloPresent
    <2>2. Fresh(copy.variants, desk')
      BY <1>7, <2>1, FreshStays DEF DeskGoesOn
    <2> HIDE DEF copy
    <2>3. LET edited == Edited(copy, env, RemoveAt(copy.variants[env], k))
          IN  /\ Fresh(edited.variants, desk')
              /\ Stored(edited) = Without(Stored(copy), copy.variants[env][k].id)
      BY <1>2, <2>2, RemoveSolo
    <2>4. K = Without(kept[item], copy.variants[env][k].id)
      BY DEF Without
    <2> HIDE DEF K
    <2> QED BY <1>6, <2>1, <2>3, <2>4
  <1> HIDE DEF K, list, replaced, closes
  <1> QED BY <1>1, <1>5, <1>6, <1>8, SoloVariantsStep

LEMMA SaveVariantSolo ==
  ASSUME EditorInvariant, DOMAIN kept = Items, NEW t \in Tabs, SoloNow(t), ~crossed', NEW u \in Tabs,
         SaveVariant(u)
  PROVE  SoloThen(t)
  <1> DEFINE modal == tabs[t].modal
             item == modal.item
             env == modal.env
             copy == tabs[t].copy[item]
             old == modal.old
             new == Spread(modal.edit, [id |-> IF old = Null THEN <<t, desk[t].gestures>> ELSE old.id])
             present == copy.variants[env]
             list == IF old = Null THEN Append(present, new)
                     ELSE [i \in DOMAIN present |-> IF present[i].id = old.id THEN new ELSE present[i]]
             replaced == IF old = Null THEN Null ELSE old.id
             tab == [tabs[t] EXCEPT !.modal = Null]
             gone == old # Null /\ \A i \in DOMAIN present : present[i].id # old.id
             K == IF gone THEN kept[item]
                  ELSE {held \in kept[item] : old = Null \/ held[2].id # old.id} \cup {<<env, new>>}
             closes == TRUE
  <1>1. u = t /\ tabs[t] # Null /\ tabs[t].page.at = "flags" /\ Gesture(t) /\ modal # Null
    BY SoloActor DEF SaveVariant, At
  <1>2. SoundTab(tabs[t]) /\ item \in Items /\ env \in Envs /\ ListsOfVariants(copy.variants)
    BY <1>1, TabAt DEF SoundTab, WellFormed
  <1>3. tab.n = tabs[t].n /\ tab.page = tabs[t].page /\ tab.copy = tabs[t].copy /\ tab.modal = Null
    BY <1>2 DEF SoundTab, TabFields
  <1>4. /\ tabs' = [tabs EXCEPT ![t] = tab] /\ kept' = [kept EXCEPT ![item] = K]
        /\ SendVariants(t, item, env, list, replaced, closes)
    BY <1>1 DEF SaveVariant
  <1>5. new.id = IF old = Null THEN <<t, desk[t].gestures>> ELSE old.id
    BY DEF Spread
  <1> HIDE DEF tab, new
  <1>6. PICK q : /\ Send(q) /\ q.status = "sent" /\ q.tab = t /\ q.at = "flags" /\ q.op = "variants"
                 /\ q.item = item /\ q.body = Edited(copy, env, list)
    <2> HIDE DEF list, replaced, K, item, env, old, gone, closes
    <2> QED BY <1>1, <1>4, SendVariantsIs
  <1>7. net = {} /\ DeskGoesOn
    BY <1>1, <1>6, GestureGoesOn DEF Send
  <1>8. ASSUME rows[item] # Null PROVE Fresh(q.body.variants, desk') /\ K = Stored(q.body)
    <2> HIDE DEF item, env, copy, old
    <2>1. Fresh(copy.variants, desk) /\ kept[item] = Stored(copy)
      BY <1>1, <1>2, <1>7, <1>8, SoloPresent DEF copy
    <2>2. Fresh(copy.variants, desk')
      BY <1>7, <2>1, FreshStays DEF DeskGoesOn
    <2>3. old = Null => K = kept[item] \cup {<<env, new>>} /\ list = Append(copy.variants[env], new)
      OBVIOUS
    <2>4. old # Null /\ ~gone =>
            /\ K = Without(kept[item], new.id) \cup {<<env, new>>}
            /\ list = Replaced(copy.variants[env], new)
            /\ \E k \in DOMAIN copy.variants[env] : copy.variants[env][k].id = new.id
      BY <1>5 DEF Without, Replaced
    <2>5. gone => old # Null /\ K = kept[item] /\ list = copy.variants[env]
      <3>1. present \in Seq(Range(present))
        BY <1>2 DEF ListsOfVariants
      <3>2. gone => list = present
        <4> HIDE DEF present
        <4> QED BY <3>1
      <3> HIDE DEF list
      <3> QED BY <3>2
    <2> HIDE DEF K, list, gone, present
    <2>6. CASE old = Null
      <3>1. desk'[t].gestures < desk[t].gestures
        BY <1>1 DEF Gesture, EditorInvariant, DeskSound
      <3>2. Adds(Edited(copy, env, Append(copy.variants[env], new)), copy, env, new, desk')
        <4>1. new.id = <<t, desk[t].gestures>>
          BY <1>5, <2>6
        <4>2. GesturesFall(desk, desk')
          BY <1>7 DEF DeskGoesOn, GesturesFall
        <4>3. ListsOfVariants(copy.variants) /\ env \in Envs /\ Fresh(copy.variants, desk)
          BY <1>2, <2>1
        <4> HIDE DEF modal
        <4> QED BY <3>1, <4>1, <4>2, <4>3, AppendSolo
      <3>3. q.body = Edited(copy, env, Append(copy.variants[env], new))
        BY <1>6, <2>3, <2>6
      <3> QED BY <2>1, <2>3, <2>6, <3>2, <3>3 DEF Adds
    <2>7. CASE old # Null /\ ~gone
      <3>1. PICK k \in DOMAIN copy.variants[env] : copy.variants[env][k].id = new.id
        BY <2>4, <2>7
      <3>2. LET edited == Edited(copy, env, Replaced(copy.variants[env], new))
            IN  /\ Fresh(edited.variants, desk')
                /\ Stored(edited) = Without(Stored(copy), new.id) \cup {<<env, new>>}
        BY <1>2, <2>2, <3>1, ReplaceSolo
      <3> QED BY <1>6, <2>1, <2>4, <2>7, <3>2
    <2>8. CASE gone
      <3>1. q.body = Edited(copy, env, copy.variants[env])
        BY <1>6, <2>5, <2>8
      <3>2. Fresh(q.body.variants, desk') /\ Stored(q.body) = Stored(copy)
        BY <1>2, <2>2, <3>1, KeepSolo
      <3> QED BY <2>1, <2>5, <2>8, <3>2
    <2> QED BY <2>6, <2>7, <2>8
  <1> HIDE DEF K, list, replaced, closes, item, env, old
  <1> QED BY <1>1, <1>2, <1>3, <1>4, <1>6, <1>8, SoloVariantsStep
-----------------------------------------------------------------------------
(* The steps of requests, for an administrator alone. *)

\* What a handler makes of the lists of variants.
LEMMA HandledVariants ==
  ASSUME EditorInvariant, NEW q \in net, ~Refuses(q)
  PROVE  /\ q.op = "create" => Handle(q).variants = [env \in Envs |-> <<>>]
         /\ q.op = "save" => Handle(q).variants = q.copy.variants
         /\ q.op \in {"toggle", "load"} => Handle(q).variants = rows[q.item].variants
         /\ q.op = "variants" => Handle(q).variants = q.body.variants
         /\ q.op = "delete" => Handle(q) = Null
         /\ Handle(q) # Refused
  <1>1. Meant(q)
    BY DEF EditorInvariant, NetSound
  <1>2. CASE q.op = "create"
    <2>1. Handle(q) = Created(q.body) /\ DOMAIN q.body = PayloadFields
      BY <1>1, <1>2 DEF Handle, Meant
    <2>2. Created(q.body).variants = [env \in Envs |-> <<>>]
      BY <2>1 DEF Created, Spread, PayloadFields
    <2>3. WellFormed(Created(q.body))
      BY <1>1, <1>2, CreatedIsWellFormed DEF Meant, Writes
    <2> QED BY <1>2, <2>1, <2>2, <2>3 DEF WellFormed, RowFields, Refused
  <1>3. CASE q.op = "delete"
    BY <1>3, RefusedAssumption DEF Handle
  <1>4. CASE q.op \in {"load", "save", "toggle", "variants"}
    <2>1. WellFormed(rows[q.item])
      BY <1>1, <1>4 DEF Refuses, Meant, EditorInvariant, RowsSound
    <2>2. Handle(q) # Refused
      BY <1>4, HandledIsSound DEF WellFormed, RowFields, Refused
    <2>3. CASE q.op = "load"
      BY <2>2, <2>3 DEF Handle
    <2>4. CASE q.op \in {"save", "toggle", "variants"}
      <3>1. Handle(q) = Updated(rows[q.item], q.body)
        BY <2>4 DEF Handle
      <3>2. Fits(q.body)
        BY <1>1, <2>4 DEF Meant, Writes
      <3>3. Updated(rows[q.item], q.body).variants =
              IF "variants" \in DOMAIN q.body THEN q.body.variants ELSE rows[q.item].variants
        BY <2>1, <3>2 DEF Updated, Spread, WellFormed, RowFields, Fits
      <3>4. /\ q.op = "save" => "variants" \in DOMAIN q.body /\ q.body.variants = q.copy.variants
            /\ q.op = "toggle" => "variants" \notin DOMAIN q.body
            /\ q.op = "variants" => "variants" \in DOMAIN q.body
        BY <1>1 DEF Meant
      <3> QED BY <2>2, <2>4, <3>1, <3>3, <3>4
    <2> QED BY <1>4, <2>3, <2>4
  <1> QED BY <1>1, <1>2, <1>3, <1>4 DEF Meant, Writes

LEMMA NothingStored ==
  ASSUME NEW row, row.variants = [env \in Envs |-> <<>>], NEW d
  PROVE  Fresh(row.variants, d) /\ Stored(row) = {}
  <1>1. \A env \in Envs : DOMAIN row.variants[env] = {}
    OBVIOUS
  <1>2. \A held : held \notin Stored(row)
    BY <1>1, StoredAre
  <1> QED BY <1>1, <1>2 DEF Fresh, IdsDiffer, IdsUsed

LEMMA ServeSolo ==
  ASSUME EditorInvariant, DOMAIN kept = Items, NEW t \in Tabs, SoloNow(t), ~crossed',
         NEW q \in net, Serve(q)
  PROVE  SoloThen(t)
  <1> DEFINE tab == tabs[t]
             p == Answered(q, Handle(q))
  <1>1. /\ ~Refuses(q) /\ There(q) /\ q.status = "sent" /\ UNCHANGED <<tabs, desk>>
        /\ net' = (net \ {q}) \cup {p}
    BY DEF Serve, Answered
  <1>2. /\ net = {q} /\ q.tab = t /\ Meant(q) /\ SoloRequest(q, t, tab, rows, kept, desk)
        /\ tab # Null => SoloModal(tab) /\ SoloCopy(tab, rows, {q})
        /\ \A i \in Items : SoloRow(i, rows, {q}, kept, desk)
    <2>1. net = {q}
      BY DEF SoloNow, Solo
    <2>2. q.tab = t /\ SoloRequest(q, t, tab, rows, kept, desk)
      BY DEF SoloNow, Solo, SoloRequest
    <2> QED BY <2>1, <2>2 DEF SoloNow, Solo, EditorInvariant, NetSound
  <1>3. Shows(tab, q) /\ tab # Null /\ tab.page.at = q.at /\ (q.op = "create" => tab.page.at = "new")
    BY <1>1, <1>2 DEF There, Shows, SoloRequest
  <1>4. net' = {p}
    BY <1>1, <1>2
  <1>5. /\ p.tab = t /\ p.n = q.n /\ p.at = q.at /\ p.op = q.op /\ p.item = q.item
        /\ p.body = q.body /\ p.copy = q.copy /\ p.status = "applied" /\ p.reply = Handle(q)
    BY <1>2 DEF Answered, Meant, RequestFields
  <1>6. PICK item \in Items :
          /\ q.op # "create" => item = q.item
          /\ q.op = "create" => rows[item] = Null
          /\ rows' = [rows EXCEPT ![item] = Handle(q)]
          /\ kept' = IF q.op = "create" THEN [kept EXCEPT ![item] = {}] ELSE kept
    BY <1>1, <1>2 DEF Serve, Free, Meant
  <1>7. rows'[item] = Handle(q) /\ \A i \in Items \ {item} : rows'[i] = rows[i] /\ kept'[i] = kept[i]
    BY <1>6 DEF EditorInvariant, RowsSound
  <1>8. q.op # "create" => rows[item] # Null
    BY <1>1, <1>6 DEF Refuses
  <1>9. /\ q.op = "create" => Handle(q).variants = [env \in Envs |-> <<>>]
        /\ q.op \in {"save", "toggle", "load"} => Handle(q).variants = rows[item].variants
        /\ q.op = "variants" => Handle(q).variants = q.body.variants
        /\ q.op = "delete" => Handle(q) = Null
        /\ Handle(q) # Refused
    BY <1>1, <1>2, <1>3, <1>6, <1>8, HandledVariants DEF SoloRequest
  <1> HIDE DEF p, tab
  <1>10. SoloModal(tab)
    BY <1>2, <1>3 DEF SoloModal
  <1>11. SoloRequest(p, t, tab, rows', kept', desk)
    BY <1>2, <1>3, <1>5, <1>6, <1>7, <1>9 DEF SoloRequest, Shows
  <1>12. SoloCopy(tab, rows', {p})
    <2> SUFFICES ASSUME tab.page.at # "new", NEW i \in Items, rows'[i] # Null, ~Unheard(p, i, tab)
                 PROVE  tab.copy[i].variants = rows'[i].variants
      BY DEF SoloCopy
    <2>1. q.op # "create"
      BY <1>3
    <2>2. rows[i] # Null => tab.copy[i].variants = rows[i].variants
      BY <1>1, <1>2, <1>3 DEF SoloCopy, Unheard
    <2>3. CASE i # item
      BY <1>7, <2>2, <2>3
    <2>4. CASE i = item
      <3>1. q.op # "variants"
        BY <1>3, <1>5, <1>6, <2>1, <2>4 DEF Unheard, Shows
      <3>2. q.op \in {"save", "toggle", "load"}
        BY <1>2, <1>7, <1>9, <2>1, <2>4, <3>1 DEF Meant, Writes
      <3> QED BY <1>7, <1>8, <1>9, <2>1, <2>2, <2>4, <3>2
    <2> QED BY <2>3, <2>4
  <1>13. ASSUME NEW i \in Items PROVE SoloRow(i, rows', {p}, kept', desk)
    <2> SUFFICES ASSUME rows'[i] # Null PROVE Fresh(rows'[i].variants, desk) /\ kept'[i] = Stored(rows'[i])
      BY DEF SoloRow
    <2>1. rows[i] # Null /\ ~Underway(q, i) => Fresh(rows[i].variants, desk) /\ kept[i] = Stored(rows[i])
      BY <1>2 DEF SoloRow
    <2>2. CASE i # item
      <3>1. ~Underway(q, i)
        BY <1>6, <2>2 DEF Underway
      <3> QED BY <1>7, <2>1, <2>2, <3>1
    <2>3. CASE i = item /\ q.op = "create"
      <3>1. kept'[i] = {}
        BY <1>6, <2>3
      <3> QED BY <1>7, <1>9, <2>3, <3>1, NothingStored
    <2>4. CASE i = item /\ q.op \in {"save", "toggle", "load"}
      <3>1. ~Underway(q, i)
        BY <2>4 DEF Underway
      <3>2. rows'[i].variants = rows[i].variants /\ kept'[i] = kept[i]
        BY <1>6, <1>7, <1>9, <2>4
      <3> QED BY <1>8, <2>1, <2>4, <3>1, <3>2, SameStored
    <2>5. CASE i = item /\ q.op = "variants"
      <3>1. Fresh(q.body.variants, desk) /\ kept[i] = Stored(q.body)
        BY <1>1, <1>2, <1>6, <1>8, <2>5 DEF SoloRequest
      <3>2. rows'[i].variants = q.body.variants /\ kept'[i] = kept[i]
        BY <1>6, <1>7, <1>9, <2>5
      <3> QED BY <3>1, <3>2, SameStored
    <2>6. q.op # "delete" \/ i # item
      BY <1>7, <1>9
    <2> QED BY <1>2, <2>2, <2>3, <2>4, <2>5, <2>6 DEF Meant, Writes
  <1> QED BY <1>1, <1>4, <1>10, <1>11, <1>12, <1>13 DEF SoloThen, SoloNow, Solo, tab

\* An answer arrives; nothing is under way, or a page loads its flag again.
LEMMA SoloAnswerStep ==
  ASSUME NEW t \in Tabs, SoloNow(t), NEW q \in net, q.status = "applied", UNCHANGED <<rows, desk, kept>>,
         \/ net' = {}
         \/ \E r : net' = {r} /\ SoloRequest(r, t, tabs'[t], rows, kept, desk) /\ r.op = "load",
         \A u \in Tabs \ {t} : tabs'[u] = Null,
         tabs'[t] # Null => SoloModal(tabs'[t]) /\ SoloCopy(tabs'[t], rows, {})
  PROVE  SoloThen(t)
  <1>1. net = {q}
    BY DEF SoloNow, Solo
  <1>2. ASSUME NEW i \in Items PROVE SoloRow(i, rows, {}, kept, desk)
    BY <1>1 DEF SoloNow, Solo, SoloRow, Underway
  <1>3. CASE net' = {}
    BY <1>2, <1>3 DEF SoloThen, Solo
  <1>4. CASE \E r : net' = {r} /\ SoloRequest(r, t, tabs'[t], rows, kept, desk) /\ r.op = "load"
    <2>1. PICK r : net' = {r} /\ SoloRequest(r, t, tabs'[t], rows, kept, desk) /\ r.op = "load"
      BY <1>4
    <2>2. \A i \in Items : SoloRow(i, rows, net', kept, desk)
      BY <1>2, <2>1 DEF SoloRow, Underway
    <2>3. tabs'[t] # Null => SoloCopy(tabs'[t], rows, net')
      BY <2>1 DEF SoloCopy, Unheard
    <2> QED BY <2>1, <2>2, <2>3 DEF SoloThen, Solo
  <1> QED BY <1>3, <1>4

\* A page whose request was not for lists of variants, or is not the one that is shown.
LEMMA SoloAnswered ==
  ASSUME EditorInvariant, NEW t \in Tabs, SoloNow(t), NEW q \in net, q.status = "applied"
  PROVE  /\ net = {q} /\ q.tab = t /\ Meant(q) /\ SoloRequest(q, t, tabs[t], rows, kept, desk)
         /\ q.reply # Refused /\ DOMAIN tabs = Tabs /\ \A u \in Tabs \ {t} : tabs[u] = Null
         /\ There(q) <=> Shows(tabs[t], q)
         /\ tabs[t] # Null => SoloModal(tabs[t])
         /\ tabs[t] # Null /\ (q.op # "variants" \/ ~There(q)) => SoloCopy(tabs[t], rows, {})
         /\ q.op # "create" => q.item \in Items
  <1>1. net = {q} /\ q.tab = t /\ SoloRequest(q, t, tabs[t], rows, kept, desk)
    BY DEF SoloNow, Solo, SoloRequest
  <1>2. There(q) <=> Shows(tabs[t], q)
    BY <1>1 DEF There, Shows
  <1>3. ASSUME tabs[t] # Null, q.op # "variants" \/ ~There(q) PROVE SoloCopy(tabs[t], rows, {})
    <2>1. SoloCopy(tabs[t], rows, {q})
      BY <1>1, <1>3 DEF SoloNow, Solo
    <2>2. \A i : ~Unheard(q, i, tabs[t])
      BY <1>2, <1>3 DEF Unheard
    <2> QED BY <2>1, <2>2 DEF SoloCopy
  <1>4. Meant(q) /\ (q.op # "create" => q.item \in Items)
    BY DEF EditorInvariant, NetSound, Meant
  <1>5. q.reply # Refused /\ DOMAIN tabs = Tabs /\ \A u \in Tabs \ {t} : tabs[u] = Null
    BY <1>1 DEF SoloRequest, SoloNow, Solo, EditorInvariant, TabsSound
  <1>6. tabs[t] # Null => SoloModal(tabs[t])
    BY DEF SoloNow, Solo
  <1> QED BY <1>1, <1>2, <1>3, <1>4, <1>5, <1>6

LEMMA AnswerFormSolo ==
  ASSUME EditorInvariant, NEW t \in Tabs, SoloNow(t), NEW q \in net, q.status = "applied",
         UNCHANGED <<rows, desk, kept>>, AnswerForm(q)
  PROVE  SoloThen(t)
  <1>1. net' = {} /\ tabs' = [tabs EXCEPT ![t] = Null]
    BY SoloAnswered DEF AnswerForm
  <1>2. \A u \in Tabs : tabs'[u] = Null
    BY <1>1, SoloAnswered
  <1> QED BY <1>1, <1>2, SoloAnswerStep

\* A page shows the row it was answered with.
LEMMA SoloShowsRow ==
  ASSUME NEW tab, SoundTab(tab), SoloModal(tab), SoloCopy(tab, rows, {}), NEW item \in Items, NEW row,
         rows[item] # Null => row.variants = rows[item].variants,
         NEW shown, shown.page = tab.page, shown.modal = tab.modal, shown.copy = [tab.copy EXCEPT ![item] = row]
  PROVE  SoloModal(shown) /\ SoloCopy(shown, rows, {})
  <1>1. DOMAIN tab.copy = Items /\ (tab.modal # Null => tab.modal.item \in Items)
    BY DEF SoundTab
  <1>2. shown.copy[item] = row /\ \A i \in Items \ {item} : shown.copy[i] = tab.copy[i]
    BY <1>1
  <1>3. ASSUME tab.page.at # "new", NEW i \in Items, rows[i] # Null
        PROVE  shown.copy[i].variants = rows[i].variants /\ shown.copy[i].variants = tab.copy[i].variants
    BY <1>2, <1>3 DEF SoloCopy
  <1>4. SoloCopy(shown, rows, {})
    BY <1>3 DEF SoloCopy
  <1>5. SoloModal(shown)
    BY Zenon DEF SoloModal
  <1> QED BY <1>4, <1>5

LEMMA AnswerToggleSolo ==
  ASSUME EditorInvariant, NEW t \in Tabs, SoloNow(t), NEW q \in net, q.status = "applied",
         UNCHANGED <<rows, desk, kept>>, AnswerToggle(q)
  PROVE  SoloThen(t)
  <1>1. q.op = "toggle" /\ q.op # "variants" /\ q.op # "create"
    BY DEF AnswerToggle
  <1>2. /\ net = {q} /\ q.tab = t /\ Meant(q) /\ SoloRequest(q, t, tabs[t], rows, kept, desk)
        /\ q.reply # Refused /\ DOMAIN tabs = Tabs /\ \A u \in Tabs \ {t} : tabs[u] = Null
        /\ There(q) <=> Shows(tabs[t], q)
        /\ tabs[t] # Null => SoloModal(tabs[t]) /\ SoloCopy(tabs[t], rows, {})
        /\ q.op = "toggle" /\ q.item \in Items
    BY <1>1, SoloAnswered
  <1>3. CASE ~There(q)
    <2>1. net' = {} /\ UNCHANGED tabs
      BY <1>2, <1>3 DEF AnswerToggle
    <2> QED BY <1>2, <2>1, SoloAnswerStep
  <1>4. CASE There(q) /\ q.at = "edit"
    <2> DEFINE r == [q EXCEPT !.op = "load", !.status = "sent", !.reply = Null]
    <2>1. net' = {r} /\ UNCHANGED tabs
      BY <1>2, <1>4 DEF AnswerToggle
    <2>2. r.tab = t /\ r.n = q.n /\ r.at = q.at /\ r.op = "load" /\ r.status = "sent"
      BY <1>2 DEF Meant, RequestFields
    <2> HIDE DEF r
    <2>3. SoloRequest(r, t, tabs'[t], rows, kept, desk)
      BY <1>2, <2>1, <2>2 DEF SoloRequest, Shows
    <2> QED BY <1>2, <2>1, <2>2, <2>3, SoloAnswerStep
  <1>5. CASE There(q) /\ q.at # "edit"
    <2> DEFINE tab == tabs[t]
               shown == [tab EXCEPT !.copy = [tab.copy EXCEPT ![q.item] = q.reply]]
    <2>1. tab # Null /\ SoundTab(tab)
      BY <1>2, <1>5, TabAt DEF Shows
    <2>2. net' = {} /\ tabs' = [tabs EXCEPT ![t] = shown]
      BY <1>2, <1>5 DEF AnswerToggle
    <2>3. /\ shown.page = tab.page /\ shown.modal = tab.modal
          /\ shown.copy = [tab.copy EXCEPT ![q.item] = q.reply]
      BY <2>1 DEF SoundTab, TabFields
    <2>4. rows[q.item] # Null => q.reply.variants = rows[q.item].variants
      BY <1>2 DEF SoloRequest
    <2> HIDE DEF shown
    <2>5. SoloModal(shown) /\ SoloCopy(shown, rows, {})
      BY <1>2, <2>1, <2>3, <2>4, SoloShowsRow
    <2>6. tabs'[t] = shown /\ \A u \in Tabs \ {t} : tabs'[u] = Null
      BY <1>2, <2>2
    <2> QED BY <2>2, <2>5, <2>6, SoloAnswerStep
  <1> QED BY <1>3, <1>4, <1>5

LEMMA AnswerLoadSolo ==
  ASSUME EditorInvariant, NEW t \in Tabs, SoloNow(t), NEW q \in net, q.status = "applied",
         UNCHANGED <<rows, desk, kept>>, AnswerLoad(q)
  PROVE  SoloThen(t)
  <1>1. q.op = "load" /\ q.op # "variants" /\ q.op # "create"
    BY DEF AnswerLoad
  <1>2. /\ net = {q} /\ q.tab = t /\ Meant(q) /\ SoloRequest(q, t, tabs[t], rows, kept, desk)
        /\ q.reply # Refused /\ DOMAIN tabs = Tabs /\ \A u \in Tabs \ {t} : tabs[u] = Null
        /\ There(q) <=> Shows(tabs[t], q)
        /\ tabs[t] # Null => SoloModal(tabs[t]) /\ SoloCopy(tabs[t], rows, {})
        /\ q.op = "load" /\ q.item \in Items
    BY <1>1, SoloAnswered
  <1>3. net' = {}
    BY <1>2 DEF AnswerLoad
  <1>4. CASE ~There(q)
    <2>1. UNCHANGED tabs
      BY <1>4 DEF AnswerLoad
    <2> QED BY <1>2, <1>3, <2>1, SoloAnswerStep
  <1>5. CASE There(q)
    <2> DEFINE tab == tabs[t]
               form == EditFlag(q.reply)
               shown == [tab EXCEPT !.copy = [tab.copy EXCEPT ![q.item] = q.reply], !.loading = FALSE,
                                    !.form = form, !.initial = form]
    <2>1. tab # Null /\ SoundTab(tab)
      BY <1>2, <1>5, TabAt DEF Shows
    <2>2. tabs' = [tabs EXCEPT ![t] = shown]
      BY <1>2, <1>5 DEF AnswerLoad
    <2> HIDE DEF form
    <2>3. /\ shown.page = tab.page /\ shown.modal = tab.modal
          /\ shown.copy = [tab.copy EXCEPT ![q.item] = q.reply]
      BY <2>1 DEF SoundTab, TabFields
    <2>4. rows[q.item] # Null => q.reply.variants = rows[q.item].variants
      BY <1>2 DEF SoloRequest
    <2> HIDE DEF shown
    <2>5. SoloModal(shown) /\ SoloCopy(shown, rows, {})
      BY <1>2, <2>1, <2>3, <2>4, SoloShowsRow
    <2>6. tabs'[t] = shown /\ \A u \in Tabs \ {t} : tabs'[u] = Null
      BY <1>2, <2>2
    <2> QED BY <1>3, <2>5, <2>6, SoloAnswerStep
  <1> QED BY <1>4, <1>5

LEMMA AnswerVariantsSolo ==
  ASSUME EditorInvariant, NEW t \in Tabs, SoloNow(t), NEW q \in net, q.status = "applied",
         UNCHANGED <<rows, desk, kept>>, AnswerVariants(q)
  PROVE  SoloThen(t)
  <1>1. q.op = "variants" /\ q.op # "create"
    BY DEF AnswerVariants
  <1>2. /\ net = {q} /\ q.tab = t /\ Meant(q) /\ SoloRequest(q, t, tabs[t], rows, kept, desk)
        /\ q.reply # Refused /\ DOMAIN tabs = Tabs /\ \A u \in Tabs \ {t} : tabs[u] = Null
        /\ There(q) <=> Shows(tabs[t], q)
        /\ tabs[t] # Null => SoloModal(tabs[t])
        /\ tabs[t] # Null /\ ~There(q) => SoloCopy(tabs[t], rows, {})
        /\ q.op = "variants" /\ q.item \in Items
    BY <1>1, SoloAnswered
  <1>3. net' = {}
    BY <1>2 DEF AnswerVariants
  <1>4. CASE ~There(q)
    <2>1. UNCHANGED tabs
      BY <1>4 DEF AnswerVariants
    <2> QED BY <1>2, <1>3, <1>4, <2>1, SoloAnswerStep
  <1>5. CASE There(q)
    <2> DEFINE tab == tabs[t]
               copy == [tab.copy EXCEPT ![q.item] = [tab.copy[q.item] EXCEPT !.variants = q.body.variants]]
               modal == IF q.closes /\ tab.modal # Null /\ tab.modal.item = q.item THEN Null ELSE tab.modal
               shown == [tab EXCEPT !.copy = copy, !.modal = modal]
    <2>1. tab # Null /\ SoundTab(tab) /\ WellFormed(tab.copy[q.item])
      BY <1>2, <1>5, TabAt DEF Shows, EditorInvariant, NetSound, Placed
    <2>2. tabs' = [tabs EXCEPT ![t] = shown]
      BY <1>2, <1>5 DEF AnswerVariants
    <2>3. /\ copy[q.item].variants = q.body.variants
          /\ \A i \in Items \ {q.item} : copy[i] = tab.copy[i]
      BY <1>2, <2>1 DEF SoundTab, WellFormed, RowFields
    <2> HIDE DEF copy
    <2>4. modal # Null => modal = tab.modal
      OBVIOUS
    <2> HIDE DEF modal
    <2>5. shown.page = tab.page /\ shown.modal = modal /\ shown.copy = copy
      BY <2>1 DEF SoundTab, TabFields
    <2> HIDE DEF shown
    <2>6. SoloModal(shown)
      <3>1. SoloModal(tab)
        BY <1>2, <2>1
      <3> HIDE DEF tab
      <3> QED BY <2>4, <2>5, <3>1 DEF SoloModal
    <2>7. SoloCopy(shown, rows, {})
      <3>1. SoloCopy(tab, rows, {q})
        BY <1>2, <2>1 DEF SoloNow, Solo
      <3>2. \A i \in Items \ {q.item} : ~Unheard(q, i, tab)
        BY DEF Unheard
      <3>3. rows[q.item] # Null => q.body.variants = rows[q.item].variants
        BY <1>2 DEF SoloRequest
      <3> HIDE DEF tab
      <3> QED BY <2>3, <2>5, <3>1, <3>2, <3>3 DEF SoloCopy
    <2>8. tabs'[t] = shown /\ \A u \in Tabs \ {t} : tabs'[u] = Null
      BY <1>2, <2>2
    <2> QED BY <1>3, <2>6, <2>7, <2>8, SoloAnswerStep
  <1> QED BY <1>4, <1>5

LEMMA ReleaseSolo ==
  ASSUME EditorInvariant, NEW t \in Tabs, SoloNow(t), Release
  PROVE  SoloThen(t)
  <1>1. ASSUME NEW i \in Items, rows'[i] # Null
        PROVE  rows[i] # Null /\ rows'[i].variants = rows[i].variants
    <2>1. rows[i] # Null /\ rows'[i] = [rows[i] EXCEPT !.published = TRUE, !.released = rows[i].archived]
      BY <1>1 DEF Release
    <2>2. WellFormed(rows[i])
      BY <2>1 DEF EditorInvariant, RowsSound
    <2> QED BY <2>1, <2>2 DEF WellFormed, RowFields
  <1>2. UNCHANGED <<tabs, net, desk, kept>>
    BY DEF Release
  <1>3. ASSUME NEW q \in net PROVE SoloRequest(q, t, tabs[t], rows', kept, desk)
    <2>1. SoloRequest(q, t, tabs[t], rows, kept, desk) /\ (q.op # "create" => q.item \in Items)
      BY DEF SoloNow, Solo, EditorInvariant, NetSound, Meant
    <2> QED BY <1>1, <2>1 DEF SoloRequest
  <1>4. ASSUME NEW i \in Items PROVE SoloRow(i, rows', net, kept, desk)
    <2>1. SoloRow(i, rows, net, kept, desk)
      BY DEF SoloNow, Solo
    <2> QED BY <1>1, <2>1, SameStored DEF SoloRow
  <1>5. ASSUME tabs[t] # Null PROVE SoloModal(tabs[t]) /\ SoloCopy(tabs[t], rows', net)
    <2>1. SoloModal(tabs[t]) /\ SoloCopy(tabs[t], rows, net)
      BY <1>5 DEF SoloNow, Solo
    <2>2. tabs[t].modal # Null => tabs[t].modal.item \in Items
      BY <1>5, TabAt DEF SoundTab
    <2> QED BY <1>1, <2>1, <2>2 DEF SoloModal, SoloCopy
  <1> QED BY <1>2, <1>3, <1>4, <1>5 DEF SoloThen, SoloNow, Solo

LEMMA StutterSolo ==
  ASSUME EditorInvariant, NEW t \in Tabs, SoloNow(t), UNCHANGED vars
  PROVE  SoloThen(t)
  BY DEF SoloNow, SoloThen, vars

\* Who works at what does not change, and what went wrong stays so.
LEMMA StaysAlone ==
  ASSUME EditorInvariant, [Next]_vars
  PROVE  /\ \A u \in Tabs : desk'[u].pages = desk[u].pages
         /\ crossed => crossed'
  <1>1. ASSUME NEW u \in Tabs, Gesture(u)
        PROVE  \A v \in Tabs : desk'[v].pages = desk[v].pages
    BY <1>1, GestureGoesOn DEF DeskGoesOn
  <1>2. ASSUME NEW u \in Tabs, NEW page \in desk[u].pages, Open(u, page)
        PROVE  (\A v \in Tabs : desk'[v].pages = desk[v].pages) /\ UNCHANGED crossed
    BY <1>2 DEF Open, EditorInvariant, DeskSound
  <1>3. ASSUME NEW q, Send(q)
        PROVE  crossed => crossed'
    BY <1>3, Zenon DEF Send
  <1>4. ASSUME NEW u \in Tabs, Leave(u) \/ CancelVariant(u)
        PROVE  UNCHANGED <<desk, crossed>>
    BY <1>4 DEF Leave, CancelVariant
  <1>5. ASSUME NEW u \in Tabs, Type(u) \/ TypeVariant(u)
        PROVE  Gesture(u) /\ UNCHANGED crossed
    BY <1>5 DEF Type, TypeVariant
  <1>6. ASSUME NEW u \in Tabs, SubmitNew(u) \/ SubmitEdit(u) \/ ToggleEdit(u) \/ DeleteEdit(u) \/ SaveVariant(u)
        PROVE  Gesture(u) /\ (crossed => crossed')
    <2>1. Gesture(u) /\ \E q : Send(q)
      BY <1>6 DEF SubmitNew, SubmitEdit, ToggleEdit, DeleteEdit, SaveVariant, SendVariants
    <2> QED BY <1>3, <2>1
  <1>7. ASSUME NEW u \in Tabs, NEW item \in Items, NEW env \in Envs, ShowVariant(u, item, env)
        PROVE  Gesture(u) /\ UNCHANGED crossed
    BY <1>7 DEF ShowVariant
  <1>8. ASSUME NEW u \in Tabs, NEW item \in Items,
               ToggleRow(u, item) \/ DeleteRow(u, item) \/ \E env \in Envs : DeleteVariant(u, item, env)
        PROVE  Gesture(u) /\ (crossed => crossed')
    <2>1. Gesture(u) /\ \E q : Send(q)
      BY <1>8 DEF ToggleRow, DeleteRow, DeleteVariant, SendVariants
    <2> QED BY <1>3, <2>1
  <1>9. ASSUME NEW q \in net, Serve(q) \/ Lose(q) \/ Answer(q)
        PROVE  UNCHANGED desk
    BY <1>9 DEF Serve, Lose, Answer
  <1>10. ASSUME NEW q \in net, Serve(q) \/ Lose(q) \/ Answer(q)
         PROVE  crossed => crossed'
    <2>1. CASE Serve(q)
      BY <2>1, Zenon DEF Serve
    <2>2. CASE Lose(q)
      BY <2>2, Zenon DEF Lose
    <2>3. CASE Answer(q)
      BY <2>3, Zenon DEF Answer
    <2> QED BY <1>10, <2>1, <2>2, <2>3
  <1>11. Release \/ UNCHANGED vars => UNCHANGED <<desk, crossed>>
    BY DEF Release, vars
  <1> QED BY <1>1, <1>2, <1>4, <1>5, <1>6, <1>7, <1>8, <1>9, <1>10, <1>11 DEF Next

LEMMA KeptStays ==
  ASSUME DOMAIN kept = Items, [Next]_vars
  PROVE  DOMAIN kept' = Items
  <1>1. ASSUME NEW u \in Tabs, \/ Leave(u) \/ Type(u) \/ SubmitNew(u) \/ SubmitEdit(u) \/ ToggleEdit(u)
                               \/ DeleteEdit(u) \/ TypeVariant(u) \/ CancelVariant(u)
                               \/ \E page \in desk[u].pages : Open(u, page)
        PROVE  UNCHANGED kept
    BY <1>1 DEF Leave, Type, SubmitNew, SubmitEdit, ToggleEdit, DeleteEdit, TypeVariant, CancelVariant, Open
  <1>2. ASSUME NEW u \in Tabs, SaveVariant(u)
        PROVE  DOMAIN kept' = Items
    BY <1>2 DEF SaveVariant
  <1>3. ASSUME NEW u \in Tabs, NEW item \in Items,
               \/ ToggleRow(u, item) \/ DeleteRow(u, item) \/ \E env \in Envs : ShowVariant(u, item, env)
        PROVE  UNCHANGED kept
    BY <1>3 DEF ToggleRow, DeleteRow, ShowVariant
  <1>4. ASSUME NEW u \in Tabs, NEW item \in Items, NEW env \in Envs, DeleteVariant(u, item, env)
        PROVE  DOMAIN kept' = Items
    BY <1>4 DEF DeleteVariant
  <1>5. ASSUME NEW q \in net, Serve(q)
        PROVE  DOMAIN kept' = Items
    BY <1>5 DEF Serve
  <1>6. ASSUME NEW q \in net, Lose(q) \/ Answer(q)
        PROVE  UNCHANGED kept
    BY <1>6 DEF Lose, Answer
  <1>7. Release \/ UNCHANGED vars => UNCHANGED kept
    BY DEF Release, vars
  <1> QED BY <1>1, <1>2, <1>3, <1>4, <1>5, <1>6, <1>7 DEF Next

LEMMA SoloStep ==
  ASSUME EditorInvariant, SoloInvariant, [Next]_vars
  PROVE  SoloInvariant'
  <1>1. ASSUME NEW t \in Tabs, Alone(t)', ~crossed'
        PROVE  SoloThen(t)
    <2>1. Alone(t) /\ ~crossed /\ DOMAIN kept = Items /\ SoloNow(t)
      <3>1. Alone(t) /\ ~crossed
        BY <1>1, StaysAlone DEF Alone
      <3> QED BY <3>1 DEF SoloInvariant, SoloNow
    <2>2. ASSUME NEW u \in Tabs, NEW page \in desk[u].pages, Open(u, page) PROVE SoloThen(t)
      BY <2>1, <2>2, OpenSolo
    <2>3. ASSUME NEW u \in Tabs, Leave(u) \/ Type(u) \/ TypeVariant(u) \/ CancelVariant(u) PROVE SoloThen(t)
      BY <2>1, <2>3, LeaveSolo, TypeSolo, TypeVariantSolo, CancelVariantSolo
    <2>4. ASSUME NEW u \in Tabs, SubmitNew(u) \/ SubmitEdit(u) \/ ToggleEdit(u) \/ DeleteEdit(u)
          PROVE  SoloThen(t)
      BY <1>1, <2>1, <2>4, SubmitNewSolo, SubmitEditSolo, ToggleEditSolo, DeleteEditSolo
    <2>5. ASSUME NEW u \in Tabs, SaveVariant(u) PROVE SoloThen(t)
      BY <1>1, <2>1, <2>5, SaveVariantSolo
    <2>6. ASSUME NEW u \in Tabs, NEW item \in Items, ToggleRow(u, item) \/ DeleteRow(u, item)
          PROVE  SoloThen(t)
      BY <1>1, <2>1, <2>6, ToggleRowSolo, DeleteRowSolo
    <2>7. ASSUME NEW u \in Tabs, NEW item \in Items, NEW env \in Envs,
                 ShowVariant(u, item, env) \/ DeleteVariant(u, item, env)
          PROVE  SoloThen(t)
      BY <1>1, <2>1, <2>7, ShowVariantSolo, DeleteVariantSolo
    <2>8. ASSUME NEW q \in net, Serve(q) PROVE SoloThen(t)
      BY <1>1, <2>1, <2>8, ServeSolo
    <2>9. ASSUME NEW q \in net, Lose(q) PROVE SoloThen(t)
      BY <1>1, <2>9 DEF Lose
    <2>10. ASSUME NEW q \in net, Answer(q) PROVE SoloThen(t)
      <3>1. q.status = "applied" /\ UNCHANGED <<rows, desk, kept>>
        BY <2>10 DEF Answer
      <3>2. AnswerForm(q) \/ AnswerToggle(q) \/ AnswerLoad(q) \/ AnswerVariants(q)
        BY <2>10 DEF Answer
      <3> QED BY <2>1, <3>1, <3>2, AnswerFormSolo, AnswerToggleSolo, AnswerLoadSolo, AnswerVariantsSolo
    <2>11. Release => SoloThen(t)
      BY <2>1, ReleaseSolo
    <2>12. UNCHANGED vars => SoloThen(t)
      BY <2>1, StutterSolo
    <2> QED BY <2>2, <2>3, <2>4, <2>5, <2>6, <2>7, <2>8, <2>9, <2>10, <2>11, <2>12 DEF Next
  <1>2. DOMAIN kept' = Items
    BY KeptStays DEF SoloInvariant
  <1> QED BY <1>1, <1>2 DEF SoloInvariant, SoloThen

LEMMA StartsSolo == Init => SoloInvariant
  <1> SUFFICES ASSUME Init PROVE SoloInvariant
    OBVIOUS
  <1>1. ASSUME NEW t \in Tabs
        PROVE  Solo(t, rows, tabs, net, desk, kept)
    <2>1. net = {} /\ \A u \in Tabs : tabs[u] = Null
      BY DEF Init
    <2>2. ASSUME NEW i \in Items PROVE SoloRow(i, rows, net, kept, desk)
      <3> SUFFICES ASSUME rows[i] # Null PROVE Fresh(rows[i].variants, desk) /\ kept[i] = Stored(rows[i])
        BY DEF SoloRow
      <3>1. IdsDiffer(rows[i].variants) /\ \A env \in Envs : \A variant \in Range(rows[i].variants[env]) :
              variant.id[1] \notin Tabs
        BY ScenarioAssumption DEF Init
      <3>2. \A env \in Envs : \A j \in DOMAIN rows[i].variants[env] : rows[i].variants[env][j].id[1] \notin Tabs
        BY <3>1 DEF Range
      <3>3. kept[i] = Stored(rows[i])
        BY DEF Init
      <3> QED BY <3>1, <3>2, <3>3 DEF Fresh, IdsUsed
    <2> QED BY <2>1, <2>2 DEF Solo
  <1>2. DOMAIN kept = Items
    BY DEF Init
  <1> QED BY <1>1, <1>2 DEF SoloInvariant

\* An administrator alone, whose requests all succeeded and were each awaited, has stored exactly the
\* variants saved and not deleted since (flag-row.tsx, handleVariantSave and handleVariantDelete).
THEOREM AwaitedEditsAreKept == Spec => []AwaitedEditsKept
  <1>1. SoloInvariant => AwaitedEditsKept
    <2> SUFFICES ASSUME SoloInvariant, NEW t \in Tabs, Alone(t), net = {}, ~crossed,
                        NEW i \in Items, rows[i] # Null
                 PROVE  Stored(rows[i]) = kept[i]
      BY DEF AwaitedEditsKept
    <2>1. SoloRow(i, rows, {}, kept, desk)
      BY DEF SoloInvariant, Solo
    <2> QED BY <2>1 DEF SoloRow
  <1>2. EditorInvariant /\ SoloInvariant /\ [Next]_vars => SoloInvariant'
    BY SoloStep
  <1> QED BY <1>1, <1>2, StartsSolo, EditorIsSound, PTL DEF Spec
====
