------------------------------ MODULE FlagEditor ------------------------------
(***************************************************************************)
(* Flags as administrators work on them: browser tabs with the pages that  *)
(* create and edit a flag and the list, whose rows open the variant        *)
(* dialog; the requests they send, what POST /api/flags and PUT and DELETE *)
(* /api/flags/[id] make of them, and the rows they write.                  *)
(*                                                                         *)
(* A page works on the copy it loaded, and so does each row of the list.   *)
(* A handler is one step here; FlagLifecycle takes its read and its write  *)
(* apart.                                                                  *)
(***************************************************************************)
EXTENDS FlagForms

CONSTANTS
  Items,    \* flag rows there can be
  Tabs,     \* browser tabs
  Scenarios \* the rows at first, how many requests may fail and how many releases there are,
            \* and for each tab its pages, sections, gestures and openings

\* An answer that is an error.
Refused == [error |-> TRUE]

RowFields == {"key", "name", "type", "notes", "defaults", "variants", "archived", "published", "released"}

VARIABLES
  rows,     \* flag rows, Null where there is none
  tabs,     \* the open page of each tab, Null on a page of no interest
  net,      \* requests on their way, or applied and on the way back
  desk,     \* the scenario
  budget,   \* releases and failures still to come
  kept,     \* history: the variants each flag should have: there at first or saved in a dialog,
            \* and neither replaced nor deleted since
  crossed   \* history: a request failed, was sent while another was under way, or was applied
            \* after its page was left

vars == <<rows, tabs, net, desk, budget, kept, crossed>>

TypeOK ==
  /\ \A item \in Items : rows[item] # Null =>
       /\ ValidKey(rows[item].key) /\ rows[item].name # <<>>
       /\ rows[item].type \in FlagTypes
       /\ rows[item].released => rows[item].archived /\ rows[item].published
       /\ rows[item].archived => rows[item].published
       /\ \A env \in Envs : \A variant \in Range(rows[item].variants[env]) :
            /\ variant.order = 1
            /\ variant.conditions # <<>>
            /\ \A c \in Range(variant.conditions) : c.operator \in Range(OperatorsForType(c.type))
  /\ \A t \in Tabs : tabs[t] # Null =>
       /\ tabs[t].saving \in BOOLEAN /\ tabs[t].loading \in BOOLEAN
       /\ (tabs[t].form # Null) <=> (tabs[t].page.at \in {"new", "edit"})

\* The variants of a row, each with its environment.
Stored(row) == UNION {{<<env, v>> : v \in Range(row.variants[env])} : env \in Envs}

Page(at, item) == [at |-> at, item |-> item]

Pages == {Page("new", Null), Page("flags", Null)} \cup {Page("edit", item) : item \in Items}

\* {...old, ...new}
Spread(old, new) ==
  [field \in DOMAIN old \cup DOMAIN new |-> IF field \in DOMAIN new THEN new[field] ELSE old[field]]

KindOf(type) ==
  CASE type = "bool" -> "boolean" [] type \in {"int", "double"} -> "number" [] OTHER -> "string"

\* A default is a value of the type: numbers are numbers, integers whole, JSON text that parses.
OfType(value, type) ==
  /\ Kind(value) = KindOf(type)
  /\ type = "int" => Text(value) # "1.5"
  /\ type = "json" => Text(value) \in JsonTexts

IdsDiffer(variants) ==
  \A e, f \in Envs : \A i \in DOMAIN variants[e] : \A j \in DOMAIN variants[f] :
    variants[e][i].id = variants[f][j].id => e = f /\ i = j

ListsOfVariants(variants) ==
  DOMAIN variants = Envs /\ \A env \in Envs : variants[env] \in Seq(Range(variants[env]))

WellFormed(row) ==
  /\ DOMAIN row = RowFields
  /\ row.type \in {"bool", "string", "int", "double", "date", "json"}
  /\ DOMAIN row.defaults = Envs /\ \A env \in Envs : OfType(row.defaults[env], row.type)
  /\ ListsOfVariants(row.variants)

ASSUME RefusedAssumption == Refused # Null

ASSUME ScenarioAssumption ==
  \A scenario \in Scenarios :
    /\ DOMAIN scenario.rows = Items /\ DOMAIN scenario.desk = Tabs
    /\ \A item \in Items :
         \/ scenario.rows[item] = Null
         \/ /\ WellFormed(scenario.rows[item]) /\ IdsDiffer(scenario.rows[item].variants)
            /\ \A env \in Envs : \A variant \in Range(scenario.rows[item].variants[env]) :
                 variant.id[1] \notin Tabs
    /\ \A t \in Tabs :
         /\ DOMAIN scenario.desk[t] = {"pages", "sections", "gestures", "opens"}
         /\ scenario.desk[t].pages \subseteq Pages
         /\ scenario.desk[t].opens \in Nat /\ scenario.desk[t].gestures \in Nat

Init ==
  /\ \E scenario \in Scenarios :
       rows = scenario.rows /\ desk = scenario.desk /\ budget = scenario.budget
  /\ tabs = [t \in Tabs |-> Null]
  /\ net = {}
  /\ kept = [item \in Items |-> IF rows[item] = Null THEN {} ELSE Stored(rows[item])]
  /\ crossed = FALSE

-----------------------------------------------------------------------------
(* The rows: what a handler makes of a request. *)

CanDelete(row) == row.published => row.archived /\ row.released

KeyFree(key, item) == \A other \in Items \ {item} : rows[other] # Null => rows[other].key # key

\* POST /api/flags.
CreateRefused(body) == body.name = <<>> \/ ~KeyFree(body.key, Null)

Created(body) ==
  Spread([variants |-> [env \in Envs |-> <<>>], archived |-> FALSE, published |-> FALSE,
          released |-> FALSE], body)

\* Slip: archived flags are not frozen.
UpdateRefusedUnfrozen(row, body, item) ==
  \/ "archived" \in DOMAIN body /\ body.archived /\ ~row.published
  \/ "name" \in DOMAIN body /\ (body.name = <<>> \/ ~KeyFree(body.key, item))

\* PUT: what is archived accepts nothing but `archived`, which restarts its time there.
UpdateRefused(row, body, item) ==
  \/ row.archived /\ DOMAIN body # {"archived"}
  \/ "archived" \in DOMAIN body /\ body.archived /\ ~row.published
  \/ "name" \in DOMAIN body /\ (body.name = <<>> \/ ~KeyFree(body.key, item))

Updated(row, body) == Spread([row EXCEPT !.released = @ /\ "archived" \notin DOMAIN body], body)

\* A request that is answered with an error.
Refuses(q) ==
  IF q.op = "create" THEN CreateRefused(q.body)
  ELSE \/ rows[q.item] = Null
       \/ q.op = "delete" /\ ~CanDelete(rows[q.item])
       \/ q.op \in {"save", "toggle", "variants"} /\ UpdateRefused(rows[q.item], q.body, q.item)

\* What any other makes of the row.
Handle(q) ==
  CASE q.op = "create" -> Created(q.body)
    [] q.op = "load" -> rows[q.item]
    [] q.op = "delete" -> Null
    [] OTHER -> Updated(rows[q.item], q.body)

Free == {item \in Items : rows[item] = Null}

\* A release stamps every flag (publish/route.ts).
Release ==
  /\ budget.releases > 0
  /\ budget' = [budget EXCEPT !.releases = @ - 1]
  /\ rows' = [item \in Items |->
                IF rows[item] = Null THEN Null
                ELSE [rows[item] EXCEPT !.published = TRUE, !.released = rows[item].archived]]
  /\ UNCHANGED <<tabs, net, desk, kept, crossed>>

-----------------------------------------------------------------------------
(* The pages. *)

Open(t, page) ==
  /\ tabs[t] = Null
  /\ desk[t].opens > 0
  /\ page.at = "edit" => rows[page.item] # Null
  /\ LET form == CASE page.at = "new" -> NewFlag
                   [] page.at = "edit" -> EditFlag(rows[page.item])
                   [] OTHER -> Null
     IN  tabs' = [tabs EXCEPT ![t] =
           [page |-> page, n |-> desk[t].opens, copy |-> rows, form |-> form, initial |-> form,
            modal |-> Null, saving |-> FALSE, loading |-> FALSE]]
  /\ desk' = [desk EXCEPT ![t].opens = @ - 1]
  /\ UNCHANGED <<rows, net, budget, kept, crossed>>

Leave(t) ==
  /\ tabs[t] # Null
  /\ tabs' = [tabs EXCEPT ![t] = Null]
  /\ UNCHANGED <<rows, net, desk, budget, kept, crossed>>

At(t, at) == tabs[t] # Null /\ tabs[t].page.at = at /\ ~tabs[t].loading

Gesture(t) ==
  /\ desk[t].gestures > 0
  /\ desk' = [desk EXCEPT ![t].gestures = @ - 1]

Type(t) ==
  /\ \/ At(t, "new") \/ At(t, "edit")
  /\ Gesture(t)
  /\ \E section \in DOMAIN FlagSections(tabs[t].form) \cap desk[t].sections :
       \E form \in FlagSections(tabs[t].form)[section] \ {tabs[t].form} :
         tabs' = [tabs EXCEPT ![t].form = form]
  /\ UNCHANGED <<rows, net, budget, kept, crossed>>

Request(t, op, item, body) ==
  [tab |-> t, n |-> tabs[t].n, id |-> desk[t].gestures, at |-> tabs[t].page.at, op |-> op,
   item |-> item, body |-> body, copy |-> IF op = "create" THEN Null ELSE tabs[t].copy[item],
   replaced |-> Null, closes |-> FALSE,
   shown |-> IF tabs[t].page.at = "flags" THEN Null ELSE FlagPanel(tabs[t].form, tabs[t].initial),
   status |-> "sent", reply |-> Null]

Send(q) ==
  /\ net' = net \cup {q}
  /\ crossed' = (crossed \/ net # {})
  /\ UNCHANGED <<rows, budget>>

SubmitNew(t) ==
  /\ At(t, "new") /\ Gesture(t)
  /\ ~tabs[t].saving /\ FlagSavable(tabs[t].form, tabs[t].initial)
  /\ Cardinality({q \in net : q.op = "create"}) < Cardinality(Free)
  /\ tabs' = [tabs EXCEPT ![t].saving = TRUE]
  /\ Send(Request(t, "create", Null, FlagPayload(tabs[t].form)))
  /\ UNCHANGED kept

\* Slip: saving the form clears the variants.
EditBodyBare(payload, copy) ==
  Spread(payload, [variants |-> [env \in Envs |-> <<>>], archived |-> copy.archived])

\* What the form does not hold goes back as it was loaded.
EditBody(payload, copy) ==
  Spread(payload, [variants |-> copy.variants, archived |-> copy.archived])

SubmitEdit(t) ==
  /\ At(t, "edit") /\ Gesture(t)
  /\ ~tabs[t].saving /\ FlagSavable(tabs[t].form, tabs[t].initial)
  /\ tabs' = [tabs EXCEPT ![t].saving = TRUE]
  /\ LET item == tabs[t].page.item
     IN  Send(Request(t, "save", item, EditBody(FlagPayload(tabs[t].form), tabs[t].copy[item])))
  /\ UNCHANGED kept

\* The buttons above the form do not look at `saving`; the first hides the form.
ToggleEdit(t) ==
  /\ At(t, "edit") /\ Gesture(t)
  /\ FlagHeader(tabs[t].form) \cap {"archive", "unarchive"} # {}
  /\ tabs' = [tabs EXCEPT ![t].loading = TRUE]
  /\ LET item == tabs[t].page.item
     IN  Send(Request(t, "toggle", item, [archived |-> ~tabs[t].copy[item].archived]))
  /\ UNCHANGED kept

DeleteEdit(t) ==
  /\ At(t, "edit") /\ Gesture(t)
  /\ "delete" \in FlagHeader(tabs[t].form)
  /\ Send(Request(t, "delete", tabs[t].page.item, Null))
  /\ UNCHANGED <<tabs, kept>>

-----------------------------------------------------------------------------
(* The rows of the list. *)

\* Slip: the menu offers to archive what was never released.
MenuUnpublished(row) ==
  {IF row.archived THEN "unarchive" ELSE "archive"} \cup IF CanDelete(row) THEN {"delete"} ELSE {}

Menu(row) ==
  (IF row.archived THEN {"unarchive"} ELSE IF row.published THEN {"archive"} ELSE {})
    \cup IF CanDelete(row) THEN {"delete"} ELSE {}

\* The groups of the list hold what is not archived, one section below what is.
Listed(t) == {item \in Items : tabs[t].copy[item] # Null}

ToggleRow(t, item) ==
  /\ At(t, "flags") /\ item \in Listed(t) /\ tabs[t].modal = Null /\ Gesture(t)
  /\ Menu(tabs[t].copy[item]) \cap {"archive", "unarchive"} # {}
  /\ Send(Request(t, "toggle", item, [archived |-> ~tabs[t].copy[item].archived]))
  /\ UNCHANGED <<tabs, kept>>

DeleteRow(t, item) ==
  /\ At(t, "flags") /\ item \in Listed(t) /\ tabs[t].modal = Null /\ Gesture(t)
  /\ "delete" \in Menu(tabs[t].copy[item])
  /\ Send(Request(t, "delete", item, Null))
  /\ UNCHANGED <<tabs, kept>>

\* The dialog of one environment's column: a new variant, or one that is listed there.
ShowVariant(t, item, env) ==
  /\ At(t, "flags") /\ item \in Listed(t) /\ tabs[t].modal = Null /\ Gesture(t)
  /\ LET row == tabs[t].copy[item]
         dialog(old, edit) == [item |-> item, env |-> env, old |-> old, edit |-> edit]
     IN  \/ tabs' = [tabs EXCEPT ![t].modal = dialog(Null, NewVariant(row.type))]
         \/ \E old \in Range(row.variants[env]) :
              tabs' = [tabs EXCEPT ![t].modal = dialog(old, EditVariant(old))]
  /\ UNCHANGED <<rows, net, budget, kept, crossed>>

TypeVariant(t) ==
  /\ At(t, "flags") /\ tabs[t].modal # Null /\ Gesture(t)
  /\ \E edit \in VariantGestures(tabs[t].modal.edit, tabs[t].copy[tabs[t].modal.item].type) :
       tabs' = [tabs EXCEPT ![t].modal.edit = edit]
  /\ UNCHANGED <<rows, net, budget, kept, crossed>>

CancelVariant(t) ==
  /\ At(t, "flags") /\ tabs[t].modal # Null
  /\ tabs' = [tabs EXCEPT ![t].modal = Null]
  /\ UNCHANGED <<rows, net, desk, budget, kept, crossed>>

SendVariants(t, item, env, variants, replaced, closes) ==
  Send([Request(t, "variants", item,
                [variants |-> [tabs[t].copy[item].variants EXCEPT ![env] = variants]])
          EXCEPT !.replaced = replaced, !.closes = closes])

\* The dialog closes at once.  The sort by order that follows changes nothing: see TypeOK.
\* A variant that has left the list while its dialog was open is not stored.
SaveVariant(t) ==
  /\ At(t, "flags") /\ tabs[t].modal # Null /\ Gesture(t)
  /\ LET modal == tabs[t].modal
         row == tabs[t].copy[modal.item]
         old == modal.old
         new == Spread(modal.edit, [id |-> IF old = Null THEN <<t, desk[t].gestures>> ELSE old.id])
         present == row.variants[modal.env]
         gone == old # Null /\ \A i \in DOMAIN present : present[i].id # old.id
     IN  /\ ValidateVariant(modal.edit, row.type)
         /\ SendVariants(t, modal.item, modal.env,
                         IF old = Null THEN Append(present, new)
                         ELSE [i \in DOMAIN present |->
                                 IF present[i].id = old.id THEN new ELSE present[i]],
                         IF old = Null THEN Null ELSE old.id, TRUE)
         /\ kept' = [kept EXCEPT ![modal.item] =
                       IF gone THEN @
                       ELSE {held \in @ : old = Null \/ held[2].id # old.id} \cup {<<modal.env, new>>}]
  /\ tabs' = [tabs EXCEPT ![t].modal = Null]

\* The variant that is filtered out is the one shown: identifiers are random.
DeleteVariant(t, item, env) ==
  /\ At(t, "flags") /\ item \in Listed(t) /\ tabs[t].modal = Null /\ Gesture(t)
  /\ LET present == tabs[t].copy[item].variants[env]
     IN  \E i \in DOMAIN present :
           /\ SendVariants(t, item, env, RemoveAt(present, i), present[i].id, FALSE)
           /\ kept' = [kept EXCEPT ![item] = {held \in @ : held[2].id # present[i].id}]
  /\ UNCHANGED tabs

-----------------------------------------------------------------------------
(* Applying and answering. *)

There(q) == tabs[q.tab] # Null /\ tabs[q.tab].n = q.n

Serve(q) ==
  /\ q.status = "sent"
  /\ IF Refuses(q)
     THEN /\ net' = (net \ {q}) \cup {[q EXCEPT !.status = "applied", !.reply = Refused]}
          /\ crossed' = TRUE
          /\ UNCHANGED <<rows, kept>>
     ELSE /\ \E item \in IF q.op = "create" THEN Free ELSE {q.item} :
               /\ rows' = [rows EXCEPT ![item] = Handle(q)]
               /\ kept' = IF q.op = "create" THEN [kept EXCEPT ![item] = {}] ELSE kept
          /\ net' = (net \ {q}) \cup {[q EXCEPT !.status = "applied", !.reply = Handle(q)]}
          /\ crossed' = (crossed \/ ~There(q))
  /\ UNCHANGED <<tabs, desk, budget>>

\* A request that never arrived, or whose answer does not arrive.
Lose(q) ==
  /\ budget.losses > 0 /\ q.reply # Refused
  /\ budget' = [budget EXCEPT !.losses = @ - 1]
  /\ net' = (net \ {q}) \cup {[q EXCEPT !.status = "applied", !.reply = Refused]}
  /\ crossed' = TRUE
  /\ UNCHANGED <<rows, tabs, desk, kept>>

\* A form that was saved and a flag that was deleted take the tab elsewhere, wherever it is.
AnswerForm(q) ==
  /\ q.op \in {"create", "save", "delete"}
  /\ tabs' = IF q.reply # Refused THEN [tabs EXCEPT ![q.tab] = Null]
             ELSE IF There(q) /\ q.op # "delete" THEN [tabs EXCEPT ![q.tab].saving = FALSE] ELSE tabs
  /\ net' = net \ {q}

\* The edit page loads the flag again; a toggle that failed leaves it loading for good.
AnswerToggle(q) ==
  /\ q.op = "toggle"
  /\ IF q.reply = Refused \/ ~There(q) THEN net' = net \ {q} /\ UNCHANGED tabs
     ELSE IF q.at = "edit"
     THEN /\ net' = (net \ {q}) \cup {[q EXCEPT !.op = "load", !.status = "sent", !.reply = Null]}
          /\ UNCHANGED tabs
     ELSE net' = net \ {q} /\ tabs' = [tabs EXCEPT ![q.tab].copy[q.item] = q.reply]

AnswerLoad(q) ==
  /\ q.op = "load"
  /\ tabs' = IF ~There(q) THEN tabs
             ELSE IF q.reply = Refused THEN [tabs EXCEPT ![q.tab] = Null]
             ELSE [tabs EXCEPT ![q.tab].copy[q.item] = q.reply, ![q.tab].loading = FALSE,
                               ![q.tab].form = EditFlag(q.reply), ![q.tab].initial = EditFlag(q.reply)]
  /\ net' = net \ {q}

\* Slip: the row keeps what it was given when the list was loaded.
AnswerVariantsStale(q) ==
  /\ q.op = "variants"
  /\ net' = net \ {q} /\ UNCHANGED tabs

\* The row shows what it sent; after a save, it closes the dialog that has been opened since.
AnswerVariants(q) ==
  /\ q.op = "variants"
  /\ tabs' = IF ~There(q) \/ q.reply = Refused THEN tabs
             ELSE [tabs EXCEPT ![q.tab].copy[q.item].variants = q.body.variants,
                               ![q.tab].modal = IF q.closes /\ @ # Null /\ @.item = q.item THEN Null ELSE @]
  /\ net' = net \ {q}

Answer(q) ==
  /\ q.status = "applied"
  /\ AnswerForm(q) \/ AnswerToggle(q) \/ AnswerLoad(q) \/ AnswerVariants(q)
  /\ UNCHANGED <<rows, desk, budget, kept, crossed>>

Next ==
  \/ \E t \in Tabs :
       \/ \E page \in desk[t].pages : Open(t, page)
       \/ Leave(t) \/ Type(t) \/ SubmitNew(t) \/ SubmitEdit(t) \/ ToggleEdit(t) \/ DeleteEdit(t)
       \/ TypeVariant(t) \/ CancelVariant(t) \/ SaveVariant(t)
       \/ \E item \in Items :
            \/ ToggleRow(t, item) \/ DeleteRow(t, item)
            \/ \E env \in Envs : ShowVariant(t, item, env) \/ DeleteVariant(t, item, env)
  \/ \E q \in net : Serve(q) \/ Lose(q) \/ Answer(q)
  \/ Release

Spec == Init /\ [][Next]_vars

-----------------------------------------------------------------------------
(* Properties. *)

\* Whatever was typed, and whatever types were tried before, every stored default is a value of
\* the flag's type (flag-form.tsx, setTypeAndReset; flag-value-input.tsx, processValueForType).
DefaultsMatchType ==
  \A item \in Items : rows[item] # Null =>
    \A env \in Envs : OfType(rows[item].defaults[env], rows[item].type)

\* A flag is stored with the key, type and values its form's live JSON showed when it was
\* submitted (flag-form.tsx, jsonPreview and handleSubmit).
StoredIsPreviewed ==
  \A q \in net : q.op \in {"create", "save"} /\ q.status = "applied" /\ q.reply # Refused =>
    \A field \in {"key", "type", "defaults"} : q.reply[field] = q.shown[field]

\* What a form stores is what it showed, and of the flag's type, after any sequence of types
\* chosen and values typed (flag-form.tsx, setTypeAndReset to handleSubmit).
FormsStoreFaithfully == DefaultsMatchType /\ StoredIsPreviewed

\* Nothing the menu of a row offers is refused while the row is as shown (lib/flag-lifecycle.ts,
\* "consumed by both the API routes (enforcement) and the UI (affordances)"); the edit page, which
\* offers to archive and to delete every flag, is another matter.
RowOffersAreAccepted ==
  \A q \in net :
    q.at = "flags" /\ q.op \in {"toggle", "delete"} /\ q.status = "sent" /\ q.copy = rows[q.item]
      => ~Refuses(q)

Alone(t) == \A u \in Tabs \ {t} : desk[u].pages = {}

\* An administrator alone, whose requests all succeeded and were each awaited, has stored exactly
\* the variants saved and not deleted since, by way of the rows, the list and the edit page
\* (flag-row.tsx, handleVariantSave).
AwaitedEditsKept ==
  (\E t \in Tabs : Alone(t)) /\ net = {} /\ ~crossed =>
    \A item \in Items : rows[item] # Null => Stored(rows[item]) = kept[item]

Variants(row) == {<<held[1], held[2].id>> : held \in Stored(row)}

\* What the form sends back without showing it: a variant disappears from a flag only by a
\* request that names it or whose page did not know it, and a flag leaves the archive only by a
\* request to do just that, unlike a rollout (flags/[id]/edit/page.tsx, handleSubmit;
\* api/flags/[id]/route.ts, PUT).
HiddenKept ==
  [][\A item \in Items : rows[item] # Null /\ rows'[item] # Null =>
       /\ \A variant \in Variants(rows[item]) \ Variants(rows'[item]) :
            \E q \in net \ net' :
              /\ q.item = item /\ q.op \in {"variants", "save"}
              /\ \/ q.replaced = variant[2]
                 \/ variant \notin Variants(q.copy)
       /\ rows[item].archived /\ ~rows'[item].archived =>
            \E q \in net \ net' : q.op = "toggle" /\ q.item = item]_vars

=============================================================================
