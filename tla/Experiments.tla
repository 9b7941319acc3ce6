----------------------------- MODULE Experiments -----------------------------
(***************************************************************************)
(* Tests and rollouts as administrators work on them: browser tabs with    *)
(* the pages that create, edit, list and assign them, the requests those   *)
(* pages send, the handlers that answer, and the rows they write.          *)
(*                                                                         *)
(* A page works on the copy it loaded when it was opened.  A request is    *)
(* sent, applied by its handler, and answered; answers may overtake each   *)
(* other and may be lost, and the tab may have moved on by then.           *)
(***************************************************************************)
EXTENDS ExperimentForms

CONSTANTS
  Items,        \* test and rollout rows there can be
  Tabs,         \* browser tabs
  Flags, Envs,
  FlagValues,   \* what the input for a flag's value makes of what is typed
  Unfit,        \* one of them that is no value of the flag's type
  DefaultValue, \* getDefaultValueForType
  Blank,        \* the empty text where values per flag are expected
  Scenarios     \* the rows at first, how many requests may fail, with or without effect,
                \* and for each tab its pages, sections, gestures and openings

ASSUME ExperimentsAssumption ==
  /\ {DefaultValue, Unfit} \subseteq FlagValues
  /\ {Null, Blank} \cap FlagValues = {}

VARIABLES
  rows,     \* test and rollout rows, Null where there is none
  ids,      \* the ids given to a row so far; none is given twice
  tabs,     \* the open page of each tab, Null on a page of no interest
  net,      \* requests on their way, or applied and on the way back
  desk,     \* the scenario
  nullable, \* the database client takes null for a JSON column
  served,   \* requests applied so far
  crossed,  \* history: a request failed, its page was left before it applied, or its answer
            \* overtook another
  last,     \* history: where each rollout's slider was last released, Null once its form
            \* is submitted
  losses    \* requests that may still fail

table == <<rows, ids>>
vars == <<table, tabs, net, desk, nullable, served, crossed, last, losses>>

TypeOK ==
  /\ \A item \in Items : rows[item] # Null =>
       /\ rows[item].flagIds \subseteq Flags
       /\ rows[item].archived \in BOOLEAN
       /\ \A c \in Range(rows[item].conditions) : c.operator \in Range(OperatorsForType(c.type))
       /\ rows[item].type = "ROLLOUT" => rows[item].percentage \in 0 .. 100
       /\ rows[item].type = "TEST" => \A name \in DOMAIN rows[item].variants :
                                        rows[item].variants[name].percentage \in 0 .. 100
  /\ \A t \in Tabs : tabs[t] # Null =>
       /\ tabs[t].saving \subseteq {"form", "assign", "values"}
       /\ tabs[t].updating \subseteq Items
       /\ tabs[t].form # Null =>
            /\ tabs[t].form.type = "TEST" => Len(tabs[t].form.groups) \in 1 .. 5
            /\ tabs[t].form.type = "ROLLOUT" => tabs[t].form.percentage \in 0 .. 100

Page(at, type, item, flag) == [at |-> at, type |-> type, item |-> item, flag |-> flag]

\* Values per flag, and those per environment; a blanked environment is an empty text.
FlagMaps == UNION {[known -> FlagValues] : known \in SUBSET Flags}

EnvValues == [Envs -> FlagMaps \cup {Null, Blank}]

Columns == {"type", "key", "name", "notes", "conditions", "flagIds", "archived", "variants",
            "percentage", "rolloutValues"}

VariantsTyped(variants) ==
  \A name \in DOMAIN variants :
    DOMAIN variants[name] = {"percentage", "values"} /\ variants[name].values \in EnvValues

RowTyped(row) ==
  /\ DOMAIN row = Columns /\ row.type \in {"TEST", "ROLLOUT"}
  /\ row.type = "TEST" => VariantsTyped(row.variants)
  /\ row.type = "ROLLOUT" => row.rolloutValues \in EnvValues \cup {Null}

PageTyped(page) ==
  /\ DOMAIN page = {"at", "type", "item", "flag"}
  /\ page.at \in {"new", "edit", "list", "flag"}
  /\ page.at \in {"new", "edit"} => page.type \in {"TEST", "ROLLOUT"}
  /\ page.at = "edit" => page.item \in Items
  /\ page.at = "flag" => page.flag \in Flags

\* Objects are not null; what is there at first are rows, and pages of them.
ASSUME ScenariosAssumption ==
  /\ Null \notin EnvValues \cup Items
  /\ {Null, Blank} \cap FlagMaps = {}
  /\ \A scenario \in Scenarios :
       /\ DOMAIN scenario.rows = Items /\ DOMAIN scenario.desk = Tabs
       /\ \A item \in Items : scenario.rows[item] # Null =>
            /\ RowTyped(scenario.rows[item])
            /\ scenario.rows[item].type = "TEST" =>
                 DOMAIN scenario.rows[item].variants \subseteq Range(KeyOrder)
       /\ \A t \in Tabs :
            /\ DOMAIN scenario.desk[t] = {"pages", "sections", "gestures", "opens"}
            /\ scenario.desk[t].opens \in Nat
            /\ \A page \in scenario.desk[t].pages : PageTyped(page)

Init ==
  /\ \E scenario \in Scenarios :
       rows = scenario.rows /\ desk = scenario.desk /\ losses = scenario.losses
  /\ ids = {item \in Items : rows[item] # Null}
  /\ tabs = [t \in Tabs |-> Null]
  /\ net = {}
  /\ nullable \in BOOLEAN
  /\ served = 0 /\ crossed = FALSE
  /\ last = [item \in Items |-> Null]

-----------------------------------------------------------------------------
(* The rows: what a handler makes of a request. *)

\* An object with another spread over it; a row with the columns that are written.
Over(old, new) ==
  [x \in DOMAIN old \cup DOMAIN new |-> IF x \in DOMAIN new THEN new[x] ELSE old[x]]

\* Slip: the entry replaces the environment's other flags.
ValuesAlone(env, flag, value, old) == [old EXCEPT ![env] = [f \in {flag} |-> value]]

\* One flag's value in one environment, added to what the copy holds.
Values(env, flag, value, old) ==
  [old EXCEPT ![env] = IF @ \in {Null, Blank} THEN [f \in {flag} |-> value]
                       ELSE Over(@, [f \in {flag} |-> value])]

NoValues == [env \in Envs |-> Null]

KeyTaken(key) == \E item \in Items : rows[item] # Null /\ rows[item].key = key

\* Groups of one name become one, with the percentage of the last.
MergeGroups(groups, values) ==
  [name \in {g.name : g \in Range(groups)} |->
     [percentage |-> groups[Max({i \in DOMAIN groups : groups[i].name = name})].weight,
      values |-> values]]

Row(type, payload) ==
  [type |-> type, key |-> payload.key, name |-> payload.name, notes |-> payload.notes,
   conditions |-> payload.conditions, flagIds |-> {}, archived |-> FALSE,
   variants |-> IF type = "TEST" THEN MergeGroups(payload.groups, NoValues) ELSE Null,
   percentage |-> IF type = "TEST" THEN Null ELSE payload.percentage,
   rolloutValues |-> IF type = "TEST" THEN Null ELSE NoValues]

\* POST /api/tests refuses empty names; their sum it takes from the list, before merging.
CreateAccepted(type, payload) ==
  /\ payload.key # <<>> /\ payload.name # <<>> /\ ~KeyTaken(payload.key)
  /\ type = "TEST" =>
       Len(payload.groups) >= 2 /\ Sum(payload.groups) = 100
         /\ \A g \in Range(payload.groups) : g.name # ""

\* PUT /api/test-rollouts/[id]: what the body leaves out is reset.
Reset(body) ==
  Over([conditions |-> <<>>, flagIds |-> {}, archived |-> FALSE,
        variants |-> Null, rolloutValues |-> Null], body)

Archived(row, kind) ==
  [row EXCEPT !.archived = TRUE,
              !.percentage = IF row.type # "ROLLOUT" THEN @
                             ELSE IF kind = "cancel" THEN 0 ELSE 100]

Refuses(q) ==
  IF q.op = "create" THEN ~CreateAccepted(q.type, q.body)
  ELSE q.op # "load" /\ (rows[q.item] = Null \/ (q.op = "save" /\ ~nullable))

\* What becomes of the row (all rows, for a list).
Handle(q) ==
  LET row == rows[q.item]
  IN  CASE q.op = "load" -> rows
        [] q.op = "create" -> Row(q.type, q.body)
        [] q.op = "save" -> Over(row, Reset(q.body))
        [] q.op \in {"assign", "percentage"} -> Over(row, q.body)
        [] q.op = "archive" -> Archived(row, q.body.kind)
        [] q.op = "delete" -> Null

\* The ids that are neither given nor to be given to a row a page has asked for.
Free == {item \in Items \ ids : \A q \in net : q.op = "create" => q.item # item}

-----------------------------------------------------------------------------
(* The pages. *)

Open(t, page) ==
  /\ tabs[t] = Null
  /\ desk[t].opens > 0
  /\ page.at = "edit" => rows[page.item] # Null /\ rows[page.item].type = page.type
  /\ LET row == rows[page.item]
         form == CASE page.at = "new" -> IF page.type = "TEST" THEN NewTest ELSE NewRollout
                   [] page.at = "edit" -> IF page.type = "TEST" THEN EditTest(row) ELSE EditRollout(row)
                   [] OTHER -> Null
     IN  tabs' = [tabs EXCEPT ![t] =
           [page |-> page, n |-> desk[t].opens, copy |-> rows, form |-> form, initial |-> form,
            modal |-> Null, saving |-> {}, updating |-> {}]]
  /\ desk' = [desk EXCEPT ![t].opens = @ - 1]
  /\ UNCHANGED <<table, net, nullable, served, crossed, last, losses>>

Leave(t) ==
  /\ tabs[t] # Null
  /\ tabs' = [tabs EXCEPT ![t] = Null]
  /\ UNCHANGED <<table, net, desk, nullable, served, crossed, last, losses>>

At(t, at) == tabs[t] # Null /\ tabs[t].page.at = at

Gesture(t) ==
  /\ desk[t].gestures > 0
  /\ desk' = [desk EXCEPT ![t].gestures = @ - 1]

\* One gesture in a section the scenario uses.
Type(t) ==
  /\ tabs[t] # Null /\ tabs[t].form # Null
  /\ Gesture(t)
  /\ \E section \in DOMAIN Sections(tabs[t].form) \cap desk[t].sections :
       \E form \in Sections(tabs[t].form)[section] \ {tabs[t].form} :
         tabs' = [tabs EXCEPT ![t].form = form]
  /\ UNCHANGED <<table, net, nullable, served, crossed, last, losses>>

Request(t, op, item, body) ==
  [tab |-> t, n |-> tabs[t].n, id |-> desk[t].gestures, at |-> tabs[t].page.at, op |-> op,
   type |-> tabs[t].page.type, item |-> item, body |-> body, copy |-> IF item = Null THEN Null ELSE tabs[t].copy[item],
   shown |-> IF tabs[t].page.at \in {"new", "edit"} THEN Panel(tabs[t].form, tabs[t].initial).live
             ELSE Null,
   entry |-> Null, status |-> "sent", turn |-> 0, reply |-> Null]

Send(q) ==
  /\ net' = net \cup {q}
  /\ UNCHANGED <<table, nullable, served, crossed, losses>>

SubmitNew(t) ==
  /\ At(t, "new") /\ Gesture(t)
  /\ tabs[t].saving = {} /\ Savable(tabs[t].form, tabs[t].initial)
  /\ Free # {}
  /\ tabs' = [tabs EXCEPT ![t].saving = {"form"}]
  /\ Send(Request(t, "create", CHOOSE item \in Free : TRUE,
                  IF tabs[t].form.type = "TEST" THEN TestPayload(tabs[t].form)
                  ELSE RolloutPayload(tabs[t].form)))
  /\ UNCHANGED last

\* The name, the split and the audience; the values of every group are blanked.
EditTestBody(payload, copy) ==
  [name |-> payload.name, notes |-> payload.notes, conditions |-> payload.conditions,
   variants |-> MergeGroups(payload.groups, [env \in Envs |-> Blank]),
   flagIds |-> copy.flagIds, archived |-> copy.archived]

\* Slip: the page does not send back whether the rollout is archived.
EditRolloutBodyUnarchived(payload, copy) ==
  [name |-> payload.name, notes |-> payload.notes, conditions |-> payload.conditions,
   percentage |-> payload.percentage]

EditRolloutBody(payload, copy) ==
  [name |-> payload.name, notes |-> payload.notes, conditions |-> payload.conditions,
   percentage |-> payload.percentage, archived |-> copy.archived]

SubmitEdit(t) ==
  /\ At(t, "edit") /\ Gesture(t)
  /\ tabs[t].saving = {} /\ Savable(tabs[t].form, tabs[t].initial)
  /\ tabs' = [tabs EXCEPT ![t].saving = {"form"}]
  /\ LET item == tabs[t].page.item
         copy == tabs[t].copy[item]
     IN  /\ Send(Request(t, "save", item,
                         IF copy.type = "TEST" THEN EditTestBody(TestPayload(tabs[t].form), copy)
                         ELSE EditRolloutBody(RolloutPayload(tabs[t].form), copy)))
         /\ last' = [last EXCEPT ![item] = Null]

\* The two buttons above the form do not look at `saving`.
CompleteEdit(t) ==
  /\ At(t, "edit") /\ Gesture(t)
  /\ "complete" \in HeaderButtons(tabs[t].form)
  /\ Send(Request(t, "archive", tabs[t].page.item, [kind |-> "complete"]))
  /\ UNCHANGED <<tabs, last>>

DeleteEdit(t) ==
  /\ At(t, "edit") /\ Gesture(t)
  /\ "delete" \in HeaderButtons(tabs[t].form)
  /\ Send(Request(t, "delete", tabs[t].page.item, Null))
  /\ UNCHANGED <<tabs, last>>

-----------------------------------------------------------------------------
(* The lists. *)

Listed(t) ==
  {item \in Items : tabs[t].copy[item] # Null /\ tabs[t].copy[item].type = tabs[t].page.type}

\* The overflow menu: archived tests keep theirs, archived rollouts have neither menu nor slider.
TestCards(t) == IF tabs[t].page.type = "TEST" THEN Listed(t) ELSE {}

RolloutCards(t) ==
  IF tabs[t].page.type = "ROLLOUT" THEN {item \in Listed(t) : ~tabs[t].copy[item].archived} ELSE {}

\* Slip: the slider stays in reach while a change is under way.
DragAlways(t, item, n) ==
  /\ At(t, "list") /\ item \in RolloutCards(t) /\ Gesture(t)
  /\ tabs' = [tabs EXCEPT ![t].copy[item].percentage = n, ![t].updating = @ \cup {item}]
  /\ last' = [last EXCEPT ![item] = n]
  /\ Send(Request(t, "percentage", item, [percentage |-> n]))

\* The slider of a rollout's card: shown at once, saved when released.
Drag(t, item, n) ==
  /\ At(t, "list") /\ item \in RolloutCards(t) /\ Gesture(t)
  /\ item \notin tabs[t].updating
  /\ tabs' = [tabs EXCEPT ![t].copy[item].percentage = n, ![t].updating = @ \cup {item}]
  /\ last' = [last EXCEPT ![item] = n]
  /\ Send(Request(t, "percentage", item, [percentage |-> n]))

ArchiveListed(t, item, kind) ==
  /\ At(t, "list") /\ item \in TestCards(t) \cup RolloutCards(t) /\ Gesture(t)
  /\ Send(Request(t, "archive", item, [kind |-> kind]))
  /\ UNCHANGED <<tabs, last>>

DeleteListed(t, item) ==
  /\ At(t, "list") /\ item \in TestCards(t) /\ Gesture(t)
  /\ Send(Request(t, "delete", item, Null))
  /\ UNCHANGED <<tabs, last>>

-----------------------------------------------------------------------------
(* A flag's row and its two dialogs, which assign a test or rollout to the   *)
(* flag in one environment and change the values assigned.                   *)

\* What a test or rollout serves for a flag in an environment: a value per group.
Cell(values, env, flag) ==
  IF values = Null \/ values[env] \in {Null, Blank} THEN Null
  ELSE IF flag \in DOMAIN values[env] THEN values[env][flag] ELSE Null

Entry(row, env, flag) ==
  IF row.type = "ROLLOUT" THEN [g \in {"rollout"} |-> Cell(row.rolloutValues, env, flag)]
  ELSE [g \in DOMAIN row.variants |-> Cell(row.variants[g].values, env, flag)]

Active(t, env) ==
  {item \in Items :
     LET row == tabs[t].copy[item]
     IN  /\ row # Null /\ ~row.archived /\ tabs[t].page.flag \in row.flagIds
         /\ \E v \in Range(Entry(row, env, tabs[t].page.flag)) : v # Null}

\* An environment's column has a "+" while nothing runs there, otherwise chips.
Plus(t, env) == Active(t, env) = {}

Dialog(at, env, item, vals) ==
  [at |-> at, env |-> env, item |-> item, copy |-> rows, vals |-> vals]

\* Either dialog loads rows of its own.
ShowAssign(t, env) ==
  /\ At(t, "flag") /\ tabs[t].modal = Null /\ Gesture(t)
  /\ Plus(t, env)
  /\ tabs' = [tabs EXCEPT ![t].modal = Dialog("assign", env, Null, [g \in {} |-> DefaultValue])]
  /\ UNCHANGED <<table, net, nullable, served, crossed, last, losses>>

\* The values the row holds now; a rollout that lost its values has no input.
StoredValues(row, env, flag) ==
  LET old == Entry(row, env, flag)
  IN  [g \in IF row.type = "ROLLOUT" /\ row.rolloutValues = Null THEN {} ELSE DOMAIN old |->
         IF old[g] = Null THEN DefaultValue ELSE old[g]]

ShowValues(t, env, item) ==
  /\ At(t, "flag") /\ tabs[t].modal = Null /\ Gesture(t)
  /\ item \in Active(t, env) /\ rows[item] # Null
  /\ tabs' = [tabs EXCEPT ![t].modal =
                 Dialog("values", env, item, StoredValues(rows[item], env, tabs[t].page.flag))]
  /\ UNCHANGED <<table, net, nullable, served, crossed, last, losses>>

Modal(t, at) == At(t, "flag") /\ tabs[t].modal # Null /\ tabs[t].modal.at = at

Select(t, item) ==
  /\ Modal(t, "assign") /\ Gesture(t)
  /\ LET row == tabs[t].modal.copy[item]
     IN  /\ row # Null /\ ~row.archived
         /\ tabs' = [tabs EXCEPT ![t].modal.item = item,
                      ![t].modal.vals = [g \in IF row.type = "TEST" THEN DOMAIN row.variants
                                               ELSE {"rollout"} |-> DefaultValue]]
  /\ UNCHANGED <<table, net, nullable, served, crossed, last, losses>>

SetValue(t, group, value) ==
  /\ tabs[t] # Null /\ tabs[t].modal # Null /\ Gesture(t)
  /\ group \in DOMAIN tabs[t].modal.vals
  /\ tabs' = [tabs EXCEPT ![t].modal.vals[group] = value]
  /\ UNCHANGED <<table, net, nullable, served, crossed, last, losses>>

Cancel(t) ==
  /\ tabs[t] # Null /\ tabs[t].modal # Null
  /\ tabs' = [tabs EXCEPT ![t].modal = Null]
  /\ UNCHANGED <<table, net, desk, nullable, served, crossed, last, losses>>

\* The copy's values with the entry set, group by group.
WithEntry(row, env, flag, vals) ==
  IF row.type = "ROLLOUT"
  THEN [rolloutValues |->
          Values(env, flag, IF DOMAIN vals = {} THEN DefaultValue ELSE vals["rollout"],
                 IF row.rolloutValues = Null THEN NoValues ELSE row.rolloutValues)]
  ELSE [variants |-> [g \in DOMAIN row.variants |->
          [row.variants[g] EXCEPT !.values = Values(env, flag, vals[g], @)]]]

ValuesValid(t) == \A g \in DOMAIN tabs[t].modal.vals : tabs[t].modal.vals[g] # Unfit

\* Both dialogs write back a whole JSON column of their copy.
SaveEntry(t, body) ==
  /\ tabs[t].modal.at \notin tabs[t].saving
  /\ ValuesValid(t)
  /\ tabs' = [tabs EXCEPT ![t].saving = @ \cup {tabs[t].modal.at}]
  /\ Send([Request(t, "assign", tabs[t].modal.item, body)
             EXCEPT !.at = tabs[t].modal.at, !.copy = tabs[t].modal.copy[tabs[t].modal.item],
                    !.entry = <<tabs[t].modal.env, tabs[t].page.flag>>,
                    !.shown = tabs[t].modal.vals])
  /\ UNCHANGED last

Add(t) ==
  /\ Modal(t, "assign") /\ Gesture(t)
  /\ tabs[t].modal.item # Null
  /\ LET row == tabs[t].modal.copy[tabs[t].modal.item]
         flag == tabs[t].page.flag
     IN  SaveEntry(t, Over(WithEntry(row, tabs[t].modal.env, flag, tabs[t].modal.vals),
                           [flagIds |-> row.flagIds \cup {flag}]))

\* A group whose values a form has blanked makes saving fail before anything is sent.
SaveChanges(t) ==
  /\ Modal(t, "values") /\ Gesture(t)
  /\ LET row == tabs[t].modal.copy[tabs[t].modal.item]
         env == tabs[t].modal.env
     IN  /\ row.type = "TEST" =>
              \A g \in DOMAIN row.variants : row.variants[g].values[env] # Blank
         /\ SaveEntry(t, WithEntry(row, env, tabs[t].page.flag, tabs[t].modal.vals))

-----------------------------------------------------------------------------
(* Applying and answering. *)

There(q) == tabs[q.tab] # Null /\ tabs[q.tab].n = q.n

Applied(q, turn, reply) == [q EXCEPT !.status = "applied", !.turn = turn, !.reply = reply]

Failed(q, turn) == [q EXCEPT !.status = "failed", !.turn = turn, !.reply = Null]

Serve(q) ==
  /\ q.status = "sent"
  /\ IF Refuses(q)
     THEN net' = (net \ {q}) \cup {Failed(q, served + 1)} /\ UNCHANGED table
     ELSE /\ rows' = IF q.op = "load" THEN rows ELSE [rows EXCEPT ![q.item] = Handle(q)]
          /\ ids' = IF q.op = "create" THEN ids \cup {q.item} ELSE ids
          /\ net' = (net \ {q}) \cup {Applied(q, served + 1, Handle(q))}
  /\ served' = served + 1
  /\ crossed' = (crossed \/ ~There(q))
  /\ UNCHANGED <<tabs, desk, nullable, last, losses>>

\* A request that never arrived, or whose answer does not arrive.
Lose(q) ==
  /\ losses > 0
  /\ q.status # "failed"
  /\ net' = (net \ {q}) \cup {Failed(q, served)}
  /\ losses' = losses - 1 /\ crossed' = TRUE
  /\ UNCHANGED <<table, tabs, desk, nullable, served, last>>

\* The page that sent a change reloads its list, or its flag's tests and rollouts.
Reload(q) == [Request(q.tab, "load", Null, Null) EXCEPT !.id = q.id]

\* An answer takes the tab to a list from wherever it is, closes whatever dialog is
\* open, or is applied to the copy it belongs to; an error only ends the wait.
AnswerForm(q) ==
  /\ q.at \in {"new", "edit"}
  /\ tabs' = IF q.status = "applied" THEN [tabs EXCEPT ![q.tab] = Null]
             ELSE IF There(q) /\ q.op \in {"create", "save"}
             THEN [tabs EXCEPT ![q.tab].saving = {}] ELSE tabs
  /\ net' = net \ {q}

AnswerSlider(q) ==
  /\ q.op = "percentage"
  /\ tabs' = IF ~There(q) THEN tabs
             ELSE [tabs EXCEPT ![q.tab].updating = @ \ {q.item},
                               ![q.tab].copy[q.item] = IF q.status = "applied" THEN q.reply ELSE @]
  /\ net' = net \ {q}

AnswerMenu(q) ==
  /\ q.at = "list" /\ q.op \in {"archive", "delete"}
  /\ IF q.status = "failed" \/ ~There(q) THEN net' = net \ {q} /\ UNCHANGED tabs
     ELSE IF q.type = "ROLLOUT"
     THEN net' = net \ {q} /\ tabs' = [tabs EXCEPT ![q.tab].copy[q.item] = q.reply]
     ELSE net' = (net \ {q}) \cup {Reload(q)} /\ UNCHANGED tabs

AnswerDialog(q) ==
  /\ q.at \in {"assign", "values"}
  /\ tabs' = IF ~There(q) THEN tabs
             ELSE [tabs EXCEPT ![q.tab].saving = @ \ {q.at},
                               ![q.tab].modal = IF q.status = "applied" /\ @ # Null /\ @.at = q.at
                                                THEN Null ELSE @]
  /\ net' = IF q.status = "applied" /\ There(q) THEN (net \ {q}) \cup {Reload(q)} ELSE net \ {q}

AnswerLoad(q) ==
  /\ q.op = "load"
  /\ tabs' = IF q.status = "failed" \/ ~There(q) THEN tabs ELSE [tabs EXCEPT ![q.tab].copy = q.reply]
  /\ net' = net \ {q}

Answer(q) ==
  /\ q.status # "sent"
  /\ \/ AnswerForm(q) \/ AnswerSlider(q) \/ AnswerMenu(q)
     \/ AnswerDialog(q) \/ AnswerLoad(q)
  /\ crossed' = (crossed \/ \E p \in net : p.tab = q.tab /\ p.status # "sent" /\ p.turn < q.turn)
  /\ UNCHANGED <<table, desk, nullable, served, last, losses>>

Next ==
  \/ \E t \in Tabs :
       \/ \E page \in desk[t].pages : Open(t, page)
       \/ Leave(t) \/ Type(t) \/ SubmitNew(t) \/ SubmitEdit(t)
       \/ CompleteEdit(t) \/ DeleteEdit(t) \/ Cancel(t) \/ Add(t) \/ SaveChanges(t)
       \/ \E item \in Items :
            \/ \E n \in Numbers \cap 0 .. 100 : Drag(t, item, n)
            \/ \E kind \in {"cancel", "complete"} : ArchiveListed(t, item, kind)
            \/ DeleteListed(t, item) \/ Select(t, item)
       \/ \E env \in Envs : ShowAssign(t, env) \/ \E item \in Items : ShowValues(t, env, item)
       \/ tabs[t] # Null /\ tabs[t].modal # Null
            /\ \E group \in DOMAIN tabs[t].modal.vals, value \in FlagValues : SetValue(t, group, value)
  \/ \E q \in net : Serve(q) \/ Lose(q) \/ Answer(q)

Spec == Init /\ [][Next]_vars

-----------------------------------------------------------------------------
(* Properties. *)

\* What a new test or rollout was shown as in the live preview when it was submitted
\* is what is stored, provided its groups have names of their own.
StoredIsPreviewed ==
  \A q \in net : q.op = "create" /\ q.status = "applied" =>
    LET names == {g.name : g \in Range(q.shown.groups)}
    IN  /\ q.reply.key = q.shown.key
        /\ q.reply.conditions = q.shown.audience
        /\ q.reply.percentage = q.shown.percentage
        /\ Cardinality(names) = Len(q.shown.groups) =>
             \A g \in Range(q.shown.groups) : q.reply.variants[g.name].percentage = g.weight

\* An archived test or rollout comes back only through a form loaded before it was
\* archived; editing what is archived leaves it archived.
UnarchivedOnlyByStaleCopy ==
  [][\A item \in Items :
       rows[item] # Null /\ rows'[item] # Null /\ rows[item].archived /\ ~rows'[item].archived
         => \E q \in net : q.op = "save" /\ q.item = item /\ ~q.copy.archived]_vars

Percentages(row) == [g \in DOMAIN row.variants |-> row.variants[g].percentage]

\* A dialog that worked on the current row stores what its inputs showed as the flag's values
\* in its environment, assigns the flag if that is what it is for, and changes nothing else
\* of the row: the other flags stay assigned, and the groups keep their percentages and the
\* values of the other flags and environments (test-rollout-assignment-modal.tsx:182-262).
FreshAssignTouchesOneEntry ==
  [][\A q \in net :
       (q.op = "assign" /\ q.status = "sent" /\ q \notin net' /\ rows # rows' /\ q.copy = rows[q.item]) =>
         LET old == rows[q.item]
             new == rows'[q.item]
             column == IF old.type = "TEST" THEN "variants" ELSE "rolloutValues"
         IN  /\ new.flagIds = old.flagIds \cup (IF q.at = "assign" THEN {q.entry[2]} ELSE {})
             /\ \A field \in DOMAIN old \ {"flagIds", column} : new[field] = old[field]
             /\ old.type = "TEST" => Percentages(new) = Percentages(old)
             /\ \A g \in DOMAIN q.shown : Entry(new, q.entry[1], q.entry[2])[g] = q.shown[g]
             /\ \A env \in Envs, flag \in Flags :
                  <<env, flag>> # q.entry => Entry(new, env, flag) = Entry(old, env, flag)]_vars

Alone(t) == \A u \in Tabs \ {t} : desk[u].pages = {}

\* When nothing is under way and no answer was lost or out of turn, the list of
\* rollouts shows what is stored, and that is where each slider was last released.
QuietListIsTrue ==
  \A t \in Tabs :
    At(t, "list") /\ tabs[t].page.type = "ROLLOUT" /\ Alone(t)
      /\ net = {} /\ ~crossed =>
        \A item \in Listed(t) :
          /\ rows[item] = tabs[t].copy[item]
          /\ last[item] # Null /\ ~rows[item].archived => rows[item].percentage = last[item]

=============================================================================
