------------------------------- MODULE Console -------------------------------
(***************************************************************************)
(* One browser tab of the dashboard: the app context (which app is         *)
(* selected), the changes context (the badge that says unpublished changes *)
(* exist), and the publish page, against a server other operators use too. *)
(*                                                                         *)
(* Every request is asynchronous.  A refresh of the badge is two requests  *)
(* in a row (generate, then published), a load of the publish page is      *)
(* several at once, and neither is cancelled when the operator selects     *)
(* another app: whichever answers last is what the tab shows.  A           *)
(* configuration is the set of items it holds.  Of one load, validate and  *)
(* generate are served at one moment, and the history is left out.  Equal  *)
(* requests in flight are one member of a set.                             *)
(***************************************************************************)
EXTENDS Naturals, FiniteSets

CONSTANTS
    Apps,        \* app rows that can exist
    Flags,       \* flags a configuration can hold
    Experiments, \* tests and rollouts it can hold
    Broken,      \* items validateConfig refuses
    Slots,       \* requests of one kind in flight at once (a bound)
    None,        \* no app selected, nothing in a slot
    Wait,        \* an answer that is still awaited
    NoConfig,    \* nothing published
    MaxMoves,    \* moves of the operators and the environment (a bound)
    MaxFaults    \* requests that fail (a bound)

ASSUME ConsoleAssumption ==
    /\ Broken \subseteq Flags \union Experiments
    /\ None \notin Apps
    /\ MaxMoves \in Nat /\ MaxFaults \in Nat

VARIABLES
    db,        \* the app rows
    gone,      \* ids of deleted rows, which never come back
    draft,     \* what generateConfigFromDb makes of each app
    live,      \* config.json of each app
    route,     \* the page shown
    apps,      \* app context: the list
    sel,       \* app context: selectedApp
    lists,     \* refreshApps calls in flight
    badge,     \* changes context: hasChanges and changes
    refreshes, \* refreshChanges calls in flight
    timers,    \* apps whose 500 ms timer of markChangesDetected is running
    page,      \* the publish page's state
    loads,     \* loadAppData calls in flight
    pubs,      \* publish requests in flight
    push,      \* the 2 s timer that goes to the releases page is running
    moves, faults

server == <<db, gone, draft, live>>
context == <<apps, sel, lists, badge, refreshes, timers>>
screen == <<page, loads>>
vars == <<server, context, screen, route, pubs, push, moves, faults>>

Items == Flags \union Experiments
Configs == SUBSET Items

\* A release request: whether the page that sent it is still mounted and its tab not
\* reloaded, whether it was served, and what that page showed (reviewed and mixed are
\* history).
Publishing == [app : Apps, here : BOOLEAN, tab : BOOLEAN, done : BOOLEAN,
               reviewed : BOOLEAN, mixed : BOOLEAN]

ASSUME ValuesAssumption == (\A cfg \in Configs : cfg # NoConfig) /\ None \notin Publishing

-----------------------------------------------------------------------------
(* lib/config-comparison.ts, and the check of the validate route. *)

HasConfigChanges(cur, pub) == pub = NoConfig \/ cur # pub

\* Without a published config only the flags are listed.
ConfigChanges(cur, pub) ==
    IF pub = NoConfig THEN cur \intersect Flags
    ELSE (cur \ pub) \union (pub \ cur)

Valid(cfg) == cfg \intersect Broken = {}

-----------------------------------------------------------------------------
NoChanges == [has |-> FALSE, changes |-> {}]
Room(requests) == Cardinality(requests) < Cardinality(Slots)

\* The publish page as mounted.  The last four fields are history: the app
\* whose load the page shows, that it was not the selected one when it was
\* shown, the releases made with the changelog as it stands, and that the
\* answer of one of them was lost.
BlankView == [cur |-> {}, pub |-> {}]
Mounted == [view |-> BlankView, loading |-> TRUE, failed |-> FALSE,
            changelog |-> FALSE, sending |-> FALSE, of |-> None, mixed |-> FALSE,
            used |-> 0, lost |-> FALSE]

Move == moves < MaxMoves /\ moves' = moves + 1
Fault == faults < MaxFaults /\ faults' = faults + 1

CanPublish ==
    /\ HasConfigChanges(page.view.cur, page.view.pub)
    /\ Valid(page.view.cur)
    /\ page.changelog
    /\ sel # None

-----------------------------------------------------------------------------
(* Effects: what a change of selectedApp starts. *)

\* refreshChanges called for app a, whose closure keeps that app.
StartRefresh(a) ==
    /\ Room(refreshes)
    /\ refreshes' = refreshes \union {[app |-> a, cur |-> Wait, pub |-> Wait]}

\* loadAppData(a): the release flag marks the load handlePublish awaits.
Load(a, release) ==
    /\ Room(loads)
    /\ loads' = loads \union {[app |-> a, cur |-> Wait, pub |-> Wait,
                               release |-> release]}

\* Slip: the page's effect does not depend on selectedApp.
PageEffectOnce(a) == a \in Apps \union {None} /\ UNCHANGED screen

\* The publish page's effect on selectedApp: load it, or stop the spinner.
PageEffect(a) ==
    IF route = "publish"
    THEN IF a = None
         THEN page' = [page EXCEPT !.loading = FALSE] /\ UNCHANGED loads
         ELSE page' = [page EXCEPT !.loading = TRUE, !.failed = FALSE] /\ Load(a, FALSE)
    ELSE UNCHANGED screen

\* The changes context's effect on selectedApp: it only refreshes for an app.
BadgeEffect(a) ==
    IF a = None THEN UNCHANGED refreshes ELSE StartRefresh(a)

-----------------------------------------------------------------------------
(* The page and the providers go away or come back. *)

\* Answers to an unmounted page are dropped; its publish requests go on.
Unmounted(p) == [s \in Slots |->
    IF p[s] = None THEN None ELSE [p[s] EXCEPT !.here = FALSE]]

\* A reload of the browser's tab forgets its requests.
Forgotten(p) == [s \in Slots |->
    IF p[s] = None THEN None ELSE [p[s] EXCEPT !.here = FALSE, !.tab = FALSE]]

LeavePage ==
    /\ page' = Mounted
    /\ loads' = {}
    /\ pubs' = Unmounted(pubs)

\* The providers as the dashboard layout mounts them: one list is asked for.
\* (At the setup page they are not mounted: this is what the next mount finds.)
Providers ==
    /\ apps' = {} /\ sel' = None /\ lists' = 1
    /\ badge' = NoChanges
    /\ refreshes' = {} /\ timers' = {}

-----------------------------------------------------------------------------
(* App context. *)

\* refreshApps answered: the selection is kept by id, else the first app is
\* selected; an empty list sends the operator to the setup page.
ShowList(found) ==
    /\ apps' = found
    /\ sel' = IF sel \in found THEN sel
              ELSE IF found = {} THEN None ELSE CHOOSE a \in found : TRUE

ListAnswer ==
    /\ lists > 0 /\ route # "setup"
    /\ IF db = {}
       THEN /\ route' = "setup"
            /\ Providers
            /\ LeavePage
       ELSE /\ ShowList(db)
            /\ lists' = lists - 1
            /\ BadgeEffect(sel') /\ PageEffect(sel')
            /\ UNCHANGED <<badge, timers, route, pubs>>
    /\ UNCHANGED <<server, push, moves, faults>>

\* A failed list clears apps and selection, and the layout goes to setup.
ListFails ==
    /\ lists > 0 /\ route # "setup"
    /\ Fault
    /\ route' = "setup"
    /\ Providers
    /\ LeavePage
    /\ UNCHANGED <<server, push, moves>>

\* The app menu and the dashboard's cards: setSelectedApp.
SelectApp(a) ==
    /\ Move
    /\ a \in apps /\ a # sel
    /\ route # "setup"
    /\ sel' = a
    /\ BadgeEffect(a) /\ PageEffect(a)
    /\ UNCHANGED <<server, apps, lists, badge, timers, route, pubs, push, faults>>

-----------------------------------------------------------------------------
(* Changes context. *)

\* The 5 minute interval, longer than any request takes.
Poll ==
    /\ sel # None /\ route # "setup"
    /\ refreshes = {}
    /\ StartRefresh(sel)
    /\ UNCHANGED <<server, apps, sel, lists, badge, timers, screen, route,
                   pubs, push, moves, faults>>

\* The timer refreshes the app that was selected when it was started.
TimerFires(a) ==
    /\ a \in timers
    /\ timers' = timers \ {a}
    /\ StartRefresh(a)
    /\ UNCHANGED <<server, apps, sel, lists, badge, screen, route, pubs, push,
                   moves, faults>>

\* Slip: a vanished app clears the badge and nothing else.
AnswerGenerateQuietly(r) ==
    /\ r.cur = Wait
    /\ IF r.app \in db
       THEN /\ refreshes' = (refreshes \ {r}) \union
                               {[r EXCEPT !.cur = draft[r.app]]}
            /\ UNCHANGED badge
       ELSE refreshes' = refreshes \ {r} /\ badge' = NoChanges
    /\ UNCHANGED <<server, apps, sel, lists, timers, screen, route, pubs, push,
                   moves, faults>>

\* generate answers.  A 404 means the selected app vanished: the badge is
\* cleared and the app list is asked for again.
AnswerGenerate(r) ==
    /\ r.cur = Wait
    /\ IF r.app \in db
       THEN /\ refreshes' = (refreshes \ {r}) \union
                               {[r EXCEPT !.cur = draft[r.app]]}
            /\ UNCHANGED <<badge, lists>>
       ELSE /\ lists < Cardinality(Slots)
            /\ refreshes' = refreshes \ {r}
            /\ badge' = NoChanges
            /\ lists' = lists + 1
    /\ UNCHANGED <<server, apps, sel, timers, screen, route, pubs, push, moves,
                   faults>>

\* published is served.
AnswerPublished(r) ==
    /\ r.cur # Wait /\ r.pub = Wait
    /\ refreshes' = (refreshes \ {r}) \union {[r EXCEPT !.pub = live[r.app]]}
    /\ UNCHANGED <<server, apps, sel, lists, badge, timers, screen, route,
                   pubs, push, moves, faults>>

\* The answer arrives and is shown, whatever app is selected by now.
ShowChanges(r) ==
    /\ r.pub # Wait
    /\ badge' = [has |-> HasConfigChanges(r.cur, r.pub),
                 changes |-> ConfigChanges(r.cur, r.pub)]
    /\ refreshes' = refreshes \ {r}
    /\ UNCHANGED <<server, apps, sel, lists, timers, screen, route, pubs, push,
                   moves, faults>>

\* Any other error clears the badge.
RefreshFails(r) ==
    /\ r.pub = Wait
    /\ Fault
    /\ badge' = NoChanges
    /\ refreshes' = refreshes \ {r}
    /\ UNCHANGED <<server, apps, sel, lists, timers, screen, route, pubs, push,
                   moves>>

-----------------------------------------------------------------------------
(* The publish page. *)

OpenPublish ==
    /\ Move
    /\ route = "dashboard"
    /\ route' = "publish"
    /\ page' = [Mounted EXCEPT !.loading = sel # None]
    /\ IF sel = None THEN UNCHANGED loads ELSE Load(sel, FALSE)
    /\ UNCHANGED <<server, context, pubs, push, faults>>

LeavePublish ==
    /\ route = "publish"
    /\ route' = "dashboard"
    /\ LeavePage
    /\ UNCHANGED <<server, context, push, moves, faults>>

Served(l, served) == loads' = (loads \ {l}) \union {served}

\* One of the requests Promise.all waits for is served.
ServeLoad(l) ==
    /\ \/ l.cur = Wait /\ l.app \in db /\ Served(l, [l EXCEPT !.cur = draft[l.app]])
       \/ l.pub = Wait /\ Served(l, [l EXCEPT !.pub = live[l.app]])
    /\ UNCHANGED <<server, context, page, route, pubs, push, moves, faults>>

\* A failed request for the published config counts as nothing published.
PublishedUnread(l) ==
    /\ Fault
    /\ l.pub = Wait /\ Served(l, [l EXCEPT !.pub = NoConfig])
    /\ UNCHANGED <<server, context, page, route, pubs, push, moves>>

\* The end of loadAppData: the spinner stops, and after a release the button
\* is enabled again and the timer to the releases page starts.
LoadEnds(l, shown) ==
    /\ page' = [shown EXCEPT !.loading = FALSE, !.sending = @ /\ ~l.release]
    /\ push' = (push \/ l.release)
    /\ loads' = loads \ {l}

\* All answered: the page shows this app's diff, whatever app is selected.
ShowLoad(l) ==
    /\ Wait \notin {l.cur, l.pub}
    /\ LoadEnds(l, [page EXCEPT !.view = [cur |-> l.cur, pub |-> l.pub],
                                !.of = l.app,
                                !.mixed = l.app # sel])
    /\ UNCHANGED <<server, context, route, pubs, moves, faults>>

\* validate or generate answered with an error, shown instead of the diff:
\* the app is gone, or the request failed.
LoadErrs(l) ==
    /\ l.cur = Wait
    /\ LoadEnds(l, [page EXCEPT !.failed = TRUE])
    /\ UNCHANGED <<server, context, route, pubs, moves>>

LoadRefused(l) == LoadErrs(l) /\ l.app \notin db /\ UNCHANGED faults
LoadFails(l) == LoadErrs(l) /\ Fault

\* What the page renders: a spinner, an error with a Retry button, or the diff.
Shown == route = "publish" /\ ~page.loading /\ ~page.failed

\* window.location.reload: the tab starts again, at this page.
Retry ==
    /\ route = "publish" /\ ~page.loading /\ page.failed
    /\ Providers
    /\ page' = [Mounted EXCEPT !.loading = FALSE] /\ loads' = {}
    /\ pubs' = Forgotten(pubs) /\ push' = FALSE
    /\ UNCHANGED <<server, route, moves, faults>>

TypeChangelog ==
    /\ Shown
    /\ HasConfigChanges(page.view.cur, page.view.pub)
    /\ ~page.changelog
    /\ page' = [page EXCEPT !.changelog = TRUE, !.used = 0, !.lost = FALSE]
    /\ UNCHANGED <<server, context, loads, route, pubs, push, moves, faults>>

\* Slip: the button stays enabled while a release is sent.
PressPublishTwice ==
    /\ Shown /\ CanPublish
    /\ page' = [page EXCEPT !.sending = TRUE]
    /\ LET free == {s \in Slots : pubs[s] = None} IN
       /\ free # {}
       /\ pubs' = [pubs EXCEPT ![CHOOSE s \in free : TRUE] =
                       [app |-> sel, here |-> TRUE, tab |-> TRUE, done |-> FALSE,
                        reviewed |-> page.of = sel, mixed |-> page.mixed]]
    /\ UNCHANGED <<server, context, loads, route, push, moves, faults>>

\* handlePublish, up to its request.
PressPublish ==
    /\ Shown /\ CanPublish /\ ~page.sending
    /\ page' = [page EXCEPT !.sending = TRUE]
    /\ LET free == {s \in Slots : pubs[s] = None} IN
       /\ free # {}
       /\ pubs' = [pubs EXCEPT ![CHOOSE s \in free : TRUE] =
                       [app |-> sel, here |-> TRUE, tab |-> TRUE, done |-> FALSE,
                        reviewed |-> page.of = sel, mixed |-> page.mixed]]
    /\ UNCHANGED <<server, context, loads, route, push, moves, faults>>

\* The publish route generates the config itself and validates it again.
ServePublish(s) ==
    /\ pubs[s] # None /\ ~pubs[s].done
    /\ pubs[s].app \in db /\ Valid(draft[pubs[s].app])
    /\ live' = [live EXCEPT ![pubs[s].app] = draft[pubs[s].app]]
    /\ pubs' = [pubs EXCEPT ![s].done = TRUE]
    /\ page' = IF pubs[s].here THEN [page EXCEPT !.used = @ + 1] ELSE page
    /\ UNCHANGED <<db, gone, draft, context, loads, route, push, moves, faults>>

\* The answer: the changelog is emptied, the badge cleared, and the app that
\* was published is loaded again.
AnswerPublish(s) ==
    /\ pubs[s] # None /\ pubs[s].done
    /\ badge' = IF route = "setup" \/ ~pubs[s].tab THEN badge ELSE NoChanges
    /\ IF pubs[s].here
       THEN /\ page' = [page EXCEPT !.changelog = FALSE, !.loading = TRUE,
                                    !.failed = FALSE]
            /\ Load(pubs[s].app, TRUE)
            /\ UNCHANGED push
       ELSE push' = (push \/ pubs[s].tab) /\ UNCHANGED screen
    /\ pubs' = [pubs EXCEPT ![s] = None]
    /\ UNCHANGED <<server, apps, sel, lists, refreshes, timers, route, moves,
                   faults>>

\* The catch of handlePublish: the button is enabled again, the text stays.
PublishErrs(s) ==
    /\ pubs[s] # None
    /\ page' = IF pubs[s].here
               THEN [page EXCEPT !.sending = FALSE,
                                 !.lost = @ \/ pubs[s].done]
               ELSE page
    /\ pubs' = [pubs EXCEPT ![s] = None]
    /\ UNCHANGED <<server, context, loads, route, push, moves>>

\* The route found no app or an invalid config, or the request or the answer
\* to a served request was lost.
PublishRefused(s) ==
    /\ PublishErrs(s)
    /\ ~pubs[s].done
    /\ pubs[s].app \notin db \/ ~Valid(draft[pubs[s].app])
    /\ UNCHANGED faults
PublishFails(s) == PublishErrs(s) /\ Fault

\* The 2 s timer: router.push to the releases page, from wherever the tab is.
PushReleases ==
    /\ push /\ push' = FALSE
    /\ route' = "dashboard"
    /\ IF route = "publish" THEN LeavePage ELSE UNCHANGED <<screen, pubs>>
    /\ IF route = "setup" THEN Providers ELSE UNCHANGED context
    /\ UNCHANGED <<server, moves, faults>>

-----------------------------------------------------------------------------
(* The rest of the dashboard and the other operators. *)

Toggle(a, i) ==
    draft' = [draft EXCEPT ![a] = IF i \in @ THEN @ \ {i} ELSE @ \union {i}]

\* A saved form or dialog of this tab: the API call, then markChangesDetected.
OwnEdit(i) ==
    /\ Move
    /\ route = "dashboard" /\ sel \in db
    /\ Toggle(sel, i)
    /\ timers' = timers \union {sel}
    /\ UNCHANGED <<db, gone, live, apps, sel, lists, badge, refreshes, screen,
                   route, pubs, push, faults>>

OtherEdit(a, i) ==
    /\ Move
    /\ a \in db
    /\ Toggle(a, i)
    /\ UNCHANGED <<db, gone, live, context, screen, route, pubs, push, faults>>

OtherRelease(a) ==
    /\ Move
    /\ a \in db /\ Valid(draft[a])
    /\ live' = [live EXCEPT ![a] = draft[a]]
    /\ UNCHANGED <<db, gone, draft, context, screen, route, pubs, push, faults>>

DeleteApp(a) ==
    /\ Move
    /\ a \in db
    /\ db' = db \ {a} /\ gone' = gone \union {a}
    /\ UNCHANGED <<draft, live, context, screen, route, pubs, push, faults>>

\* "Add application" in the app menu.
AddApplication ==
    /\ Move
    /\ route # "setup" /\ apps # {}
    /\ route' = "setup"
    /\ Providers
    /\ LeavePage
    /\ UNCHANGED <<server, push, faults>>

\* The setup page creates an app and goes to the dashboard; or the operator
\* opens the dashboard by its address.
LeaveSetup ==
    /\ route = "setup"
    /\ route' = "dashboard"
    /\ Providers
    /\ Move
    /\ \/ UNCHANGED server
       \/ \E a \in Apps \ (db \union gone) :
             /\ db' = db \union {a}
             /\ draft' = [draft EXCEPT ![a] = {}]
             /\ live' = [live EXCEPT ![a] = {}]
             /\ UNCHANGED gone
    /\ UNCHANGED <<screen, pubs, push, faults>>

-----------------------------------------------------------------------------
Init ==
    /\ db \in SUBSET Apps /\ gone = {}
    /\ draft = [a \in Apps |-> Flags]
    /\ live = [a \in Apps |-> {}]
    /\ route = "dashboard"
    /\ apps = {} /\ sel = None /\ lists = 1
    /\ badge = NoChanges /\ refreshes = {} /\ timers = {}
    /\ page = Mounted /\ loads = {} /\ pubs = [s \in Slots |-> None]
    /\ push = FALSE
    /\ moves = 0 /\ faults = 0

AnswerRefresh ==
    \E r \in refreshes : AnswerGenerate(r) \/ AnswerPublished(r) \/ ShowChanges(r)

AnswerLoad == \E l \in loads : ServeLoad(l) \/ ShowLoad(l) \/ LoadRefused(l)

AnswerPub ==
    \E s \in Slots : ServePublish(s) \/ AnswerPublish(s) \/ PublishRefused(s)

Failure ==
    \/ \E r \in refreshes : RefreshFails(r)
    \/ \E l \in loads : PublishedUnread(l) \/ LoadFails(l)
    \/ \E s \in Slots : PublishFails(s)

Next ==
    \/ ListAnswer \/ ListFails \/ Poll \/ PushReleases
    \/ OpenPublish \/ LeavePublish \/ Retry \/ TypeChangelog \/ PressPublish
    \/ AddApplication \/ LeaveSetup
    \/ \E a \in Apps : SelectApp(a) \/ TimerFires(a) \/ OtherRelease(a) \/ DeleteApp(a)
    \/ \E i \in Items : OwnEdit(i) \/ (\E a \in Apps : OtherEdit(a, i))
    \/ AnswerRefresh \/ AnswerLoad \/ AnswerPub \/ Failure

\* The server answers what is asked, and timers and the interval fire.
Fairness ==
    /\ WF_vars(ListAnswer) /\ WF_vars(Poll)
    /\ \A a \in Apps : WF_vars(TimerFires(a))
    /\ WF_vars(AnswerRefresh) /\ WF_vars(AnswerLoad)

Spec == Init /\ [][Next]_vars /\ Fairness

-----------------------------------------------------------------------------
(* Properties. *)

Asked(T) == T \union {Wait}

TypeOK ==
    /\ db \subseteq Apps /\ gone \subseteq Apps \ db
    /\ draft \in [Apps -> Configs] /\ live \in [Apps -> Configs]
    /\ route \in {"dashboard", "publish", "setup"}
    /\ apps \subseteq Apps /\ sel \in apps \union {None}
    /\ badge \in [has : BOOLEAN, changes : Configs]
    /\ timers \subseteq Apps
    /\ lists \in 0..Cardinality(Slots)
    /\ refreshes \subseteq
          [app : Apps, cur : Asked(Configs), pub : Asked(Configs)]
    /\ loads # {} => route = "publish"
    /\ loads \subseteq [app : Apps, cur : Asked(Configs),
                        pub : Asked(Configs \union {NoConfig}),
                        release : BOOLEAN]
    /\ \A s \in Slots : pubs[s] # None =>
          pubs[s] \in Publishing

\* What a release makes live was reviewed for that app: whenever the publish
\* route serves this tab's request, the diff on screen when the button was
\* pressed was of the app that is published, unless the load it came from had
\* answered for an app that was no longer selected (loadAppData, the effect on
\* selectedApp, the error screen and handlePublish of the publish page).
ReleaseWasReviewed ==
    [][\A s \in Slots : ServePublish(s) => pubs[s].reviewed \/ pubs[s].mixed]_vars

\* A changelog is used for one release: pressing the button again, coming back
\* to the page or a failed reload cannot release twice with one text, unless
\* the answer of the first release was lost (handlePublish).
OneReleasePerChangelog == page.used <= 1 \/ page.lost

\* However the answers for the old and the new selection, the delayed timers
\* and other operators' edits, releases and deletions cross, once they stop
\* the tab settles on an app that exists, or on none, and the badge says what
\* differs for that app (refreshChanges, its 404, the interval and the effect
\* on selectedApp of the changes context; refreshApps of the app context).
TabConverges ==
    <>[](sel # None =>
            /\ sel \in db
            /\ badge = [has |-> HasConfigChanges(draft[sel], live[sel]),
                        changes |-> ConfigChanges(draft[sel], live[sel])])
=============================================================================
