---------------------------- MODULE ConsoleProofs ----------------------------
(***************************************************************************)
(* Theorems about Console, for any apps, items, slots and bounds: what a   *)
(* release made from the publish page makes live.  That the badge settles  *)
(* rests on fairness and is left to TLC.                                   *)
(***************************************************************************)
EXTENDS Console, TLAPS

\* The page, and the loads of it.
Pages == [view : [cur : Configs, pub : Configs \union {NoConfig}], loading : BOOLEAN,
          failed : BOOLEAN, changelog : BOOLEAN, sending : BOOLEAN,
          of : Apps \union {None}, mixed : BOOLEAN, used : Nat, lost : BOOLEAN]

Loading == [app : Apps, cur : Configs \union {Wait},
            pub : Configs \union {NoConfig, Wait}, release : BOOLEAN]

ScreenTypes ==
    /\ db \subseteq Apps /\ apps \subseteq Apps /\ sel \in Apps \union {None}
    /\ draft \in [Apps -> Configs] /\ live \in [Apps -> Configs]
    /\ page \in Pages
    /\ loads \subseteq Loading
    /\ pubs \in [Slots -> Publishing \union {None}]

\* A release request whose answer the mounted page awaits.
Awaited(s) == pubs[s] # None /\ pubs[s].here

\* The page shows no diff, or the diff of the selected app, unless the load it came from
\* had answered for another app.
ShowsSelected ==
    Shown /\ sel # None =>
        page.view = BlankView \/ page.of = sel \/ page.mixed

\* So every release request was pressed on the diff of its app.
AllReviewed ==
    \A s \in Slots : pubs[s] # None => pubs[s].reviewed \/ pubs[s].mixed

\* While a release is awaited, and until the page is loaded again after it, the button
\* is disabled; the changelog stays until the answer.  A page that is not mounted awaits
\* nothing.
OneAtATime ==
    /\ \A s \in Slots : Awaited(s) => page.sending /\ page.changelog
    /\ \A s, t \in Slots : Awaited(s) /\ Awaited(t) => s = t
    /\ \A l \in loads : l.release => page.sending /\ \A s \in Slots : ~Awaited(s)
    /\ \A l, m \in loads : l.release /\ m.release => l = m
    /\ route # "publish" => loads = {} /\ \A s \in Slots : ~Awaited(s)

\* A text that made a release is gone, or its answer is awaited or was lost.
UsedOnce ==
    page.lost \/ /\ page.used <= 1
                 /\ \A s \in Slots : Awaited(s) /\ ~pubs[s].done => page.used = 0
                 /\ page.used = 1 /\ page.changelog =>
                       \E s \in Slots : Awaited(s) /\ pubs[s].done

ScreenInvariant ==
    ScreenTypes /\ ShowsSelected /\ AllReviewed /\ OneAtATime /\ UsedOnce

\* The mounted page, an unmounted page's requests, and a new load are of the right type.
LEMMA MountedTyped ==
  /\ Mounted \in Pages /\ BlankView \in [cur : Configs, pub : Configs \union {NoConfig}]
  /\ Mounted.view = BlankView /\ Mounted.loading = TRUE /\ Mounted.sending = FALSE
  /\ Mounted.changelog = FALSE /\ Mounted.used = 0
  /\ ~HasConfigChanges(BlankView.cur, BlankView.pub)
BY ValuesAssumption DEF Mounted, Pages, BlankView, Configs, HasConfigChanges

LEMMA UnmountedTyped ==
  ASSUME pubs \in [Slots -> Publishing \union {None}]
  PROVE  /\ Unmounted(pubs) \in [Slots -> Publishing \union {None}]
         /\ \A s \in Slots : Unmounted(pubs)[s] # None =>
               /\ pubs[s] # None /\ ~Unmounted(pubs)[s].here
               /\ Unmounted(pubs)[s].reviewed = pubs[s].reviewed
               /\ Unmounted(pubs)[s].mixed = pubs[s].mixed
BY DEF Unmounted, Publishing

LEMMA ForgottenTyped ==
  ASSUME pubs \in [Slots -> Publishing \union {None}]
  PROVE  /\ Forgotten(pubs) \in [Slots -> Publishing \union {None}]
         /\ \A s \in Slots : Forgotten(pubs)[s] # None =>
               /\ pubs[s] # None /\ ~Forgotten(pubs)[s].here
               /\ Forgotten(pubs)[s].reviewed = pubs[s].reviewed
               /\ Forgotten(pubs)[s].mixed = pubs[s].mixed
BY DEF Forgotten, Publishing

LEMMA LoadTyped ==
  ASSUME NEW a \in Apps
  PROVE  /\ [app |-> a, cur |-> Wait, pub |-> Wait, release |-> TRUE] \in Loading
         /\ [app |-> a, cur |-> Wait, pub |-> Wait, release |-> FALSE] \in Loading
BY DEF Loading

\* A change of the selected app starts a load of the publish page.
LEMMA PageEffectDoes ==
  ASSUME page \in Pages, loads \subseteq Loading, NEW a \in Apps, PageEffect(a)
  PROVE  /\ page' \in Pages /\ loads' \subseteq Loading
         /\ page' = page \/ page' = [page EXCEPT !.loading = TRUE, !.failed = FALSE]
         /\ page'.changelog = page.changelog /\ page'.sending = page.sending
         /\ page'.used = page.used /\ page'.lost = page.lost
         /\ route = "publish" => page'.loading
         /\ route # "publish" => loads' = loads
         /\ \A l \in loads' : l.release => l \in loads
<1>1. a # None
  BY ConsoleAssumption
<1>2. CASE route = "publish"
  <2>1. page' = [page EXCEPT !.loading = TRUE, !.failed = FALSE]
    BY <1>1, <1>2 DEF PageEffect
  <2>2. loads' = loads \union {[app |-> a, cur |-> Wait, pub |-> Wait, release |-> FALSE]}
    BY <1>1, <1>2 DEF PageEffect, Load
  <2>3. page' \in Pages
    BY <2>1 DEF Pages
  <2>4. page'.loading = TRUE
    BY <2>1
  <2>5. /\ page'.changelog = page.changelog /\ page'.sending = page.sending
        /\ page'.used = page.used /\ page'.lost = page.lost
    BY <2>1
  <2>6. loads' \subseteq Loading
    BY <2>2, LoadTyped
  <2>7. ASSUME NEW l \in loads', l.release
        PROVE  l \in loads
    BY <2>2, <2>7
  <2>8. QED BY <1>2, <2>1, <2>3, <2>4, <2>5, <2>6, <2>7
<1>3. CASE route # "publish"
  BY <1>3 DEF PageEffect, screen
<1>4. QED BY <1>2, <1>3

\* The button sends one request, for the selected app, and is disabled.
LEMMA PressSends ==
  ASSUME ScreenTypes, PressPublish
  PROVE  /\ sel \in Apps /\ page.changelog /\ ~page.sending /\ Shown
         /\ route = "publish" /\ page.view # BlankView
         /\ page' = [page EXCEPT !.sending = TRUE] /\ page' \in Pages
         /\ page'.sending /\ page'.changelog /\ page'.used = page.used /\ page'.lost = page.lost
         /\ \E s \in Slots :
               /\ pubs[s] = None
               /\ pubs' = [pubs EXCEPT ![s] =
                              [app |-> sel, here |-> TRUE, tab |-> TRUE, done |-> FALSE,
                               reviewed |-> page.of = sel, mixed |-> page.mixed]]
         /\ UNCHANGED <<server, context, loads, route>>
<1>1. /\ route = "publish" /\ Shown /\ CanPublish /\ ~page.sending
      /\ page' = [page EXCEPT !.sending = TRUE]
      /\ UNCHANGED <<server, context, loads, route>>
  BY DEF PressPublish, Shown
<1>2. page.changelog /\ sel \in Apps /\ page.view # BlankView
  BY <1>1, MountedTyped DEF CanPublish, ScreenTypes
<1>3. \E s \in Slots :
         /\ pubs[s] = None
         /\ pubs' = [pubs EXCEPT ![s] =
                        [app |-> sel, here |-> TRUE, tab |-> TRUE, done |-> FALSE,
                         reviewed |-> page.of = sel, mixed |-> page.mixed]]
  <2> DEFINE Free == {s \in Slots : pubs[s] = None}
  <2>1. Free # {} /\ (CHOOSE s \in Free : TRUE) \in Free
    BY DEF PressPublish
  <2>2. pubs' = [pubs EXCEPT ![CHOOSE s \in Free : TRUE] =
                    [app |-> sel, here |-> TRUE, tab |-> TRUE, done |-> FALSE,
                     reviewed |-> page.of = sel, mixed |-> page.mixed]]
    BY DEF PressPublish
  <2>3. QED BY <2>1, <2>2
<1>4. page' \in Pages
  BY <1>1 DEF ScreenTypes, Pages
<1>5. /\ page'.sending = TRUE /\ page'.changelog = page.changelog
      /\ page'.used = page.used /\ page'.lost = page.lost
  BY <1>1
<1>6. QED BY <1>1, <1>2, <1>3, <1>4, <1>5

\* What the answer to a release request does to the page.
LEMMA AnswerDoes ==
  ASSUME ScreenTypes, NEW s \in Slots, AnswerPublish(s)
  PROVE  /\ pubs[s] \in Publishing /\ pubs[s].done /\ pubs' = [pubs EXCEPT ![s] = None]
         /\ page' \in Pages /\ loads' \subseteq Loading
         /\ ~pubs[s].here => UNCHANGED <<page, loads>>
         /\ pubs[s].here =>
               /\ page' = [page EXCEPT !.changelog = FALSE, !.loading = TRUE, !.failed = FALSE]
               /\ ~page'.changelog /\ page'.sending = page.sending /\ page'.used = page.used
               /\ page'.lost = page.lost
               /\ loads' = loads \union {[app |-> pubs[s].app, cur |-> Wait, pub |-> Wait,
                                          release |-> TRUE]}
         /\ UNCHANGED <<server, apps, sel, route>>
<1>1. /\ pubs[s] # None /\ pubs[s].done /\ pubs' = [pubs EXCEPT ![s] = None]
      /\ ~pubs[s].here => UNCHANGED <<page, loads>>
      /\ pubs[s].here =>
            /\ page' = [page EXCEPT !.changelog = FALSE, !.loading = TRUE, !.failed = FALSE]
            /\ loads' = loads \union {[app |-> pubs[s].app, cur |-> Wait, pub |-> Wait,
                                       release |-> TRUE]}
      /\ UNCHANGED <<server, apps, sel, route>>
  BY DEF AnswerPublish, Load, screen
<1>2. pubs[s] \in Publishing /\ pubs[s].app \in Apps
  BY <1>1 DEF ScreenTypes, Publishing
<1>3. CASE pubs[s].here
  <2>1. /\ page' = [page EXCEPT !.changelog = FALSE, !.loading = TRUE, !.failed = FALSE]
        /\ loads' = loads \union {[app |-> pubs[s].app, cur |-> Wait, pub |-> Wait,
                                   release |-> TRUE]}
    BY <1>1, <1>3
  <2>2. loads' \subseteq Loading
    BY <1>2, <2>1, LoadTyped DEF ScreenTypes
  <2>3. page' \in Pages
    BY <2>1 DEF ScreenTypes, Pages
  <2>4. /\ page'.changelog = FALSE /\ page'.sending = page.sending
        /\ page'.used = page.used /\ page'.lost = page.lost
    BY <2>1
  <2>5. QED BY <1>1, <1>2, <1>3, <2>1, <2>2, <2>3, <2>4
<1>4. CASE ~pubs[s].here
  BY <1>1, <1>2, <1>4 DEF ScreenTypes
<1>5. QED BY <1>3, <1>4

\* What a release request that ends in an error does to the page.
LEMMA PublishErrsDoes ==
  ASSUME ScreenTypes, NEW s \in Slots, PublishErrs(s)
  PROVE  /\ pubs[s] \in Publishing
         /\ pubs' = [pubs EXCEPT ![s] = None] /\ pubs' \in [Slots -> Publishing \union {None}]
         /\ pubs'[s] = None /\ \A t \in Slots : t # s => pubs'[t] = pubs[t]
         /\ page' \in Pages
         /\ ~pubs[s].here => page' = page
         /\ pubs[s].here => page'.lost = (page.lost \/ pubs[s].done)
         /\ page'.view = page.view /\ page'.of = page.of /\ page'.mixed = page.mixed
         /\ page'.loading = page.loading /\ page'.failed = page.failed
         /\ page'.changelog = page.changelog /\ page'.used = page.used
         /\ UNCHANGED <<server, apps, sel, loads, route>>
<1>1. /\ pubs[s] # None /\ pubs' = [pubs EXCEPT ![s] = None]
      /\ page' = IF pubs[s].here
                 THEN [page EXCEPT !.sending = FALSE, !.lost = @ \/ pubs[s].done] ELSE page
      /\ UNCHANGED <<server, apps, sel, loads, route>>
  BY DEF PublishErrs, context
<1>2. pubs[s] \in Publishing
  BY <1>1 DEF ScreenTypes
<1>3. /\ pubs' \in [Slots -> Publishing \union {None}]
      /\ pubs'[s] = None /\ \A t \in Slots : t # s => pubs'[t] = pubs[t]
  BY <1>1 DEF ScreenTypes
<1>4. CASE pubs[s].here
  <2>1. page' = [page EXCEPT !.sending = FALSE, !.lost = @ \/ pubs[s].done]
    BY <1>1, <1>4
  <2>2. page' \in Pages
    BY <1>2, <2>1 DEF ScreenTypes, Pages, Publishing
  <2>3. QED BY <1>1, <1>2, <1>3, <1>4, <2>1, <2>2 DEF ScreenTypes, Pages
<1>5. CASE ~pubs[s].here
  BY <1>1, <1>2, <1>3, <1>5 DEF ScreenTypes
<1>6. QED BY <1>4, <1>5

\* What a load that ends does: either its diff is on the page, or an error.
LEMMA LoadEndDoes ==
  ASSUME ScreenTypes, NEW l \in loads, ShowLoad(l) \/ LoadRefused(l) \/ LoadFails(l)
  PROVE  /\ page' \in Pages /\ loads' = loads \ {l}
         /\ page'.changelog = page.changelog /\ page'.sending = (page.sending /\ ~l.release)
         /\ page'.used = page.used /\ page'.lost = page.lost
         /\ ShowLoad(l) => page'.of = l.app /\ page'.mixed = (l.app # sel)
         /\ ~ShowLoad(l) => page'.failed = TRUE
         /\ UNCHANGED <<server, apps, sel, route, pubs>>
<1>1. /\ l.app \in Apps /\ l.release \in BOOLEAN
      /\ Wait \notin {l.cur, l.pub} =>
            [cur |-> l.cur, pub |-> l.pub] \in [cur : Configs, pub : Configs \union {NoConfig}]
  <2>1. l \in Loading
    BY DEF ScreenTypes
  <2>2. QED BY <2>1 DEF Loading
<1>2. CASE ShowLoad(l)
  <2>1. /\ page' = [page EXCEPT !.view = [cur |-> l.cur, pub |-> l.pub], !.of = l.app,
                               !.mixed = (l.app # sel), !.loading = FALSE,
                               !.sending = @ /\ ~l.release]
        /\ Wait \notin {l.cur, l.pub} /\ loads' = loads \ {l}
        /\ UNCHANGED <<server, apps, sel, route, pubs>>
    BY <1>2 DEF ShowLoad, LoadEnds, context
  <2>2. page \in Pages
    BY DEF ScreenTypes
  <2>3. page' \in Pages
    <3>1. [page EXCEPT !.view = [cur |-> l.cur, pub |-> l.pub]] \in Pages
      BY <1>1, <2>1, <2>2 DEF Pages
    <3>2. [page EXCEPT !.view = [cur |-> l.cur, pub |-> l.pub], !.of = l.app,
                       !.mixed = (l.app # sel)] \in Pages
      BY <1>1, <3>1 DEF Pages
    <3> DEFINE shown == [page EXCEPT !.view = [cur |-> l.cur, pub |-> l.pub], !.of = l.app,
                                     !.mixed = (l.app # sel)]
    <3>3. page' = [shown EXCEPT !.loading = FALSE, !.sending = @ /\ ~l.release]
      BY <1>2 DEF ShowLoad, LoadEnds
    <3> HIDE DEF shown
    <3>4. shown \in Pages
      BY <3>2 DEF shown
    <3>5. QED BY <3>3, <3>4 DEF Pages
  <2>4. QED BY <1>2, <2>1, <2>2, <2>3 DEF Pages
<1>3. CASE ~ShowLoad(l)
  <2>1. /\ page' = [page EXCEPT !.failed = TRUE, !.loading = FALSE, !.sending = @ /\ ~l.release]
        /\ loads' = loads \ {l} /\ UNCHANGED <<server, apps, sel, route, pubs>>
    BY <1>3 DEF LoadRefused, LoadFails, LoadErrs, LoadEnds, context
  <2>2. page \in Pages
    BY DEF ScreenTypes
  <2>3. page' \in Pages
    BY <1>1, <2>1, <2>2 DEF Pages
  <2>4. QED BY <1>3, <2>1, <2>2, <2>3 DEF Pages
<1>4. QED BY <1>2, <1>3

\* The types.
LEMMA ScreenTypesStep ==
  ASSUME ScreenInvariant, [Next]_vars
  PROVE  ScreenTypes'
<1> USE ConsoleAssumption DEF server, context, screen
<1> ScreenTypes
  BY DEF ScreenInvariant
<1>1. CASE ListAnswer
  BY <1>1, MountedTyped, UnmountedTyped, PageEffectDoes
  DEF ListAnswer, ShowList, Providers, LeavePage, ScreenTypes
<1>2. CASE ListFails \/ LeavePublish \/ AddApplication \/ LeaveSetup
  BY <1>2, MountedTyped, UnmountedTyped
  DEF ListFails, LeavePublish, AddApplication, LeaveSetup, Providers, LeavePage, Configs,
      ScreenTypes
<1>3. CASE PushReleases
  BY <1>3, MountedTyped, UnmountedTyped DEF PushReleases, Providers, LeavePage, ScreenTypes
<1>4. CASE OpenPublish
  <2>1. page' = [Mounted EXCEPT !.loading = sel # None] /\ page' \in Pages
    BY <1>4, MountedTyped DEF OpenPublish, Pages
  <2>2. loads' \subseteq Loading
    BY <1>4, LoadTyped DEF OpenPublish, Load, ScreenTypes
  <2>3. QED BY <1>4, <2>1, <2>2 DEF OpenPublish, ScreenTypes
<1>5. CASE Retry
  <2>1. page' \in Pages
    BY <1>5, MountedTyped DEF Retry, Pages
  <2>2. pubs' \in [Slots -> Publishing \union {None}] /\ loads' = {} /\ apps' = {} /\ sel' = None
    BY <1>5, ForgottenTyped DEF Retry, Providers, ScreenTypes
  <2>3. QED BY <1>5, <2>1, <2>2 DEF Retry, ScreenTypes
<1>6. CASE TypeChangelog
  BY <1>6 DEF TypeChangelog, Pages, ScreenTypes
<1>7. CASE PressPublish
  BY <1>7, PressSends DEF PressPublish, Publishing, Pages, ScreenTypes
<1>8. ASSUME NEW a \in Apps, SelectApp(a) PROVE ScreenTypes'
  BY <1>8, PageEffectDoes DEF SelectApp, ScreenTypes
<1>9. ASSUME NEW l \in loads, ServeLoad(l) \/ PublishedUnread(l) PROVE ScreenTypes'
  BY <1>9 DEF ServeLoad, PublishedUnread, Served, Loading, ScreenTypes
<1>10. ASSUME NEW l \in loads, ShowLoad(l) PROVE ScreenTypes'
  BY <1>10, LoadEndDoes DEF ScreenTypes
<1>11. ASSUME NEW l \in loads, LoadRefused(l) \/ LoadFails(l) PROVE ScreenTypes'
  BY <1>11, LoadEndDoes DEF ScreenTypes
<1>12. ASSUME NEW s \in Slots, ServePublish(s) PROVE ScreenTypes'
  <2>1. pubs[s] \in Publishing /\ pubs[s].app \in Apps
    BY <1>12 DEF ServePublish, ScreenTypes
  <2>2. live' \in [Apps -> Configs]
    BY <1>12, <2>1 DEF ServePublish, ScreenTypes
  <2>3. pubs' \in [Slots -> Publishing \union {None}]
    BY <1>12, <2>1 DEF ServePublish, ScreenTypes, Publishing
  <2>4. page' \in Pages
    BY <1>12 DEF ServePublish, ScreenTypes, Pages
  <2>5. QED BY <1>12, <2>2, <2>3, <2>4 DEF ServePublish, ScreenTypes
<1>13. ASSUME NEW s \in Slots, AnswerPublish(s) PROVE ScreenTypes'
  BY <1>13, AnswerDoes DEF AnswerPublish, ScreenTypes
<1>14. ASSUME NEW s \in Slots, PublishRefused(s) \/ PublishFails(s) PROVE ScreenTypes'
  BY <1>14, PublishErrsDoes DEF PublishRefused, PublishFails, ScreenTypes
<1>15. ASSUME NEW i \in Items, OwnEdit(i) PROVE ScreenTypes'
  BY <1>15 DEF OwnEdit, Toggle, Configs, ScreenTypes
<1>16. ASSUME NEW a \in Apps, NEW i \in Items, OtherEdit(a, i) PROVE ScreenTypes'
  BY <1>16 DEF OtherEdit, Toggle, Configs, ScreenTypes
<1>17. ASSUME NEW a \in Apps, OtherRelease(a) PROVE ScreenTypes'
  BY <1>17 DEF OtherRelease, ScreenTypes
<1>18. ASSUME NEW a \in Apps, DeleteApp(a) \/ TimerFires(a) PROVE ScreenTypes'
  BY <1>18 DEF DeleteApp, TimerFires, ScreenTypes
<1>19. CASE Poll \/ AnswerRefresh \/ (\E r \in refreshes : RefreshFails(r))
  BY <1>19
  DEF Poll, AnswerRefresh, AnswerGenerate, AnswerPublished, ShowChanges, RefreshFails,
      ScreenTypes
<1>20. CASE UNCHANGED vars
  BY <1>20 DEF vars, ScreenTypes
<1>21. QED
  BY <1>1, <1>2, <1>3, <1>4, <1>5, <1>6, <1>7, <1>8, <1>9, <1>10, <1>11, <1>12, <1>13, <1>14,
      <1>15, <1>16, <1>17, <1>18, <1>19, <1>20
  DEF Next, AnswerLoad, AnswerPub, Failure

\* A load that ends says whose diff the page shows.
LEMMA ShowsSelectedStep ==
  ASSUME ScreenInvariant, [Next]_vars
  PROVE  ShowsSelected'
<1> USE ConsoleAssumption DEF server, context, screen
<1> ScreenTypes
  BY DEF ScreenInvariant
<1> ScreenTypes'
  BY ScreenTypesStep
<1>1. CASE ListAnswer
  BY <1>1, PageEffectDoes DEF ListAnswer, ShowList, ShowsSelected, Shown, ScreenTypes
<1>2. CASE ListFails \/ LeavePublish \/ AddApplication \/ LeaveSetup
  BY <1>2 DEF ListFails, LeavePublish, AddApplication, LeaveSetup, ShowsSelected, Shown
<1>3. CASE PushReleases
  BY <1>3 DEF PushReleases, ShowsSelected, Shown
<1>4. CASE OpenPublish
  BY <1>4, MountedTyped, LoadTyped DEF OpenPublish, Load, ShowsSelected
<1>5. CASE Retry
  BY <1>5, ForgottenTyped DEF Retry, Providers, ShowsSelected
<1>6. CASE TypeChangelog
  BY <1>6 DEF TypeChangelog, ScreenInvariant, ShowsSelected
<1>7. CASE PressPublish
  BY <1>7, PressSends DEF PressPublish, ScreenInvariant, ShowsSelected
<1>8. ASSUME NEW a \in Apps, SelectApp(a) PROVE ShowsSelected'
  BY <1>8, PageEffectDoes DEF SelectApp, ShowsSelected, Shown, ScreenTypes
<1>9. ASSUME NEW l \in loads, ServeLoad(l) \/ PublishedUnread(l) PROVE ShowsSelected'
  BY <1>9 DEF ServeLoad, PublishedUnread, Served, ScreenInvariant, ShowsSelected, Shown
<1>10. ASSUME NEW l \in loads, ShowLoad(l) PROVE ShowsSelected'
  BY <1>10, LoadEndDoes DEF ShowsSelected
<1>11. ASSUME NEW l \in loads, LoadRefused(l) \/ LoadFails(l) PROVE ShowsSelected'
  <2>1. ShowLoad(l) \/ page'.failed
    BY <1>11, LoadEndDoes
  <2>2. QED BY <1>11, <2>1, LoadEndDoes DEF ShowsSelected, Shown
<1>12. ASSUME NEW s \in Slots, ServePublish(s) PROVE ShowsSelected'
  BY <1>12 DEF ServePublish, ScreenInvariant, ShowsSelected, Shown
<1>13. ASSUME NEW s \in Slots, AnswerPublish(s) PROVE ShowsSelected'
  <2>1. CASE pubs[s].here
    <3>1. page'.loading = TRUE
      BY <1>13, <2>1, AnswerDoes DEF Pages
    <3>2. QED BY <3>1 DEF ShowsSelected, Shown
  <2>2. CASE ~pubs[s].here
    BY <1>13, <2>2, AnswerDoes DEF ShowsSelected, Shown, ScreenInvariant
  <2>3. QED BY <2>1, <2>2
<1>14. ASSUME NEW s \in Slots, PublishRefused(s) \/ PublishFails(s) PROVE ShowsSelected'
  BY <1>14, PublishErrsDoes
  DEF PublishRefused, PublishFails, ScreenInvariant, ShowsSelected, Shown
<1>15. ASSUME NEW i \in Items, OwnEdit(i) PROVE ShowsSelected'
  BY <1>15 DEF OwnEdit, ShowsSelected, Shown
<1>16. ASSUME NEW a \in Apps, NEW i \in Items, OtherEdit(a, i) PROVE ShowsSelected'
  BY <1>16 DEF OtherEdit, ScreenInvariant, ShowsSelected, Shown
<1>17. ASSUME NEW a \in Apps, OtherRelease(a) PROVE ShowsSelected'
  BY <1>17 DEF OtherRelease, ScreenInvariant, ShowsSelected, Shown
<1>18. ASSUME NEW a \in Apps, DeleteApp(a) \/ TimerFires(a) PROVE ShowsSelected'
  BY <1>18 DEF DeleteApp, TimerFires, ScreenInvariant, ShowsSelected, Shown
<1>19. CASE Poll \/ AnswerRefresh \/ (\E r \in refreshes : RefreshFails(r))
  BY <1>19
  DEF Poll, AnswerRefresh, AnswerGenerate, AnswerPublished, ShowChanges, RefreshFails,
      ScreenInvariant, ShowsSelected, Shown
<1>20. CASE UNCHANGED vars
  BY <1>20 DEF vars, ScreenInvariant, ShowsSelected, Shown
<1>21. QED
  BY <1>1, <1>2, <1>3, <1>4, <1>5, <1>6, <1>7, <1>8, <1>9, <1>10, <1>11, <1>12, <1>13, <1>14,
      <1>15, <1>16, <1>17, <1>18, <1>19, <1>20
  DEF Next, AnswerLoad, AnswerPub, Failure

\* A request is sent from a page that shows its app.
LEMMA AllReviewedStep ==
  ASSUME ScreenInvariant, [Next]_vars
  PROVE  AllReviewed'
<1> USE ConsoleAssumption DEF server, context, screen
<1> ScreenTypes
  BY DEF ScreenInvariant
<1> ScreenTypes'
  BY ScreenTypesStep
<1>1. CASE ListAnswer
  BY <1>1, UnmountedTyped
  DEF ListAnswer, ShowList, LeavePage, ScreenInvariant, AllReviewed, ScreenTypes
<1>2. CASE ListFails \/ LeavePublish \/ AddApplication \/ LeaveSetup
  BY <1>2, UnmountedTyped
  DEF ListFails, LeavePublish, AddApplication, LeaveSetup, LeavePage, ScreenInvariant,
      AllReviewed, ScreenTypes
<1>3. CASE PushReleases
  BY <1>3, UnmountedTyped
  DEF PushReleases, LeavePage, ScreenInvariant, AllReviewed, ScreenTypes
<1>4. CASE OpenPublish
  BY <1>4, LoadTyped DEF OpenPublish, Load, ScreenInvariant, AllReviewed
<1>5. CASE Retry
  BY <1>5, ForgottenTyped DEF Retry, ScreenInvariant, AllReviewed, ScreenTypes
<1>6. CASE TypeChangelog
  BY <1>6 DEF TypeChangelog, ScreenInvariant, AllReviewed
<1>7. CASE PressPublish
  <2>1. PICK s \in Slots :
           /\ pubs[s] = None
           /\ pubs' = [pubs EXCEPT ![s] =
                          [app |-> sel, here |-> TRUE, tab |-> TRUE, done |-> FALSE,
                           reviewed |-> page.of = sel, mixed |-> page.mixed]]
    BY <1>7, PressSends
  <2>2. page.of = sel \/ page.mixed
    BY <1>7, PressSends, ConsoleAssumption DEF ScreenInvariant, ShowsSelected
  <2>3. pubs'[s].reviewed \/ pubs'[s].mixed
    BY <2>1, <2>2 DEF ScreenTypes
  <2>4. \A t \in Slots : t # s => pubs'[t] = pubs[t]
    BY <2>1
  <2>5. QED BY <2>3, <2>4 DEF ScreenInvariant, AllReviewed
<1>8. ASSUME NEW a \in Apps, SelectApp(a) PROVE AllReviewed'
  BY <1>8 DEF SelectApp, ScreenInvariant, AllReviewed
<1>9. ASSUME NEW l \in loads, ServeLoad(l) \/ PublishedUnread(l) PROVE AllReviewed'
  BY <1>9 DEF ServeLoad, PublishedUnread, Served, ScreenInvariant, AllReviewed
<1>10. ASSUME NEW l \in loads, ShowLoad(l) PROVE AllReviewed'
  BY <1>10 DEF ShowLoad, ScreenInvariant, AllReviewed
<1>11. ASSUME NEW l \in loads, LoadRefused(l) \/ LoadFails(l) PROVE AllReviewed'
  BY <1>11 DEF LoadRefused, LoadFails, LoadErrs, ScreenInvariant, AllReviewed
<1>12. ASSUME NEW s \in Slots, ServePublish(s) PROVE AllReviewed'
  BY <1>12 DEF ServePublish, ScreenInvariant, AllReviewed
<1>13. ASSUME NEW s \in Slots, AnswerPublish(s) PROVE AllReviewed'
  BY <1>13, AnswerDoes DEF AnswerPublish, ScreenInvariant, AllReviewed
<1>14. ASSUME NEW s \in Slots, PublishRefused(s) \/ PublishFails(s) PROVE AllReviewed'
  BY <1>14
  DEF PublishRefused, PublishFails, PublishErrs, ScreenInvariant, AllReviewed, ScreenTypes
<1>15. ASSUME NEW i \in Items, OwnEdit(i) PROVE AllReviewed'
  BY <1>15 DEF OwnEdit, ScreenInvariant, AllReviewed
<1>16. ASSUME NEW a \in Apps, NEW i \in Items, OtherEdit(a, i) PROVE AllReviewed'
  BY <1>16 DEF OtherEdit, ScreenInvariant, AllReviewed
<1>17. ASSUME NEW a \in Apps, OtherRelease(a) PROVE AllReviewed'
  BY <1>17 DEF OtherRelease, ScreenInvariant, AllReviewed
<1>18. ASSUME NEW a \in Apps, DeleteApp(a) \/ TimerFires(a) PROVE AllReviewed'
  BY <1>18 DEF DeleteApp, TimerFires, ScreenInvariant, AllReviewed
<1>19. CASE Poll \/ AnswerRefresh \/ (\E r \in refreshes : RefreshFails(r))
  BY <1>19
  DEF Poll, AnswerRefresh, AnswerGenerate, AnswerPublished, ShowChanges, RefreshFails,
      ScreenInvariant, AllReviewed
<1>20. CASE UNCHANGED vars
  BY <1>20 DEF vars, ScreenInvariant, AllReviewed
<1>21. QED
  BY <1>1, <1>2, <1>3, <1>4, <1>5, <1>6, <1>7, <1>8, <1>9, <1>10, <1>11, <1>12, <1>13, <1>14,
      <1>15, <1>16, <1>17, <1>18, <1>19, <1>20
  DEF Next, AnswerLoad, AnswerPub, Failure

\* The button is enabled when nothing is awaited.
LEMMA OneAtATimeStep ==
  ASSUME ScreenInvariant, [Next]_vars
  PROVE  OneAtATime'
<1> USE ConsoleAssumption DEF server, context, screen
<1> ScreenTypes
  BY DEF ScreenInvariant
<1> ScreenTypes'
  BY ScreenTypesStep
<1>1. CASE ListAnswer
  BY <1>1, UnmountedTyped, PageEffectDoes
  DEF ListAnswer, ShowList, LeavePage, ScreenInvariant, OneAtATime, Awaited, ScreenTypes
<1>2. CASE ListFails \/ LeavePublish \/ AddApplication \/ LeaveSetup
  BY <1>2, UnmountedTyped
  DEF ListFails, LeavePublish, AddApplication, LeaveSetup, LeavePage, ScreenInvariant,
      OneAtATime, Awaited, ScreenTypes
<1>3. CASE PushReleases
  BY <1>3, UnmountedTyped
  DEF PushReleases, LeavePage, ScreenInvariant, OneAtATime, Awaited, ScreenTypes
<1>4. CASE OpenPublish
  <2>1. loads = {} /\ \A s \in Slots : ~Awaited(s)
    BY <1>4 DEF OpenPublish, ScreenInvariant, OneAtATime
  <2>2. UNCHANGED pubs /\ \A l \in loads' : l.release = FALSE
    <3>1. CASE sel = None
      BY <1>4, <2>1, <3>1 DEF OpenPublish
    <3>2. CASE sel # None
      BY <1>4, <2>1, <3>2 DEF OpenPublish, Load
    <3>3. QED BY <3>1, <3>2
  <2>3. route' = "publish"
    BY <1>4 DEF OpenPublish
  <2>4. QED BY <2>1, <2>2, <2>3 DEF OneAtATime, Awaited
<1>5. CASE Retry
  BY <1>5, ForgottenTyped DEF Retry, OneAtATime, Awaited, ScreenTypes
<1>6. CASE TypeChangelog
  BY <1>6 DEF TypeChangelog, ScreenInvariant, OneAtATime, Awaited
<1>7. CASE PressPublish
  <2>1. PICK s \in Slots :
           /\ pubs[s] = None
           /\ pubs' = [pubs EXCEPT ![s] =
                          [app |-> sel, here |-> TRUE, tab |-> TRUE, done |-> FALSE,
                           reviewed |-> page.of = sel, mixed |-> page.mixed]]
    BY <1>7, PressSends
  <2>2. \A t \in Slots : ~Awaited(t)
    BY <1>7, PressSends DEF ScreenInvariant, OneAtATime
  <2>3. \A t \in Slots : Awaited(t)' => t = s
    BY <2>1, <2>2 DEF Awaited
  <2>4. \A l \in loads : ~l.release
    BY <1>7, PressSends DEF ScreenInvariant, OneAtATime
  <2>5. UNCHANGED <<loads, route>> /\ route = "publish" /\ page'.sending /\ page'.changelog
    BY <1>7, PressSends
  <2>6. QED BY <2>3, <2>4, <2>5 DEF OneAtATime
<1>8. ASSUME NEW a \in Apps, SelectApp(a) PROVE OneAtATime'
  BY <1>8, PageEffectDoes DEF SelectApp, ScreenInvariant, OneAtATime, Awaited, ScreenTypes
<1>9. ASSUME NEW l \in loads, ServeLoad(l) \/ PublishedUnread(l) PROVE OneAtATime'
  BY <1>9
  DEF ServeLoad, PublishedUnread, Served, Loading, ScreenInvariant, OneAtATime, Awaited,
      ScreenTypes
<1>10. ASSUME NEW l \in loads, ShowLoad(l) PROVE OneAtATime'
  BY <1>10 DEF ShowLoad, LoadEnds, Pages, ScreenInvariant, OneAtATime, Awaited, ScreenTypes
<1>11. ASSUME NEW l \in loads, LoadRefused(l) \/ LoadFails(l) PROVE OneAtATime'
  <2>1. /\ loads' = loads \ {l} /\ UNCHANGED <<pubs, route>>
        /\ page' = [[page EXCEPT !.failed = TRUE] EXCEPT !.loading = FALSE,
                                                       !.sending = @ /\ ~l.release]
    BY <1>11 DEF LoadRefused, LoadFails, LoadErrs, LoadEnds
  <2>2. page'.changelog = page.changelog /\ (page'.sending <=> page.sending /\ ~l.release)
    BY <2>1 DEF ScreenTypes, Pages
  <2>3. \A s \in Slots : Awaited(s)' <=> Awaited(s)
    BY <2>1 DEF Awaited
  <2>4. QED BY <2>1, <2>2, <2>3 DEF ScreenInvariant, OneAtATime
<1>12. ASSUME NEW s \in Slots, ServePublish(s) PROVE OneAtATime'
  BY <1>12 DEF ServePublish, ScreenInvariant, OneAtATime, Awaited
<1>13. ASSUME NEW s \in Slots, AnswerPublish(s) PROVE OneAtATime'
  <2>1. pubs[s] # None /\ pubs'[s] = None /\ \A t \in Slots : t # s => pubs'[t] = pubs[t]
    BY <1>13, AnswerDoes DEF AnswerPublish, ScreenTypes
  <2>2. \A t \in Slots : Awaited(t)' <=> Awaited(t) /\ t # s
    BY <2>1 DEF Awaited
  <2>3. CASE pubs[s].here
    <3>1. /\ Awaited(s) /\ page'.sending = page.sending /\ UNCHANGED route
          /\ \E new : new.release /\ loads' = loads \union {new}
      BY <1>13, <2>1, <2>3, AnswerDoes DEF Awaited
    <3>2. page.sending /\ route = "publish" /\ \A t \in Slots : ~Awaited(t)'
      BY <2>2, <3>1 DEF ScreenInvariant, OneAtATime
    <3>3. \A l \in loads : ~l.release
      BY <3>1 DEF ScreenInvariant, OneAtATime
    <3>4. QED BY <3>1, <3>2, <3>3 DEF OneAtATime
  <2>4. CASE ~pubs[s].here
    <3>1. \A t \in Slots : Awaited(t)' <=> Awaited(t)
      BY <2>2, <2>4 DEF Awaited
    <3>2. UNCHANGED <<page, loads, route>>
      BY <1>13, <2>4, AnswerDoes
    <3>3. QED BY <3>1, <3>2 DEF ScreenInvariant, OneAtATime
  <2>5. QED BY <2>3, <2>4
<1>14. ASSUME NEW s \in Slots, PublishRefused(s) \/ PublishFails(s) PROVE OneAtATime'
  <2>1. /\ PublishErrs(s) /\ UNCHANGED <<loads, route>>
        /\ page'.changelog = page.changelog
        /\ ~pubs[s].here => page' = page
    BY <1>14, PublishErrsDoes DEF PublishRefused, PublishFails
  <2>2. \A t \in Slots : Awaited(t)' <=> Awaited(t) /\ t # s
    BY <2>1, PublishErrsDoes DEF Awaited
  <2>3. CASE pubs[s].here
    <3>1. Awaited(s)
      BY <2>1, <2>3 DEF Awaited, PublishErrs
    <3>2. \A t \in Slots : ~Awaited(t)'
      BY <2>2, <3>1 DEF ScreenInvariant, OneAtATime
    <3>3. \A l \in loads : ~l.release
      BY <3>1 DEF ScreenInvariant, OneAtATime
    <3>4. QED BY <2>1, <3>2, <3>3 DEF ScreenInvariant, OneAtATime
  <2>4. CASE ~pubs[s].here
    <3>1. \A t \in Slots : Awaited(t)' <=> Awaited(t)
      BY <2>2, <2>4 DEF Awaited
    <3>2. UNCHANGED <<page, loads, route>>
      BY <2>1, <2>4
    <3>3. QED BY <3>1, <3>2 DEF ScreenInvariant, OneAtATime
  <2>5. QED BY <2>3, <2>4
<1>15. ASSUME NEW i \in Items, OwnEdit(i) PROVE OneAtATime'
  BY <1>15 DEF OwnEdit, ScreenInvariant, OneAtATime, Awaited
<1>16. ASSUME NEW a \in Apps, NEW i \in Items, OtherEdit(a, i) PROVE OneAtATime'
  BY <1>16 DEF OtherEdit, ScreenInvariant, OneAtATime, Awaited
<1>17. ASSUME NEW a \in Apps, OtherRelease(a) PROVE OneAtATime'
  BY <1>17 DEF OtherRelease, ScreenInvariant, OneAtATime, Awaited
<1>18. ASSUME NEW a \in Apps, DeleteApp(a) \/ TimerFires(a) PROVE OneAtATime'
  BY <1>18 DEF DeleteApp, TimerFires, ScreenInvariant, OneAtATime, Awaited
<1>19. CASE Poll \/ AnswerRefresh \/ (\E r \in refreshes : RefreshFails(r))
  BY <1>19
  DEF Poll, AnswerRefresh, AnswerGenerate, AnswerPublished, ShowChanges, RefreshFails,
      ScreenInvariant, OneAtATime, Awaited
<1>20. CASE UNCHANGED vars
  BY <1>20 DEF vars, ScreenInvariant, OneAtATime, Awaited
<1>21. QED
  BY <1>1, <1>2, <1>3, <1>4, <1>5, <1>6, <1>7, <1>8, <1>9, <1>10, <1>11, <1>12, <1>13, <1>14,
      <1>15, <1>16, <1>17, <1>18, <1>19, <1>20
  DEF Next, AnswerLoad, AnswerPub, Failure

\* A served request has used the text it was sent with.
LEMMA UsedOnceStep ==
  ASSUME ScreenInvariant, [Next]_vars
  PROVE  UsedOnce'
<1> USE ConsoleAssumption DEF server, context, screen
<1> ScreenTypes
  BY DEF ScreenInvariant
<1> ScreenTypes'
  BY ScreenTypesStep
<1>1. CASE ListAnswer
  BY <1>1, MountedTyped, PageEffectDoes
  DEF ListAnswer, ShowList, LeavePage, ScreenInvariant, UsedOnce, Awaited, ScreenTypes
<1>2. CASE ListFails \/ LeavePublish \/ AddApplication \/ LeaveSetup
  BY <1>2, MountedTyped
  DEF ListFails, LeavePublish, AddApplication, LeaveSetup, LeavePage, ScreenInvariant,
      UsedOnce, Awaited
<1>3. CASE PushReleases
  BY <1>3, MountedTyped DEF PushReleases, LeavePage, ScreenInvariant, UsedOnce, Awaited
<1>4. CASE OpenPublish
  BY <1>4, MountedTyped, LoadTyped DEF OpenPublish, Load, UsedOnce
<1>5. CASE Retry
  BY <1>5, MountedTyped, ForgottenTyped DEF Retry, UsedOnce
<1>6. CASE TypeChangelog
  BY <1>6 DEF TypeChangelog, UsedOnce
<1>7. CASE PressPublish
  BY <1>7, PressSends DEF PressPublish, Pages, ScreenInvariant, UsedOnce, OneAtATime
<1>8. ASSUME NEW a \in Apps, SelectApp(a) PROVE UsedOnce'
  BY <1>8, PageEffectDoes DEF SelectApp, ScreenInvariant, UsedOnce, Awaited, ScreenTypes
<1>9. ASSUME NEW l \in loads, ServeLoad(l) \/ PublishedUnread(l) PROVE UsedOnce'
  BY <1>9 DEF ServeLoad, PublishedUnread, Served, ScreenInvariant, UsedOnce, Awaited
<1>10. ASSUME NEW l \in loads, ShowLoad(l) PROVE UsedOnce'
  BY <1>10, LoadEndDoes DEF ScreenInvariant, UsedOnce, Awaited
<1>11. ASSUME NEW l \in loads, LoadRefused(l) \/ LoadFails(l) PROVE UsedOnce'
  BY <1>11, LoadEndDoes DEF ScreenInvariant, UsedOnce, Awaited
<1>12. ASSUME NEW s \in Slots, ServePublish(s) PROVE UsedOnce'
  <2>1. /\ pubs[s] \in Publishing /\ ~pubs[s].done /\ pubs' = [pubs EXCEPT ![s].done = TRUE]
        /\ page' = IF pubs[s].here THEN [page EXCEPT !.used = @ + 1] ELSE page
    BY <1>12 DEF ServePublish, ScreenTypes
  <2>2. /\ pubs'[s].done /\ pubs'[s].here = pubs[s].here /\ pubs'[s] # None
        /\ \A t \in Slots : t # s => pubs'[t] = pubs[t]
    <3>1. pubs'[s] = [pubs[s] EXCEPT !.done = TRUE] /\ \A t \in Slots : t # s => pubs'[t] = pubs[t]
      BY <2>1 DEF ScreenTypes
    <3>2. pubs[s] \in Publishing
      BY <2>1
    <3>3. pubs'[s] \in Publishing /\ pubs'[s].done /\ pubs'[s].here = pubs[s].here
      BY <3>1, <3>2 DEF Publishing
    <3>4. QED BY <3>1, <3>3, ValuesAssumption
  <2>3. CASE pubs[s].here
    <3>1. Awaited(s) /\ page.changelog /\ \A t \in Slots : Awaited(t) => t = s
      BY <2>1, <2>3, ValuesAssumption DEF Awaited, ScreenInvariant, OneAtATime
    <3>2. page.lost \/ page.used = 0
      BY <2>1, <3>1 DEF ScreenInvariant, UsedOnce
    <3>3. page'.used = page.used + 1 /\ page'.lost = page.lost
      BY <2>1, <2>3
    <3>4. Awaited(s)' /\ \A t \in Slots : Awaited(t)' => t = s
      BY <2>2, <2>3, <3>1 DEF Awaited
    <3>5. QED BY <2>2, <3>2, <3>3, <3>4 DEF UsedOnce
  <2>4. CASE ~pubs[s].here
    <3>1. \A t \in Slots : Awaited(t)' <=> Awaited(t) /\ t # s
      BY <2>2, <2>4 DEF Awaited
    <3>2. ~Awaited(s) /\ page' = page
      BY <2>1, <2>4 DEF Awaited
    <3>3. QED BY <2>2, <3>1, <3>2 DEF ScreenInvariant, UsedOnce
  <2>5. QED BY <2>3, <2>4
<1>13. ASSUME NEW s \in Slots, AnswerPublish(s) PROVE UsedOnce'
  BY <1>13, AnswerDoes DEF AnswerPublish, ScreenInvariant, UsedOnce, Awaited, ScreenTypes
<1>14. ASSUME NEW s \in Slots, PublishRefused(s) \/ PublishFails(s) PROVE UsedOnce'
  <2>1. /\ PublishErrs(s)
        /\ ~pubs[s].here => page' = page
        /\ pubs[s].here => page'.lost = (page.lost \/ pubs[s].done)
        /\ page'.changelog = page.changelog /\ page'.used = page.used
    BY <1>14, PublishErrsDoes DEF PublishRefused, PublishFails
  <2>2. pubs'[s] = None /\ \A t \in Slots : t # s => pubs'[t] = pubs[t]
    BY <2>1, PublishErrsDoes
  <2>3. \A t \in Slots : Awaited(t)' <=> Awaited(t) /\ t # s
    BY <2>2 DEF Awaited
  <2>4. CASE pubs[s].here
    <3>0. Awaited(s)
      BY <2>1, <2>4 DEF Awaited, PublishErrs
    <3>1. Awaited(s) /\ \A t \in Slots : ~Awaited(t)'
      BY <2>3, <3>0 DEF ScreenInvariant, OneAtATime
    <3>2. page.changelog
      BY <3>1 DEF ScreenInvariant, OneAtATime
    <3>3. page'.lost \/ (~pubs[s].done /\ ~page.lost)
      BY <2>1, <2>4, PublishErrsDoes DEF Publishing, ScreenTypes, Pages
    <3>4. ~pubs[s].done /\ ~page.lost => page.used = 0
      BY <3>1 DEF ScreenInvariant, UsedOnce
    <3>5. QED BY <2>1, <3>1, <3>3, <3>4 DEF UsedOnce
  <2>5. CASE ~pubs[s].here
    <3>1. \A t \in Slots : Awaited(t)' <=> Awaited(t)
      BY <2>3, <2>5 DEF Awaited
    <3>2. \A t \in Slots : Awaited(t) => pubs'[t] = pubs[t]
      BY <2>2, <2>5 DEF Awaited
    <3>3. page' = page
      BY <2>1, <2>5
    <3>4. QED BY <3>1, <3>2, <3>3 DEF ScreenInvariant, UsedOnce
  <2>6. QED BY <2>4, <2>5
<1>15. ASSUME NEW i \in Items, OwnEdit(i) PROVE UsedOnce'
  BY <1>15 DEF OwnEdit, ScreenInvariant, UsedOnce, Awaited
<1>16. ASSUME NEW a \in Apps, NEW i \in Items, OtherEdit(a, i) PROVE UsedOnce'
  BY <1>16 DEF OtherEdit, ScreenInvariant, UsedOnce, Awaited
<1>17. ASSUME NEW a \in Apps, OtherRelease(a) PROVE UsedOnce'
  BY <1>17 DEF OtherRelease, ScreenInvariant, UsedOnce, Awaited
<1>18. ASSUME NEW a \in Apps, DeleteApp(a) \/ TimerFires(a) PROVE UsedOnce'
  BY <1>18 DEF DeleteApp, TimerFires, ScreenInvariant, UsedOnce, Awaited
<1>19. CASE Poll \/ AnswerRefresh \/ (\E r \in refreshes : RefreshFails(r))
  BY <1>19
  DEF Poll, AnswerRefresh, AnswerGenerate, AnswerPublished, ShowChanges, RefreshFails,
      ScreenInvariant, UsedOnce, Awaited
<1>20. CASE UNCHANGED vars
  BY <1>20 DEF vars, ScreenInvariant, UsedOnce, Awaited
<1>21. QED
  BY <1>1, <1>2, <1>3, <1>4, <1>5, <1>6, <1>7, <1>8, <1>9, <1>10, <1>11, <1>12, <1>13, <1>14,
      <1>15, <1>16, <1>17, <1>18, <1>19, <1>20
  DEF Next, AnswerLoad, AnswerPub, Failure

\* The invariant holds from the start and in every reachable state.
THEOREM ScreensInvariant ==
  Spec => []ScreenInvariant
<1>1. Init => ScreenInvariant
  <2> SUFFICES ASSUME Init PROVE ScreenInvariant
    OBVIOUS
  <2>1. ScreenTypes
    BY MountedTyped DEF Init, ScreenTypes, Configs, Items
  <2>2. ShowsSelected /\ AllReviewed /\ OneAtATime /\ UsedOnce
    BY MountedTyped DEF Init, ShowsSelected, AllReviewed, OneAtATime, UsedOnce, Awaited
  <2>3. QED BY <2>1, <2>2 DEF ScreenInvariant
<1>2. ScreenInvariant /\ [Next]_vars => ScreenInvariant'
  BY ScreenTypesStep, ShowsSelectedStep, AllReviewedStep, OneAtATimeStep, UsedOnceStep
  DEF ScreenInvariant
<1>3. QED BY <1>1, <1>2, PTL DEF Spec

\* However often the button is pressed, whatever loads and answers cross, and whenever
\* the operator leaves the page or selects another app, one changelog makes one release,
\* unless an answer was lost (handlePublish of the publish page).
THEOREM ChangelogReleasesOnce ==
  Spec => []OneReleasePerChangelog
<1>1. ScreenInvariant => OneReleasePerChangelog
  BY DEF ScreenInvariant, UsedOnce, OneReleasePerChangelog
<1>2. QED BY <1>1, ScreensInvariant, PTL

\* A release the server serves was pressed on the diff of its app, unless the load that
\* diff came from had answered for another app (loadAppData and handlePublish).
THEOREM ReleasesWereReviewed ==
  Spec => ReleaseWasReviewed
<1> DEFINE A == \A s \in Slots : ServePublish(s) => pubs[s].reviewed \/ pubs[s].mixed
<1>1. ScreenInvariant => A
  BY DEF ScreenInvariant, AllReviewed, ServePublish
<1>2. QED BY <1>1, ScreensInvariant, PTL DEF ReleaseWasReviewed, Spec
=============================================================================
