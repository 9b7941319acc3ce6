---------------------------- MODULE MCExperiments ----------------------------
(***************************************************************************)
(* Three rows' worth of tests and rollouts, one or two tabs, and thirteen  *)
(* scenarios: which pages a tab visits, which sections of a form it uses   *)
(* and how much it does there.                                             *)
(***************************************************************************)
EXTENDS Experiments

CONSTANTS T1, T2

MCTabs == {T1, T2}
MCItems == {"i1", "i2", "i3"}
MCFlags == {"f1", "f2"}
MCEnvs == {"beta", "production"}
MCNames == {<<"A", " ", "1">>, <<"b", "/", "2">>}
MCNumbers == {Null, 30, 60, 150}
MCTexts == {<<>>, <<"x", "y">>}
MCTypes == {"region", "app_version"}
MCKeyOrder == <<"A", "B", "Control", "Group 1", "Group 2", "Group 3", "Group 4", "Group 5", "Treatment">>

Condition1 == Condition("region", "in", <<<<"x">>>>)

StoredTest ==
  [type |-> "TEST", key |-> <<"b">>, name |-> <<"b">>, notes |-> Null, conditions |-> <<>>,
   flagIds |-> {"f1"}, archived |-> FALSE, percentage |-> Null, rolloutValues |-> Null,
   variants |-> [g \in {"A", "B"} |->
     [percentage |-> 50, values |-> [env \in MCEnvs |-> [f \in {"f1"} |-> "v1"]]]]]

StoredRollout ==
  [type |-> "ROLLOUT", key |-> <<"a">>, name |-> <<"a">>, notes |-> Null,
   conditions |-> <<Condition1>>, flagIds |-> {"f1"}, archived |-> FALSE, percentage |-> 30,
   variants |-> Null, rolloutValues |-> [NoValues EXCEPT !["beta"] = [f \in {"f1"} |-> "v1"]]]

Running == ("i1" :> StoredTest) @@ ("i2" :> StoredRollout) @@ ("i3" :> Null)

Ended ==
  ("i1" :> [StoredTest EXCEPT !.archived = TRUE])
    @@ ("i2" :> [StoredRollout EXCEPT !.archived = TRUE, !.percentage = 100]) @@ ("i3" :> Null)

Idle == [pages |-> {}, sections |-> {}, gestures |-> 0, opens |-> 0]

Work(pages, sections, gestures, opens) ==
  [pages |-> pages, sections |-> sections, gestures |-> gestures, opens |-> opens]

Scenario(start, failures, one, other) ==
  [rows |-> start, losses |-> failures, desk |-> (T1 :> one) @@ (T2 :> other)]

NewTestPage    == Page("new", "TEST", Null, Null)
NewRolloutPage == Page("new", "ROLLOUT", Null, Null)
TestPage       == Page("edit", "TEST", "i1", Null)
RolloutPage    == Page("edit", "ROLLOUT", "i2", Null)
Tests          == Page("list", "TEST", Null, Null)
Rollouts       == Page("list", "ROLLOUT", Null, Null)
FlagPage(f)    == Page("flag", Null, Null, f)

MCScenarios ==
  {Scenario(Running, 1, Work({NewTestPage}, {"name", "groups"}, 5, 1), Idle),
   Scenario(Running, 1, Work({NewTestPage, NewRolloutPage}, {"name", "audience", "notes"}, 4, 1), Idle),
   Scenario(Running, 1, Work({NewRolloutPage}, {"name", "percentage"}, 3, 2), Idle),
   Scenario(Running, 1, Work({TestPage}, {"groups", "notes"}, 3, 1), Idle),
   Scenario(Ended, 1, Work({TestPage, RolloutPage}, {"name", "groups", "percentage"}, 2, 1), Idle),
   Scenario(Running, 0, Work({TestPage}, {"notes"}, 2, 1), Work({Tests}, {}, 1, 1)),
   Scenario(Running, 0, Work({RolloutPage}, {"notes"}, 2, 1), Work({Rollouts}, {}, 1, 1)),
   Scenario(Ended, 0, Work({RolloutPage}, {"notes"}, 2, 1), Work({Rollouts}, {}, 1, 1)),
   Scenario(Running, 0, Work({RolloutPage}, {"notes"}, 2, 1), Work({FlagPage("f1")}, {}, 2, 1)),
   Scenario(Running, 0, Work({FlagPage("f2")}, {}, 3, 1), Work({FlagPage("f1")}, {}, 2, 1)),
   Scenario(Running, 1, Work({FlagPage("f1")}, {}, 4, 1), Idle),
   Scenario(Running, 1, Work({Rollouts}, {}, 3, 1), Idle),
   Scenario(Running, 0, Work({RolloutPage, Rollouts}, {"percentage"}, 3, 3), Idle)}

=============================================================================
