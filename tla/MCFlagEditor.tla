----------------------------- MODULE MCFlagEditor -----------------------------
(***************************************************************************)
(* One flag that is stored and room for another, one or two tabs.          *)
(***************************************************************************)
EXTENDS FlagEditor

CONSTANTS T1, T2

MCTabs == {T1, T2}
MCItems == {"f1", "f2"}
MCEnvs == {"beta", "production"}
MCNames == {<<>>, <<"A", " ", "1">>, <<"b">>}
MCKeyOrder == <<"Control", "Group 3", "Group 4", "Group 5", "Treatment">>
MCTexts == {<<>>, <<"x">>}

Condition1 == Condition("region", "in", <<<<"x">>>>)

Variant(id) == [id |-> id, value |-> Value("boolean", "true"), conditions |-> <<Condition1>>, order |-> 1]

Stored1 ==
  [key |-> <<"b">>, name |-> <<"b">>, type |-> "bool", notes |-> Null,
   defaults |-> [env \in MCEnvs |-> Value("boolean", "false")],
   variants |-> [env \in MCEnvs |-> <<Variant(<<Null, env>>)>>],
   archived |-> FALSE, published |-> FALSE, released |-> FALSE]

Live == [Stored1 EXCEPT !.published = TRUE]
Json == [Live EXCEPT !.type = "json", !.defaults = [env \in MCEnvs |-> Value("string", "{}")],
                     !.variants = [env \in MCEnvs |-> <<>>]]
Whole == [Live EXCEPT !.type = "int", !.defaults = [env \in MCEnvs |-> Value("number", "0")],
                     !.variants = [env \in MCEnvs |-> <<>>]]

Idle == [pages |-> {}, sections |-> {}, gestures |-> 0, opens |-> 0]

Work(pages, sections, gestures, opens) ==
  [pages |-> pages, sections |-> sections, gestures |-> gestures, opens |-> opens]

Scenario(row, losses, releases, one, other) ==
  [rows |-> ("f1" :> row) @@ ("f2" :> Null),
   budget |-> [losses |-> losses, releases |-> releases],
   desk |-> (T1 :> one) @@ (T2 :> other)]

New  == Page("new", Null)
Edit == Page("edit", "f1")
List == Page("flags", Null)

MCScenarios ==
  {Scenario(Stored1, 0, 0, Work({New}, {"name", "type", "defaults"}, 4, 1), Idle),
   Scenario(Stored1, 1, 0, Work({New}, {"name", "notes"}, 3, 2), Idle),
   Scenario(Whole, 0, 0, Work({Edit}, {"name", "defaults"}, 3, 1), Idle),
   Scenario(Json, 0, 0, Work({Edit, List}, {"defaults"}, 4, 2), Idle),
   Scenario(Live, 1, 1, Work({Edit}, {"notes"}, 3, 2), Idle),
   Scenario(Stored1, 0, 2, Work({List}, {}, 3, 2), Idle),
   Scenario(Live, 1, 0, Work({Edit, List}, {"notes"}, 3, 2), Idle),
   Scenario(Live, 0, 0, Work({List}, {}, 2, 1), Work({Edit}, {"notes"}, 2, 1)),
   Scenario(Live, 0, 0, Work({List}, {}, 2, 1), Work({List}, {}, 2, 1)),
   Scenario(Stored1, 0, 1, Work({List}, {}, 2, 1), Work({Edit}, {"notes"}, 2, 1))}

=============================================================================
