------------------------------- MODULE MCTown --------------------------------
(* Three people in a town of six tiles: the farm, the square (only one tile  *)
(* of which is its entry) and the hall; the fence is the two ends, which     *)
(* bear other names, as in the map of the game.                              *)
EXTENDS TownRound

MCAgents == 1 .. 3
Person(archetype, dominance, loyalty, ambition, paranoia, empathy, name) ==
    [archetype |-> archetype, dominance |-> dominance, loyalty |-> loyalty,
     ambition |-> ambition, paranoia |-> paranoia, empathy |-> empathy,
     devout |-> FALSE, gossipy |-> name = 1, protective |-> name = 2, name |-> name]
MCProfile ==
    <<Person("belief_transformation", 60, 66, 40, 40, 70, 2),
      Person("social_disruption", 50, 22, 75, 70, 30, 3),
      Person("communal_survival", 50, 50, 54, 30, 60, 1)>>

MCEntry ==
    [farm |-> {1, 2}, town_square |-> {4}, town_hall |-> {5, 6},
     perimeter_fence |-> {1, 6}, nowhere |-> {}]
MCLabel == <<"farm", "farm", "town_square", "town_square", "town_hall", "town_hall">>
MCPlaceType ==
    [farm |-> "farm", town_square |-> "none", town_hall |-> "meeting_hall",
     perimeter_fence |-> "boundary", nowhere |-> "none"]
MCActs == [n \in 1 .. 3 |-> [pressure |-> IF n = 1 THEN "low" ELSE "critical",
                             desperate |-> n > 1]]

Stock(food, water, materials, power) ==
    [food |-> food, water |-> water, materials |-> materials, power |-> power]
(* The first day of an experiment, with two rounds to go; a second day, with  *)
(* an alliance and suspects at hand; and one on which a person has been       *)
(* exiled and nothing is left in store.                                       *)
MCTowns ==
    {[round |-> 0, answers |-> 1, injections |-> 1,
      suspicion |-> <<0, 0, 0>>, trust |-> [a \in MCAgents |-> <<>>],
      tile |-> <<2, 4, 5>>, location |-> <<"farm", "town_square", "town_hall">>,
      resources |-> Stock(3000, 3600, 1400, 1400), threat |-> 800, exiles |-> <<>>],
     [round |-> 1, answers |-> 0, injections |-> 0,
      suspicion |-> <<40, 60, 76>>, trust |-> <<<<>>, 1 :> -6 @@ 3 :> 3, 1 :> -8>>,
      tile |-> <<3, 5, 6>>, location |-> <<"town_square", "town_hall", "town_hall">>,
      resources |-> Stock(1200, 1500, 600, 300), threat |-> 6600, exiles |-> <<>>],
     [round |-> 1, answers |-> 0, injections |-> 1,
      suspicion |-> <<30, 50, 90>>, trust |-> <<2 :> 4, 1 :> 2, <<>>>>,
      tile |-> <<1, 3, 5>>, location |-> <<"farm", "town_square", "perimeter_fence">>,
      resources |-> Stock(100, 100, 100, 100), threat |-> 9000,
      exiles |-> <<[who |-> 3, day |-> 1]>>]}

MCPlans == {[type |-> "social", severity |-> "critical",
             modifiers |-> [NoModifiers EXCEPT !.food = -300], watch |-> FALSE]}

Decision(type, place, target, doubt) ==
    [type |-> type, location |-> place, target |-> target, doubt |-> doubt]
MCAnswers ==
    {Decision("talk", "none", 0, FALSE), Decision("gather", "farm", 0, FALSE),
     Decision("attack", "none", 2, TRUE), Decision("self_sacrifice", "none", 0, FALSE),
     Decision("explore", "perimeter_fence", 0, FALSE),
     Decision("move", "town_square", 0, FALSE)}
=============================================================================
