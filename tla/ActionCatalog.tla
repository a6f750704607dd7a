---------------------------- MODULE ActionCatalog ----------------------------
(***************************************************************************)
(* The table of actions, backend/app/actions: what an agent may decide to  *)
(* do, where it may do it, whom it takes, and what it does to its target.  *)
(***************************************************************************)
EXTENDS Naturals

(* What an agent may decide on.                                              *)
DecisionAction ==
    {"move", "gather", "repair", "trade", "talk", "hoard", "sabotage", "explore",
     "accuse", "vote", "rest", "observe", "attack", "threaten", "stab", "shoot",
     "poison", "dance", "pray", "rally", "mourn", "celebrate", "argue", "pee",
     "poop", "vomit", "sleep", "eat", "drink", "investigate", "monologue",
     "panic", "breakdown", "self_sacrifice"}

(* Actions bound to a type of location; every other one may be done anywhere. *)
AllowedAt ==
    [gather |-> {"farm", "water_source", "store"},
     repair |-> {"workshop", "meeting_hall", "boundary", "mystery"},
     hoard |-> {"farm", "water_source", "store", "residence", "bar", "brothel"},
     vote |-> {"meeting_hall"}]

MayBeDone(type, placeType) ==
    type \in DOMAIN AllowedAt => placeType \in AllowedAt[type]

(* Actions that take another agent, and how far away that one may be.        *)
Interaction ==
    {"trade", "talk", "accuse", "attack", "threaten", "stab", "shoot",
     "poison", "argue", "investigate"}
Reach(type) == IF type = "shoot" THEN 4 ELSE 2

(* What befalls the target of a hostile act, and the suspicion it leaves.    *)
ConsequencePool ==
    [attack |-> {"injured", "knocked_down", "stunned", "burning"},
     threaten |-> {"crying", "fleeing", "stunned"},
     stab |-> {"bleeding", "injured"},
     shoot |-> {"bleeding", "injured"},
     poison |-> {"poisoned"}]
Hostile == DOMAIN ConsequencePool
ConsequenceSuspicion ==
    [bleeding |-> 8, injured |-> 7, stunned |-> 6, knocked_down |-> 7,
     burning |-> 9, poisoned |-> 8, crying |-> 4, fleeing |-> 5]

(* What the round counts as cooperation, by what was asked for.              *)
Cooperative ==
    {"gather", "repair", "talk", "trade", "rest", "observe", "pray", "rally",
     "mourn", "self_sacrifice"}

(* Simultaneous attempts of these at one place are a conflict.               *)
Contested == {"gather", "hoard", "repair", "explore", "accuse", "vote"}
=============================================================================
