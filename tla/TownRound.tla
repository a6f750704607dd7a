------------------------------ MODULE TownRound ------------------------------
(***************************************************************************)
(* SimulationEngine.run_round, backend/app/engine/service.py: what a round *)
(* does to the town, from one await to the next.                           *)
(*                                                                         *)
(* The engine awaits the writer of the plan, the mind of each agent in     *)
(* turn, the hooks that stream the round, and the memory of everybody at   *)
(* night.  At these points an observer event may reach the same state;     *)
(* between them nothing runs but the engine.  In particular, actions are   *)
(* resolved (at = "resolving") without a pause, one group of them a step.  *)
(***************************************************************************)
EXTENDS ActionCatalog, CrisisPlan, TownSociety

CONSTANTS
    Towns,          (* the states a round may find: experiments as loaded,   *)
                    (* with what counts as taken already of the bounds below *)
    TotalRounds,    (* total_rounds                                          *)
    Plans,          (* the plans a model or a client may write               *)
    Answers,        (* the decisions a mind may take, besides the fallback   *)
    MaxAnswers,     (* how many of them it takes (all others are fallbacks)  *)
    MaxInjections,  (* observer events                                       *)
    RecentLimit,    (* RECENT_MEMORY_LIMIT                                   *)
    HistoryLimit,   (* of exile_history and sacrifice_history                *)
    PlotlineLimit   (* of unresolved_plotlines                               *)

(* The state of a town between two rounds: its people, its stores, its past.  *)
ArePeople(start) ==
    /\ start.suspicion \in [Agents -> 0 .. 100]
    /\ AreBonds(start.trust)
    /\ start.tile \in [Agents -> Tiles] /\ start.location \in [Agents -> Places]
AreStores(start) ==
    start.resources \in [Resources -> Nat] /\ start.threat \in Cents
IsPast(start) ==
    /\ {start.round, start.answers, start.injections} \subseteq Nat
    /\ start.exiles \in Seq([who : Agents, day : 0 .. start.round])
    /\ \A i, j \in DOMAIN start.exiles :
          start.exiles[i].who = start.exiles[j].who => i = j
IsTown(start) == ArePeople(start) /\ AreStores(start) /\ IsPast(start)

ASSUME TownAssumption ==
    /\ {MaxAnswers, MaxInjections} \subseteq Nat
    /\ {TotalRounds, RecentLimit, HistoryLimit, PlotlineLimit} \subseteq Nat \ {0}
    /\ {"town_hall", "perimeter_fence"} \subseteq Places /\ "none" \notin Places
    /\ \A start \in Towns : IsTown(start)
    /\ Plans \subseteq [type : STRING, severity : DOMAIN Severity,
                        modifiers : [Resources -> Int], watch : BOOLEAN]
    /\ Answers \subseteq [type : DecisionAction, location : Places \union {"none"},
                          target : Agents \union {0}, doubt : BOOLEAN]

VARIABLES
    status, suspicion, trust, influence,    (* of each agent                 *)
    tile, location,
    recent, cursor, (* the rounds of its recent_events; last_consolidated_round *)
    factions, occupancy, resources, threat, plotlines,
    exiles, sacrifices,                     (* the two histories             *)
    plan, draft,    (* gm_plan; what the rules make of the plan being written *)
    round, town,    (* current_round; status of the experiment               *)
    phase, at,      (* the phase of the round, and where in it the engine is *)
    todo, slots,    (* agents still to act, actions left to the first        *)
    asked,          (* its suspicion when its mind was asked                 *)
    prepared,       (* the actions decided on and not resolved               *)
    shaken,         (* faction_refresh_needed                                *)
    tally,          (* decisions of this round, and how many cooperate       *)
    news,           (* what the meeting's events tell                        *)
    answers, injections

people == <<status, suspicion, trust, influence, tile, location, recent, cursor>>
history == <<exiles, sacrifices>>
world == <<occupancy, resources, threat>>
script == <<plotlines, plan, draft>>
engine == <<todo, slots, asked, prepared, shaken, tally, news>>
vars == <<people, factions, world, script, history, round, town, phase, at,
          engine, answers, injections>>

Active == {a \in Agents : status[a] = "active"}

(* Mutant: the round is counted at its end only.                             *)
DayBehind == round
Day == IF phase = "none" THEN round ELSE round + 1

Phases == {"none", "gm_plan", "dawn", "morning", "midday", "afternoon", "night"}
PerAgent == [morning |-> 2, afternoon |-> 1]

NoPlan == [round |-> 0, type |-> "none", severity |-> "low",
           modifiers |-> NoModifiers, watch |-> FALSE]
ForRound(n, p) == [round |-> n, type |-> p.type, severity |-> p.severity,
                   modifiers |-> p.modifiers, watch |-> p.watch]

NoNews == [tallied |-> {}, announced |-> {}, told |-> {}]

Latest(s, n) == SubSeq(s, Max({1, Len(s) - n + 1}), Len(s))
Remembering(mem, a, n) == Latest(mem[a] \o [i \in 1 .. n |-> Day], RecentLimit)

(* Mutant: no ceiling.                                                       *)
MoreUnbounded(level, amount) == level + amount
More(level, amount) == Min({100, level + amount})

(* Mutant: factions of everybody, also of those who have left.               *)
RefreshedForAll(active, s, t) ==
    /\ factions' = Factions(Agents, s, t)
    /\ influence' = Influences(active, s)
Refreshed(active, s, t) ==
    /\ factions' = Factions(active, s, t)
    /\ influence' = Influences(active, s)

-----------------------------------------------------------------------------
Init ==
    /\ \E start \in Towns :
          /\ suspicion = start.suspicion
          /\ trust = start.trust
          /\ tile = start.tile
          /\ location = start.location
          /\ resources = start.resources
          /\ threat = start.threat
          /\ round = start.round
          /\ answers = start.answers
          /\ injections = start.injections
          /\ exiles = start.exiles
    /\ status = [a \in Agents |-> IF \E i \in DOMAIN exiles : exiles[i].who = a
                                   THEN "exiled" ELSE "active"]
    /\ influence = [a \in Agents |-> 0]
    /\ recent = [a \in Agents |-> <<>>]
    /\ cursor = [a \in Agents |-> round]
    /\ factions = {}
    /\ occupancy = [p \in Places |-> {}]
    /\ plotlines = <<>>
    /\ sacrifices = <<>>
    /\ plan = NoPlan /\ draft = NoPlan
    /\ town = "running"
    /\ phase = "none" /\ at = "done"
    /\ todo = <<>> /\ slots = 0 /\ asked = 0 /\ prepared = <<>>
    /\ shaken = FALSE
    /\ tally = [asked |-> 0, coop |-> 0]
    /\ news = NoNews

(* inject_observer_event, at any await: it reaches everybody, also those who *)
(* have left.                                                                *)
Inject ==
    /\ at # "resolving"
    /\ injections < MaxInjections
    /\ injections' = injections + 1
    /\ suspicion' = [a \in Agents |-> More(suspicion[a], 6)]
    /\ \E watch \in BOOLEAN :
          plotlines' = Latest(Append(plotlines, watch), PlotlineLimit)
    /\ UNCHANGED <<status, trust, influence, tile, location, recent, cursor,
                   factions, world, plan, draft, history, round, town, phase,
                   at, engine, answers>>

(* The plan of the next round was written and approved before the round.     *)
PlanApproved ==
    /\ phase = "none" /\ town = "running"
    /\ round < TotalRounds
    /\ plan.round # round + 1
    /\ \E p \in Plans : plan' = ForRound(round + 1, p)
    /\ UNCHANGED <<people, factions, world, plotlines, draft, history, round,
                   town, phase, at, engine, answers, injections>>

StartRound ==
    /\ phase = "none" /\ town = "running"
    /\ phase' = "gm_plan"
    /\ Refreshed(Active, suspicion, trust)
    /\ IF plan.round = round + 1
       THEN at' = "done" /\ UNCHANGED draft
       ELSE /\ at' = "asking"
            /\ draft' = ForRound(round + 1,
                           RuleBasedPlan(round + 1, threat, resources, plotlines))
    /\ tally' = [asked |-> 0, coop |-> 0]
    /\ news' = NoNews
    /\ UNCHANGED <<status, suspicion, trust, tile, location, recent, cursor,
                   world, plotlines, plan, history, round, town, todo, slots,
                   asked, prepared, shaken, answers, injections>>

(* _gm_plan_phase after its await: the model's plan, or that of the rules.   *)
PlanArrives ==
    /\ phase = "gm_plan" /\ at = "asking"
    /\ at' = "done"
    /\ plan' \in {draft} \union {ForRound(round + 1, p) : p \in Plans}
    /\ draft' = NoPlan
    /\ UNCHANGED <<people, factions, world, plotlines, history, round, town,
                   phase, engine, answers, injections>>

Dawn ==
    /\ phase = "gm_plan" /\ at = "done"
    /\ phase' = "dawn"
    /\ resources' = Ticked(resources, plan.modifiers)
    /\ threat' = Threat(resources', 60, plan.severity)
    /\ plotlines' = Latest(Append(plotlines, plan.watch), PlotlineLimit)
    /\ UNCHANGED <<people, factions, occupancy, plan, draft, history, round,
                   town, at, engine, answers, injections>>

-----------------------------------------------------------------------------
(* The two phases of actions: everybody decides, one agent after the other,  *)
(* and then what they decided on is resolved.                                *)

Roster == Sorted(Active, <)

BeginActions(before, next) ==
    /\ phase = before /\ at = "done"
    /\ phase' = next
    /\ todo' = Roster
    /\ slots' = PerAgent[next]
    /\ prepared' = <<>>
    /\ IF Roster = <<>> THEN at' = "resolving" /\ UNCHANGED asked
       ELSE at' = "asking" /\ asked' = suspicion[Head(Roster)]
    /\ shaken' = FALSE
    /\ UNCHANGED <<people, factions, world, script, history, round, town,
                   tally, news, answers, injections>>

Near(a, from, reach) ==
    {b \in Active \ {a} : Distance(from, tile[b]) <= reach}

(* _prepare_action: what becomes of a decision, where, and on which tile.    *)
Blocked(a) == [type |-> "observe", place |-> location[a], tile |-> tile[a],
               moves |-> FALSE, blocked |-> TRUE]
Action(a, d) ==
    LET here == d.location = "none"
        goals == IF here THEN {} ELSE Entry[d.location]
        destination == IF here THEN tile[a] ELSE StepToward(tile[a], goals)
        place == IF here THEN location[a] ELSE Label[destination]
    IN IF ~here /\ goals = {} THEN Blocked(a)
       ELSE IF ~here /\ (d.type = "move" \/ destination \notin goals)
       THEN [type |-> "move", place |-> place, tile |-> destination,
             moves |-> TRUE, blocked |-> FALSE]
       ELSE IF \/ ~MayBeDone(d.type, PlaceType[place])
               \/ d.type \in Interaction /\ Near(a, destination, Reach(d.type)) = {}
       THEN Blocked(a)
       ELSE [type |-> d.type, place |-> place, tile |-> destination,
             moves |-> destination # tile[a], blocked |-> FALSE]

(* The brain's decide: suspicion grows from what it was when the mind was    *)
(* asked, at the edge of the map and with a doubt of its own.                *)
(* Mutant: a turn begins without any.                                        *)
SuspectedAnew(d) == When(d.doubt, 6)
Suspected(d) ==
    More(asked, When(d.type = "explore" /\ d.location = "perimeter_fence", 8)
                  + When(d.doubt, 6))

Fallback(a) == [type |-> "observe", location |-> location[a], target |-> 0,
                doubt |-> FALSE]

Turn(a, d) ==
    LET act == Action(a, d)
    IN /\ at' = "told"
       /\ suspicion' = [suspicion EXCEPT ![a] =
             IF act.blocked THEN More(Suspected(d), 5) ELSE Suspected(d)]
       /\ recent' = [recent EXCEPT ![a] =
             Remembering(recent, a, IF act.blocked THEN 2 ELSE 1)]
       /\ tile' = [tile EXCEPT ![a] = act.tile]
       /\ location' = [location EXCEPT ![a] = IF act.moves THEN Label[act.tile] ELSE @]
       /\ prepared' = Append(prepared, [agent |-> a, type |-> act.type,
                                        place |-> act.place, target |-> d.target])
       /\ tally' = [asked |-> tally.asked + 1,
                    coop |-> tally.coop + When(d.type \in Cooperative, 1)]
       /\ slots' = IF act.type = "self_sacrifice" THEN 0 ELSE slots - 1
       /\ UNCHANGED <<status, trust, influence, cursor, factions, world, script,
                      history, round, town, phase, todo, asked, shaken, news,
                      injections>>

Decide ==
    /\ phase \in DOMAIN PerAgent /\ at = "asking"
    /\ \E d \in Answers :
          /\ answers < MaxAnswers
          /\ answers' = answers + 1
          /\ Turn(Head(todo), d)

MindFails ==
    /\ phase \in DOMAIN PerAgent /\ at = "asking"
    /\ Turn(Head(todo), Fallback(Head(todo)))
    /\ UNCHANGED answers

Key(e) == <<e.place, e.type>>

(* The groups, in the order in which their first action was decided on.      *)
(* Mutant: in the order of the last.                                         *)
GroupedByLast(actions) ==
    LET LastOf(i) == Max({j \in DOMAIN actions : Key(actions[j]) = Key(actions[i])})
        order == Sorted(DOMAIN actions,
                     LAMBDA i, j : \/ LastOf(i) < LastOf(j)
                                   \/ LastOf(i) = LastOf(j) /\ i < j)
    IN [n \in DOMAIN order |-> actions[order[n]]]
Grouped(actions) ==
    LET First(i) == Min({j \in 1 .. i : Key(actions[j]) = Key(actions[i])})
        order == Sorted(DOMAIN actions,
                     LAMBDA i, j : \/ First(i) < First(j)
                                   \/ First(i) = First(j) /\ i < j)
    IN [n \in DOMAIN order |-> actions[order[n]]]

(* on_agent_action has streamed the turn: the same agent, the next one, or   *)
(* the resolution.                                                           *)
TurnStreamed ==
    /\ at = "told"
    /\ LET left == IF slots > 0 THEN todo ELSE Tail(todo)
       IN /\ todo' = left
          /\ IF left = <<>>
             THEN /\ at' = "resolving"
                  /\ prepared' = Grouped(prepared)
                  /\ UNCHANGED <<slots, asked>>
             ELSE /\ at' = "asking"
                  /\ asked' = suspicion[Head(left)]
                  /\ slots' = IF slots > 0 THEN slots ELSE PerAgent[phase]
                  /\ UNCHANGED prepared
    /\ UNCHANGED <<people, factions, world, script, history, round, town,
                   phase, shaken, tally, news, answers, injections>>

-----------------------------------------------------------------------------
(* _resolve_actions                                                          *)

(* The first group of what is left: prepared has been grouped.               *)
Group == SubSeq(prepared, 1,
             Cardinality({i \in DOMAIN prepared : Key(prepared[i]) = Key(prepared[1])}))
Resolving == at = "resolving" /\ prepared # <<>>
Entering(agents, place) == [occupancy EXCEPT ![place] = @ \union agents]

resolution == <<status, influence, tile, location, cursor, script, round, town,
                phase, at, todo, slots, asked, tally, news, answers, injections>>

(* run_conversations: from the least suspicious up, two by two; whoever is   *)
(* left over joins no conversation.                                          *)
Converse ==
    LET g == Group
        place == prepared[1].place
        Before(i, j) ==
            LET a == g[i].agent
                b == g[j].agent
            IN \/ suspicion[a] < suspicion[b]
               \/ /\ suspicion[a] = suspicion[b]
                  /\ \/ Profile[a].name < Profile[b].name
                     \/ Profile[a].name = Profile[b].name /\ i < j
        order == Sorted(DOMAIN g, Before)
        ordered == [n \in DOMAIN g |-> g[order[n]].agent]
        pairs == Len(g) \div 2
        Parts(a) == Cardinality({i \in 1 .. 2 * pairs : ordered[i] = a})
    IN /\ Resolving
       /\ prepared[1].type = "talk" /\ Len(g) > 1
       /\ prepared' = SubSeq(prepared, Len(g) + 1, Len(prepared))
       /\ trust' = FoldLeft(LAMBDA t, i : Conversed(t, ordered[2 * i - 1], ordered[2 * i]),
                            trust, [i \in 1 .. pairs |-> i])
       /\ recent' = [a \in Agents |-> Remembering(recent, a, 2 * Parts(a))]
       /\ occupancy' = Entering({ordered[i] : i \in 1 .. 2 * pairs}, place)
       /\ Refreshed(Active, suspicion, trust')
       /\ UNCHANGED <<status, suspicion, tile, location, cursor, resources,
                      threat, script, history, round, town, phase, at, todo,
                      slots, asked, shaken, tally, news, answers, injections>>

(* Half of those who collide come out ahead, the least suspicious of them,   *)
(* with chance to decide between equals.                                     *)
Clash ==
    LET g == Group
        n == Len(g)
        place == prepared[1].place
        type == prepared[1].type
        Times(a, entries) == Cardinality({i \in entries : g[i].agent = a})
    IN /\ Resolving
       /\ type \in Contested /\ n > 1
       /\ prepared' = SubSeq(prepared, n + 1, Len(prepared))
       /\ \E winners \in kSubset(Max({1, n \div 2}), 1 .. n) :
             LET losers == (1 .. n) \ winners
             IN /\ \A w \in winners, l \in losers :
                      suspicion[g[w].agent] <= suspicion[g[l].agent]
                /\ occupancy' = Entering({g[w].agent : w \in winners}, place)
                /\ resources' = AfterActions(resources, type, Cardinality(winners), TRUE)
                /\ suspicion' = [a \in Agents |->
                                    More(suspicion[a], 3 * Times(a, losers))]
       /\ UNCHANGED <<trust, recent, factions, threat, history, shaken, resolution>>

(* _apply_self_sacrifice                                                     *)
Sacrifice ==
    LET a == prepared[1].agent
        place == prepared[1].place
        witnesses == Active \ {a}
    IN /\ Resolving
       /\ prepared[1].type = "self_sacrifice"
       /\ prepared' = Tail(prepared)
       /\ resources' = AfterActions(resources, "self_sacrifice", 1, FALSE)
       /\ threat' = Max({0, threat - 800})
       /\ status' = [status EXCEPT ![a] = "dead"]
       /\ location' = [location EXCEPT ![a] = place]
       /\ influence' = [influence EXCEPT ![a] = 0]
       /\ occupancy' = [p \in Places |-> occupancy[p] \ {a}]
       /\ suspicion' = [b \in Agents |->
             IF b \in witnesses THEN More(suspicion[b], 9) ELSE suspicion[b]]
       /\ recent' = [b \in Agents |->
             IF b \in witnesses THEN Remembering(recent, b, 1) ELSE recent[b]]
       /\ sacrifices' = Latest(Append(sacrifices, [who |-> a, day |-> Day, place |-> place]),
                               HistoryLimit)
       /\ shaken' = TRUE
       /\ UNCHANGED <<trust, tile, cursor, factions, script, exiles, round,
                      town, phase, at, todo, slots, asked, tally, news, answers,
                      injections>>

(* _resolve_target_agent: the one asked for, if near, be it by its id or by a *)
(* name, which others may bear; else whoever is nearest; a hostile act that  *)
(* asks for nobody has no target.  0 for none.                               *)
Targets(e) ==
    LET near == Near(e.agent, tile[e.agent], Reach(e.type))
        away == [b \in near |-> Distance(tile[e.agent], tile[b])]
        Closer(b, c) ==
            \/ away[b] < away[c]
            \/ /\ away[b] = away[c]
               /\ \/ Profile[b].name < Profile[c].name
                  \/ Profile[b].name = Profile[c].name /\ b <= c
        closest == CHOOSE b \in near : \A c \in near : Closer(b, c)
        named == {b \in near : e.target # 0 /\ Profile[b].name = Profile[e.target].name}
    IN IF \/ e.type \notin Interaction \/ near = {}
          \/ e.type \in Hostile /\ e.target = 0
       THEN {0}
       ELSE {IF e.target \in near THEN e.target ELSE closest,
             IF named # {} THEN Min(named) ELSE closest}

(* An action without a rival, and what it does to its target.                *)
Act ==
    LET e == prepared[1]
    IN /\ Resolving
       /\ e.type # "self_sacrifice"
       /\ e.type \in Contested \union {"talk"} => Len(Group) = 1
       /\ prepared' = Tail(prepared)
       /\ occupancy' = Entering({e.agent}, e.place)
       /\ resources' = AfterActions(resources, e.type, 1, FALSE)
       /\ \E victim \in IF e.type \in Hostile THEN Targets(e) ELSE {0} :
             IF victim = 0 THEN UNCHANGED <<suspicion, recent>>
             ELSE /\ \E c \in ConsequencePool[e.type] :
                        suspicion' = [suspicion EXCEPT ![victim] =
                                         More(@, ConsequenceSuspicion[c])]
                  /\ recent' = [recent EXCEPT ![victim] = Remembering(recent, victim, 1)]
       /\ UNCHANGED <<trust, factions, threat, history, shaken, resolution>>

EndActions ==
    /\ at = "resolving" /\ prepared = <<>>
    /\ at' = "done"
    /\ IF shaken THEN Refreshed(Active, suspicion, trust)
       ELSE UNCHANGED <<factions, influence>>
    /\ shaken' = FALSE
    /\ asked' = 0
    /\ UNCHANGED <<status, suspicion, trust, tile, location, recent, cursor,
                   world, script, history, round, town, phase, todo, slots,
                   prepared, tally, news, answers, injections>>

-----------------------------------------------------------------------------
(* Mutant: the departed vote.                                                *)
VotersOfAll == Agents
Voters == Active

(* _midday_phase: the meeting votes and turns on somebody; then the votes    *)
(* move the trust and the factions, whose events are made up; then comes the *)
(* exile; and then the votes of those still there are announced.             *)
Midday ==
    LET votes == [a \in Voters |-> MeetingVote(a, factions, plan.type, threat)]
        out == Exiled(Active, suspicion, influence, factions, threat)
        stay == Active \ {out}
    IN /\ phase = "morning" /\ at = "done"
       /\ phase' = "midday"
       /\ trust' = AfterMeeting(trust, votes)
       /\ status' = [a \in Agents |-> IF a = out THEN "exiled" ELSE status[a]]
       /\ location' = [a \in Agents |-> IF a = out THEN "perimeter_fence" ELSE location[a]]
       /\ occupancy' = [p \in Places |->
             (occupancy[p] \union (IF p = "town_hall" THEN Active ELSE {})) \ {out}]
       /\ exiles' = IF out = 0 THEN exiles
                    ELSE Latest(Append(exiles, [who |-> out, day |-> Day]), HistoryLimit)
       /\ Refreshed(stay, suspicion, trust')
       /\ news' = [tallied |-> DOMAIN votes, announced |-> stay,
                   told |-> Factions(Active, suspicion, trust')]
       /\ UNCHANGED <<suspicion, tile, recent, cursor, resources, threat,
                      script, sacrifices, round, town, at, todo, slots, asked,
                      prepared, shaken, tally, answers, injections>>

Cooperation ==
    IF tally.asked = 0 THEN 50 ELSE RoundDiv(100 * tally.coop, tally.asked)

(* _night_phase up to its gather.                                            *)
NightFalls ==
    /\ phase = "afternoon" /\ at = "done"
    /\ phase' = "night" /\ at' = "asking"
    /\ threat' = Threat(resources, Cooperation, plan.severity)
    /\ UNCHANGED <<people, factions, occupancy, resources, script, history,
                   round, town, engine, answers, injections>>

(* Everybody reflects and then consolidates what has not been, if it is      *)
(* enough; a failure of the model leaves it for another night.               *)
Reflect ==
    LET memory == [a \in Agents |->
                     IF a \in Active THEN Remembering(recent, a, 1) ELSE recent[a]]
        due == {a \in Active :
                  Cardinality({i \in DOMAIN memory[a] : memory[a][i] > cursor[a]}) >= 3}
    IN /\ phase = "night" /\ at = "asking"
       /\ at' = "done"
       /\ recent' = memory
       /\ \E failed \in SUBSET due :
             cursor' = [a \in Agents |->
                           IF a \in due \ failed THEN Last(memory[a]) ELSE cursor[a]]
       /\ UNCHANGED <<status, suspicion, trust, influence, tile, location,
                      factions, world, script, history, round, town, phase,
                      engine, answers, injections>>

(* Mutant: the limit of the threat is taken for a tenth of it.               *)
StatusAfterEarly(n) ==
    IF threat >= 1000 THEN "collapsed" ELSE IF n >= TotalRounds THEN "completed" ELSE town
StatusAfter(n) ==
    IF threat >= 10000 THEN "collapsed" ELSE IF n >= TotalRounds THEN "completed" ELSE town

Finalise ==
    /\ phase = "night" /\ at = "done"
    /\ phase' = "none"
    /\ round' = round + 1
    /\ town' = StatusAfter(round')
    /\ UNCHANGED <<people, factions, world, script, history, at, engine,
                   answers, injections>>

Next ==
    \/ Inject \/ PlanApproved \/ StartRound \/ PlanArrives \/ Dawn
    \/ BeginActions("dawn", "morning") \/ BeginActions("midday", "afternoon")
    \/ Decide \/ MindFails \/ TurnStreamed
    \/ Converse \/ Clash \/ Sacrifice \/ Act \/ EndActions
    \/ Midday \/ NightFalls \/ Reflect \/ Finalise

Spec == Init /\ [][Next]_vars

-----------------------------------------------------------------------------
(* Type invariant: levels stay in their ranges and memories in their limits,  *)
(* however often suspicion, trust and threat are moved.                      *)
TypeOK ==
    /\ status \in [Agents -> {"active", "exiled", "dead"}]
    /\ suspicion \in [Agents -> 0 .. 100]
    /\ \A a \in Agents :
          /\ IsTrust(trust[a])
          /\ Len(recent[a]) <= RecentLimit
          /\ \A i \in DOMAIN recent[a] : recent[a][i] \in 0 .. Day
    /\ influence \in [Agents -> Cents]
    /\ cursor \in [Agents -> 0 .. Day]
    /\ tile \in [Agents -> Tiles] /\ location \in [Agents -> Places]
    /\ occupancy \in [Places -> SUBSET Agents]
    /\ resources \in [Resources -> Nat]
    /\ threat \in Cents
    /\ Len(plotlines) <= PlotlineLimit
    /\ town \in {"running", "completed", "collapsed"}
    /\ phase \in Phases /\ at \in {"asking", "told", "resolving", "done"}
    /\ tally.coop <= tally.asked

(* A faction is never left with a member who is gone: whenever the engine    *)
(* lets anybody look (so not while it resolves, when a sacrifice waits for   *)
(* its refresh), factions are disjoint groups of two or more of those who    *)
(* are there, led by one of their own.                                       *)
FactionsAreOfActives ==
    at # "resolving" =>
        \A f \in factions :
            /\ f.members \subseteq Active
            /\ f.leader \in f.members
            /\ Cardinality(f.members) >= 2
            /\ \A g \in factions : f # g => f.members \intersect g.members = {}

(* Nobody who has left is listed at a location.  There is one way around it: *)
(* two sacrifices of one morning at one place form a group that comes before *)
(* what the second of the two had decided on first, and that earlier action, *)
(* resolved after the death, enters the agent again.                         *)
DepartedAreGone ==
    \A a \in UNION {occupancy[p] : p \in Places} :
        \/ status[a] = "active"
        \/ \E i, j \in DOMAIN sacrifices :
              /\ i < j /\ sacrifices[j].who = a
              /\ sacrifices[i].day = sacrifices[j].day
              /\ sacrifices[i].place = sacrifices[j].place

(* A town collapses for want of stocks, never of cooperation or by a crisis  *)
(* alone: at least two of the four are below what the town needs.            *)
CollapseNeedsShortage ==
    town = "collapsed" =>
        Cardinality({x \in Resources : resources[x] < Baseline[x]}) >= 2

(* What the meeting's events tell differs from what was counted only by the  *)
(* one whom the meeting exiled: its vote is in the tally and not announced,  *)
(* and a faction may be announced with it.                                   *)
MeetingIsTold ==
    LET exiledToday == {exiles[i].who : i \in {j \in DOMAIN exiles : exiles[j].day = Day}}
    IN /\ news.announced \subseteq news.tallied
       /\ news.tallied \ news.announced \subseteq exiledToday
       /\ Members(news.told) \ news.announced \subseteq exiledToday

(* A faction as large as the rest of the town keeps its own: such a meeting  *)
(* exiles nobody of it but one of suspicion 80 or more, whom even the own    *)
(* faction gives up.  It takes the order in which a voter weighs suspicion   *)
(* and faction, the majority of the tally, and that a voter has one faction  *)
(* (social/service.py:276, 306-342).                                         *)
FactionsShieldTheirOwn ==
    [][\A a \in Active, f \in factions :
          status'[a] = "exiled" /\ a \in f.members /\ suspicion[a] < 80 =>
              2 * Cardinality(f.members) < Cardinality(Active)]_vars

(* Suspicion only grows, except in one race: a turn writes what the mind     *)
(* made of the suspicion it was asked with, over what an observer event      *)
(* added meanwhile.  Nothing else is ever lost, and no other agent's.        *)
SuspicionFallsOnlyToARace ==
    [][\A a \in Agents :
          suspicion'[a] < suspicion[a] =>
              /\ at = "asking" /\ todo # <<>> /\ a = Head(todo)
              /\ suspicion[a] > asked /\ suspicion'[a] >= asked]_vars

(* No event is recorded behind the cursor of the consolidation, where no     *)
(* later night would look at it.                                             *)
EventsAheadOfCursor ==
    [][\A a \in Agents :
          recent'[a] # recent[a] => Last(recent'[a]) > cursor[a]]_vars

(* Departures are final, recorded once and in the same step, and a town      *)
(* exiles at most one of three or more a round.                              *)
Population == INSTANCE TownPopulation WITH
    People <- Agents,
    present <- Active,
    banished <- exiles,
    fallen <- [i \in DOMAIN sacrifices |-> sacrifices[i].who],
    day <- Day
PopulationSpec == Population!Spec
=============================================================================
