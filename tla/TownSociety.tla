----------------------------- MODULE TownSociety -----------------------------
(***************************************************************************)
(* Who sides with whom: the factions of backend/app/engine/service.py and  *)
(* the conversations, votes and exiles of backend/app/social/service.py,   *)
(* as operators on the suspicion of each agent and on the trust it has in  *)
(* those it knows.                                                         *)
(*                                                                         *)
(* Trust is counted in half points, influence in hundredths.  Agents are   *)
(* numbered in the order of SimulationState.agents, and it is that order   *)
(* which decides between equals, as it does where the code sorts or takes  *)
(* a maximum of the list.                                                  *)
(***************************************************************************)
EXTENDS Integers, SequencesExt

CONSTANTS
    Agents,     (* 1 .. n                                                    *)
    Profile     (* Agents -> personality, goal archetype and rank of the name *)

Clamp(low, x, high) == Max({low, Min({x, high})})
When(condition, amount) == IF condition THEN amount ELSE 0

Base(a) == 40 * Profile[a].dominance + 15 * Profile[a].loyalty
             + 20 * Profile[a].ambition

ASSUME SocietyAssumption ==
    /\ IsFiniteSet(Agents) /\ Agents = 1 .. Cardinality(Agents)
    /\ \A a \in Agents :
          /\ {Profile[a].dominance, Profile[a].loyalty, Profile[a].ambition}
                \subseteq 0 .. 100
          /\ Profile[a].name \in Nat

(* sorted: the n-th of S has n - 1 before it.                                *)
Sorted(S, Before(_, _)) ==
    [n \in 1 .. Cardinality(S) |->
        CHOOSE x \in S : Cardinality({y \in S : Before(y, x)}) = n - 1]

(* What an agent thinks of those it knows.                                   *)
IsTrust(t) == DOMAIN t \subseteq Agents /\ t \in [DOMAIN t -> -200 .. 200]
AreBonds(trust) == trust \in [Agents -> Range(trust)] /\ \A a \in Agents : IsTrust(trust[a])

-----------------------------------------------------------------------------
(* Factions                                                                  *)

InfluenceScore(a, suspicion) ==
    Min({10000, Base(a) + 25 * Max({suspicion[a], 20})})

(* influence of the agents: of those who have left it is 0.                  *)
Influences(active, suspicion) ==
    [a \in Agents |-> IF a \in active THEN InfluenceScore(a, suspicion) ELSE 0]

TrustsAtLeast(trust, a, b, least) == b \in DOMAIN trust[a] /\ trust[a][b] >= least

IsCultCandidate(a) ==
    Profile[a].archetype = "belief_transformation" \/ Profile[a].devout

SupportsLeader(trust, a, leader) ==
    a = leader \/ TrustsAtLeast(trust, a, leader, -4) \/ IsCultCandidate(a)

Allied(trust, a, b) ==
    \/ Profile[a].archetype = Profile[b].archetype
    \/ TrustsAtLeast(trust, a, b, 2)
    \/ TrustsAtLeast(trust, b, a, 2)

(* The component of a: the smallest group with a in it that no ally is       *)
(* outside of.                                                               *)
AllianceComponent(trust, a, candidates) ==
    LET closed(g) == \A x \in g, y \in candidates : Allied(trust, x, y) => y \in g
    IN CHOOSE g \in SUBSET candidates :
          /\ a \in g /\ closed(g)
          /\ \A h \in SUBSET candidates : a \in h /\ closed(h) => g \subseteq h

(* An agent is popped once for itself and once for each of its allies.       *)
Pops(candidates) == 0 .. Cardinality(candidates) * Cardinality(candidates)

(* The way of _alliance_component from seed, pop by pop: whom it has met, and *)
(* its stack, on which it puts the allies in the order of the list.          *)
DepthFirst(trust, seed, candidates) ==
    LET Popped(w) ==
            LET x == Last(w.stack)
                allies == {y \in candidates \ (w.met \union {x}) : Allied(trust, x, y)}
            IN IF x \in w.met THEN [w EXCEPT !.stack = Front(@)]
               ELSE [met |-> w.met \union {x},
                     stack |-> Front(w.stack) \o Sorted(allies, <)]
        Went(w) == IF w.stack = <<>> THEN w ELSE Popped(w)
        way[n \in Pops(candidates)] ==
            IF n = 0 THEN [met |-> {}, stack |-> <<seed>>] ELSE Went(way[n - 1])
    IN way

(* The most influential of a component; of equals, the one it meets first on *)
(* its way from the first of the list.                                       *)
AllianceLeader(trust, g, candidates, suspicion) ==
    LET way == DepthFirst(trust, Min(g), candidates)
        score == [a \in g |-> InfluenceScore(a, suspicion)]
        delay == [a \in g |-> Cardinality({n \in Pops(candidates) : a \notin way[n].met})]
    IN CHOOSE a \in g : \A b \in g :
           score[a] > score[b] \/ (score[a] = score[b] /\ delay[a] <= delay[b])

Members(factions) == UNION {f.members : f \in factions}

(* Cults, greedily from the most influential candidate down; then the        *)
(* alliances of everybody else.                                              *)
Factions(active, suspicion, trust) ==
    LET score == [a \in active |-> InfluenceScore(a, suspicion)]
        ranked == Sorted(active, LAMBDA a, b :
                      score[a] > score[b] \/ (score[a] = score[b] /\ a < b))
        Recruit(cults, leader) ==
            LET free == active \ Members(cults)
                members == {a \in free : SupportsLeader(trust, a, leader)}
            IN IF leader \in free /\ IsCultCandidate(leader) /\ Cardinality(members) >= 2
               THEN cults \union {[kind |-> "cult", leader |-> leader, members |-> members]}
               ELSE cults
        cults == FoldLeft(Recruit, {}, ranked)
        rest == active \ Members(cults)
        components == {AllianceComponent(trust, a, rest) : a \in rest}
    IN cults \union {[kind |-> "alliance", members |-> g,
                      leader |-> AllianceLeader(trust, g, rest, suspicion)] :
                        g \in {h \in components : Cardinality(h) >= 2}}

(* faction_id, or 0; an agent leads a faction if it is its own leader.       *)
FactionOf(a, factions) ==
    IF a \in Members(factions)
    THEN (CHOOSE f \in factions : a \in f.members).leader
    ELSE 0

-----------------------------------------------------------------------------
(* Relationships                                                             *)

(* update_relationship_memory: a's trust in b, which makes b known to a.     *)
Moved(trust, a, b, delta) ==
    LET old == IF b \in DOMAIN trust[a] THEN trust[a][b] ELSE 0
        new == Clamp(-200, old + delta, 200)
    IN [trust EXCEPT ![a] =
           [c \in DOMAIN trust[a] \union {b} |-> IF c = b THEN new ELSE trust[a][c]]]

ConversationTrustDelta(speaker, listener) ==
    LET p == Profile[speaker]
    IN Clamp(-8,
             When(p.archetype = Profile[listener].archetype, 3)
               + When(p.empathy >= 60, 2) + When(p.loyalty >= 60, 1)
               - When(p.paranoia >= 65, 3) - When(p.ambition >= 70, 1)
               - When(p.gossipy, 1) + When(p.protective, 1),
             8)

(* Two turns, of the one and of the other, each of which moves the trust of  *)
(* both.                                                                     *)
Conversed(trust, a, b) ==
    LET first == ConversationTrustDelta(a, b)
        second == ConversationTrustDelta(b, a)
    IN Moved(Moved(Moved(Moved(trust, a, b, first), b, a, first),
                   b, a, second), a, b, second)

VoteDelta(source, same) ==
    LET p == Profile[source]
    IN IF same THEN 3 + When(p.loyalty >= 65, 1)
       ELSE -4 - When(p.loyalty >= 65, 1) - When(p.paranoia >= 65, 1)

(* _apply_meeting_relationships: those who took a side judge one another.    *)
AfterMeeting(trust, votes) ==
    LET sided == {a \in DOMAIN votes : votes[a] # "abstain"}
        Judge(t, pair) ==
            Moved(t, pair[1], pair[2],
                  Clamp(-8, VoteDelta(pair[1], votes[pair[1]] = votes[pair[2]]), 6))
    IN FoldLeft(Judge, trust, SetToSeq({p \in sided \X sided : p[1] # p[2]}))

-----------------------------------------------------------------------------
(* The town meeting                                                          *)

MeetingVote(a, factions, crisis, threat) ==
    LET p == Profile[a]
    IN IF FactionOf(a, factions) = a
       THEN IF p.archetype = "social_disruption" THEN "oppose" ELSE "support"
       ELSE IF p.loyalty >= 65 \/ p.archetype = "communal_survival" THEN "support"
       ELSE IF p.paranoia >= 70 \/ crisis \in {"social", "discovery"} THEN "oppose"
       ELSE IF p.empathy >= 60 /\ threat < 5500 THEN "support"
       ELSE IF threat >= 6000 THEN "support"
       ELSE "abstain"

(* Whose name comes up: the most suspicious, then the most influential at    *)
(* the last count, then the first; 0 if nobody's does.                       *)
(* Mutant: also of those who have left.                                      *)
ExileTargetOfAll(active, suspicion, influence, factions) ==
    LET suspects == {a \in Agents : suspicion[a] >= 55}
    IN IF suspects = {} THEN 0
       ELSE CHOOSE a \in suspects : \A b \in suspects : suspicion[a] >= suspicion[b]
ExileTarget(active, suspicion, influence, factions) ==
    LET suspects == {a \in active : suspicion[a] >= 55}
        leaders == {a \in active : FactionOf(a, factions) = a /\ suspicion[a] >= 45}
        candidates == IF suspects # {} THEN suspects ELSE leaders
        Before(a, b) ==
            \/ suspicion[a] > suspicion[b]
            \/ /\ suspicion[a] = suspicion[b]
               /\ influence[a] > influence[b] \/ (influence[a] = influence[b] /\ a <= b)
    IN IF candidates = {} THEN 0
       ELSE CHOOSE a \in candidates : \A b \in candidates : Before(a, b)

(* Mutant: suspicion is looked at before the faction is.                     *)
ExileVoteUnshielded(a, target, suspicion, factions, threat) ==
    LET side == FactionOf(a, factions)
        targetSide == FactionOf(target, factions)
    IN IF a = target THEN "protect"
       ELSE IF Profile[a].paranoia >= 65 \/ suspicion[target] >= 70 THEN "banish"
       ELSE IF side # 0 /\ side = targetSide THEN "protect"
       ELSE IF Profile[a].archetype = "belief_transformation" /\ targetSide # side THEN "banish"
       ELSE IF threat < 5000 THEN "abstain" ELSE "banish"
ExileVote(a, target, suspicion, factions, threat) ==
    LET side == FactionOf(a, factions)
        targetSide == FactionOf(target, factions)
    IN IF a = target THEN "protect"
       ELSE IF suspicion[target] >= 80 THEN "banish"
       ELSE IF side # 0 /\ side = targetSide THEN "protect"
       ELSE IF Profile[a].paranoia >= 65 \/ suspicion[target] >= 70 THEN "banish"
       ELSE IF Profile[a].archetype = "belief_transformation" /\ targetSide # side THEN "banish"
       ELSE IF threat < 5000 THEN "abstain" ELSE "banish"

(* An agent the meeting exiles, or 0.                                        *)
Exiled(active, suspicion, influence, factions, threat) ==
    LET target == ExileTarget(active, suspicion, influence, factions)
        Count(vote) == Cardinality({a \in active :
            ExileVote(a, target, suspicion, factions, threat) = vote})
    IN IF /\ target # 0
          /\ Count("banish") > Count("protect")
          /\ Count("banish") >= Max({2, Cardinality(active) \div 2})
       THEN target ELSE 0
=============================================================================
