----------------------------- MODULE CrisisPlan ------------------------------
(***************************************************************************)
(* The plan of a round when no model writes it: the rules of               *)
(* backend/app/gm/planner.py and events.py.  A plan is reduced to the type *)
(* and severity of its crisis, what it does to the resources (hundredths), *)
(* and whether its description speaks of somebody watching, which the      *)
(* rules look for in the unresolved plotlines.                             *)
(***************************************************************************)
EXTENDS TownWorld, Sequences

CONSTANT Acts       (* rounds -> [pressure, desperate]: the arc's current act *)

NoModifiers == [x \in Resources |-> 0]

CrisisModifiers ==
    [resource |-> [NoModifiers EXCEPT !.food = -200, !.materials = -100],
     structural |-> [NoModifiers EXCEPT !.materials = -200, !.power = -200],
     social |-> NoModifiers,
     environmental |-> [NoModifiers EXCEPT !.food = -100, !.water = -100, !.power = -100],
     discovery |-> [NoModifiers EXCEPT !.materials = -100, !.power = -100],
     meta |-> [NoModifiers EXCEPT !.power = -200]]

(* The planner is always given a cooperation ratio of 0.6, so that the rules *)
(* that look for a low one, and the resource template with them, never apply. *)
CrisisTemplate(round, threat, res, watched) ==
    IF threat < 2500 /\ ~watched THEN "social"
    ELSE IF res.power <= 400 \/ res.materials <= 400 THEN "structural"
    ELSE IF watched THEN "meta"
    ELSE IF Acts[round].desperate THEN "discovery"
    ELSE "environmental"

CrisisSeverity(round, threat) ==
    IF threat >= 7000 \/ Acts[round].pressure = "critical" THEN "critical"
    ELSE IF threat >= 4500 THEN "high"
    ELSE IF threat >= 2000 \/ Acts[round].pressure = "medium" THEN "medium"
    ELSE "low"

Tenths == [low |-> 6, medium |-> 10, high |-> 14, critical |-> 18]

RuleBasedPlan(round, threat, res, plotlines) ==
    LET watched == \E i \in DOMAIN plotlines : plotlines[i]
        type == CrisisTemplate(round, threat, res, watched)
        severity == CrisisSeverity(round, threat)
    IN [type |-> type, severity |-> severity,
        modifiers |-> [x \in Resources |->
            (CrisisModifiers[type][x] \div 10) * Tenths[severity]],
        watch |-> type = "meta" \/ (plotlines # <<>> /\ plotlines[1])]
=============================================================================
