------------------------------ MODULE TownWorld ------------------------------
(***************************************************************************)
(* The town of backend/app/world: where things are and how one walks, what *)
(* the resources do at dawn, and the threat they amount to.                *)
(*                                                                         *)
(* The map is a corridor of walkable tiles, 1 .. Length: distance and the  *)
(* shortest path keep their meaning, and the two-dimensional layout, which *)
(* nothing else depends on, is left out.  Quantities that the code rounds  *)
(* to two decimals are integers, in hundredths.                            *)
(***************************************************************************)
EXTENDS Integers, FiniteSetsExt

CONSTANTS
    Length,     (* of the corridor                                           *)
    Entry,      (* _location_entry_tiles: location -> tiles                  *)
    Label,      (* location_label_for_tile: tile -> location                 *)
    PlaceType   (* get_location_type: location -> type, "none" for no type   *)

(* Threat and influence end at 100, which is 10000 hundredths.               *)
Cents == 0 .. 10000

Tiles == 1 .. Length
Places == DOMAIN Entry

ASSUME WorldAssumption ==
    /\ Length \in Nat \ {0}
    /\ Entry \in [Places -> SUBSET Tiles]
    /\ Label \in [Tiles -> Places]
    /\ Places \subseteq DOMAIN PlaceType

Distance(s, t) == IF s < t THEN t - s ELSE s - t

(* step_toward: breadth first, so to the nearest goal, the higher tile first *)
(* among equals; at most two tiles of the way.                               *)
StepToward(start, goals) ==
    IF goals = {} THEN start
    ELSE LET near == Min({Distance(start, g) : g \in goals})
             step == IF near < 2 THEN near ELSE 2
         IN IF start + near \in goals THEN start + step ELSE start - step

(* Python's round: half to even.                                             *)
RoundDiv(n, d) ==
    LET q == n \div d
        r == n % d
    IN IF 2 * r > d \/ (2 * r = d /\ q % 2 = 1) THEN q + 1 ELSE q

-----------------------------------------------------------------------------
Resources == {"food", "water", "materials", "power"}

Decay == [food |-> 140, water |-> 100, materials |-> 180, power |-> 220]
WorldBias == [food |-> 0, water |-> 0, materials |-> -30, power |-> -50]

(* apply_resource_tick with the plan's modifiers.                            *)
Ticked(res, crisis) ==
    [x \in Resources |->
        Max({0, res[x] - Decay[x] + WorldBias[x] + crisis[x]})]

(* The weight of a shortage, w(1 - v/b), of a severity, and of a lack of      *)
(* cooperation, each in units of 1/21000, in which all of them are whole.    *)
Baseline == [food |-> 2400, water |-> 3000, materials |-> 1400, power |-> 1000]
Weight == [food |-> 105, water |-> 70, materials |-> 270, power |-> 462]
Severity == [low |-> 84000, medium |-> 189000, high |-> 294000, critical |-> 420000]

Shortage(res, x) == Max({0, Baseline[x] - res[x]}) * Weight[x]
Shortages(res) ==
    Shortage(res, "food") + Shortage(res, "water")
      + Shortage(res, "materials") + Shortage(res, "power")

(* calculate_threat_level, with cooperation in hundredths.                   *)
Threat(res, cooperation, severity) ==
    Min({10000,
         RoundDiv(168000 + Shortages(res) + (100 - cooperation) * 7350
                    + Severity[severity],
                  210)})

(* _apply_resource_effect, n times: a stock that is used up stays so.        *)
AfterActions(res, type, n, chaotic) ==
    CASE type = "gather" ->
           [res EXCEPT !.food = @ + n * (IF chaotic THEN 100 ELSE 80),
                       !.water = @ + n * 50]
      [] type = "repair" ->
           [res EXCEPT !.materials = Max({0, @ - n * 70}), !.power = @ + n * 30]
      [] type = "hoard" -> [res EXCEPT !.food = Max({0, @ - n * 60})]
      [] type = "sabotage" -> [res EXCEPT !.power = Max({0, @ - n * 90})]
      [] type = "self_sacrifice" ->
           [res EXCEPT !.food = @ + n * 100, !.materials = @ + n * 80]
      [] OTHER -> res
=============================================================================
