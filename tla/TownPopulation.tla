--------------------------- MODULE TownPopulation ----------------------------
(***************************************************************************)
(* What a round promises about who is left: people leave, by exile or by   *)
(* their own sacrifice, and never come back; each departure is entered in  *)
(* its record in the step in which it happens, once; a town exiles at most *)
(* one of its people a round, and only if three of them were there.        *)
(***************************************************************************)
EXTENDS Naturals, Sequences

CONSTANTS People

VARIABLES
    present,    (* those who take part                                       *)
    banished,   (* the record of exiles, by round                            *)
    fallen,     (* the record of sacrifices                                  *)
    day         (* the number of the round under way, or of the last one     *)

population == <<present, banished, fallen, day>>

Init ==
    /\ day \in Nat
    /\ present \subseteq People
    /\ \A i \in DOMAIN banished :
          banished[i].who \in People \ present /\ banished[i].day <= day
    /\ \A i \in DOMAIN fallen : fallen[i] \in People \ present

Dawns ==
    /\ day' = day + 1
    /\ UNCHANGED <<present, banished, fallen>>

Banish(p) ==
    /\ p \in present
    /\ \E q, r \in present \ {p} : q # r
    /\ banished # <<>> => banished[Len(banished)].day < day
    /\ present' = present \ {p}
    /\ banished' = Append(banished, [who |-> p, day |-> day])
    /\ UNCHANGED <<fallen, day>>

Fall(p) ==
    /\ p \in present
    /\ present' = present \ {p}
    /\ fallen' = Append(fallen, p)
    /\ UNCHANGED <<banished, day>>

Next == Dawns \/ \E p \in People : Banish(p) \/ Fall(p)

Spec == Init /\ [][Next]_population
=============================================================================
