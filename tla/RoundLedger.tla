---------------------------- MODULE RoundLedger ----------------------------
(***************************************************************************)
(* What the persisted history of an experiment promises: rounds are        *)
(* committed one after the other, none is taken back or skipped, and each  *)
(* has at most one world snapshot, written after it was committed and      *)
(* before the next one is (the analytics and the replay read one snapshot  *)
(* per round, and load_world_snapshot raises on two).                      *)
(***************************************************************************)
EXTENDS Naturals

CONSTANTS Experiments, Writers

VARIABLES
    committed,   (* [Experiments -> Nat]: experiments.current_round           *)
    snapshots    (* [Experiments -> SUBSET (Nat \X Writers)]: world_snapshots *)

ledger == <<committed, snapshots>>

Init ==
    /\ committed = [e \in Experiments |-> 0]
    /\ snapshots = [e \in Experiments |-> {}]

Commit(e) ==
    /\ committed' = [committed EXCEPT ![e] = @ + 1]
    /\ UNCHANGED snapshots

Snapshot(e, w) ==
    /\ committed[e] > 0
    /\ \A s \in snapshots[e] : s[1] < committed[e]
    /\ snapshots' = [snapshots EXCEPT ![e] = @ \cup {<<committed[e], w>>}]
    /\ UNCHANGED committed

Next == \E e \in Experiments : Commit(e) \/ \E w \in Writers : Snapshot(e, w)

Spec == Init /\ [][Next]_ledger
=============================================================================
