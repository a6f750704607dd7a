----------------------------- MODULE TurnDrain -----------------------------
(***************************************************************************)
(* What the turn queue promises to those who wait for it                   *)
(* (frontend/src/stores/turn.ts: isProcessing, onDrained, setBlocked).     *)
(* Turns keep it busy; who registers while it is busy is called when the   *)
(* last turn is over, unless the narration overlay covers the page at that *)
(* moment: then the call is only made when a later turn has been played.   *)
(***************************************************************************)
CONSTANT Waiters    (* one-shot callbacks given to onDrained                *)

VARIABLES
    busy,      (* isProcessing                                              *)
    covered,   (* blocked                                                   *)
    drained    (* drainedHandlers                                           *)

drainVars == <<busy, covered, drained>>

DrainInit == busy = FALSE /\ covered = FALSE /\ drained = {}

TurnArrives == busy' = TRUE /\ UNCHANGED <<covered, drained>>

Registers(w) ==
    /\ busy
    /\ drained' = drained \cup {w}
    /\ UNCHANGED <<busy, covered>>

Drains ==
    /\ busy /\ ~covered
    /\ busy' = FALSE
    /\ drained' = {}
    /\ UNCHANGED covered

DrainsUnheard ==
    /\ busy /\ covered
    /\ busy' = FALSE
    /\ UNCHANGED <<covered, drained>>

Covers == covered' = ~covered /\ UNCHANGED <<busy, drained>>

(* The page is left.                                                         *)
Leaves == busy' = FALSE /\ covered' = FALSE /\ drained' = {}

DrainNext ==
    \/ TurnArrives \/ Drains \/ DrainsUnheard \/ Covers \/ Leaves
    \/ \E w \in Waiters : Registers(w)

DrainSpec == DrainInit /\ [][DrainNext]_drainVars
=============================================================================
