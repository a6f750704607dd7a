----------------------- MODULE ExperimentRuntimeProofs -----------------------
(***************************************************************************)
(* Proofs about ExperimentRuntime, for every set of requests, experiments, *)
(* operations and overlaps, and any number of rounds.                      *)
(***************************************************************************)
EXTENDS ExperimentRuntime, TLAPS

-----------------------------------------------------------------------------
(* The operators the handlers are built from, on well-typed arguments.       *)

LEMMA NewStateType ==
    ASSUME NEW st \in Statuses
    PROVE  NewState(st) \in State
BY DEF NewState, State, Statuses

LEMMA SetPlanType ==
    ASSUME NEW s \in State, NEW pl \in PlanRecord
    PROVE  SetPlan(s, pl) \in State
BY DEF SetPlan, State, PlanRecord

LEMMA PlanOfType ==
    ASSUME NEW s \in State
    PROVE  PlanOf(s) \in PlanRecord
BY DEF PlanOf, State, PlanRecord

LEMMA MergedType ==
    ASSUME NEW old \in State, NEW s \in State
    PROVE  Merged(old, s) \in State
BY SetPlanType, PlanOfType DEF Merged

(* A save keeps the store and the plan rows well typed.                      *)
LEMMA SaveType ==
    ASSUME TypeOK, NEW e \in Experiments, NEW s \in State, Save(e, s)
    PROVE  /\ store' \in [Experiments -> State]
           /\ appliedRows' \in [Experiments -> SUBSET Nat]
<1>1. Merged(store[e], s) \in State
  BY MergedType DEF TypeOK
<1>2. RowsAfter(appliedRows[e], s) \in SUBSET Nat
  BY DEF TypeOK, RowsAfter, State
<1>. QED BY <1>1, <1>2 DEF Save, TypeOK

LEMMA CellsOf ==
    ASSUME NEW p \in Requests
    PROVE  <<p, "own">> \in Cells /\ <<p, "outer">> \in Cells
BY DEF Cells

(* What a fetch returns is a cell, and the memory it leaves is well typed.   *)
LEMMA FetchType ==
    ASSUME TypeOK, NEW p \in Requests, Exp(p) \in Experiments, NEW c \in Cells
    PROVE  Fetched(p, c) \in Cells /\ HeapWith(p, c) \in [Cells -> State]
BY RuntimeAssumption DEF TypeOK, Fetched, HeapWith

LEMMA ReqType ==
    ASSUME TypeOK, NEW p \in Requests, pc[p] # "new"
    PROVE  Op(p) \in AllOps /\ Exp(p) \in Experiments
BY DEF TypeOK, Op, Exp

LEMMA MutatedType ==
    ASSUME NEW p \in Requests, NEW s \in State
    PROVE  Mutated(p, s) \in State
BY DEF Mutated, State, Statuses

LEMMA WithPlanType ==
    ASSUME TypeOK, NEW p \in Requests, pc[p] # "new",
           NEW h \in [Cells -> State], NEW o \in Cells, NEW pl \in PlanRecord,
           WithPlan(p, h, o, pl)
    PROVE  /\ heap' \in [Cells -> State]
           /\ lock' \in Requests \cup {None}
           /\ \E l \in Pcs \ {"new"} : pc' = [pc EXCEPT ![p] = l]
<1>1. CASE Op(p) \in {"plan", "revise"}
  BY <1>1 DEF WithPlan, Return, Goto, Release, InLock, TypeOK, Pcs, RevisePcs
<1>2. CASE Op(p) = "approve"
  <2>1. PICK r \in {pl.round} \cup StrayRounds :
          heap' = [h EXCEPT ![o] = SetPlan(@, [round |-> r, applied |-> TRUE])]
    BY <1>2 DEF WithPlan
  <2>2. [round |-> r, applied |-> TRUE] \in PlanRecord
    BY RuntimeAssumption DEF PlanRecord
  <2>3. SetPlan(h[o], [round |-> r, applied |-> TRUE]) \in State
    BY <2>2, SetPlanType
  <2>. QED BY <1>2, <2>1, <2>3 DEF WithPlan, Goto, TypeOK, Pcs
<1>. QED BY <1>1, <1>2 DEF WithPlan

(* get_or_generate_gm_plan's first half, on a memory h and a cell c.         *)
LEMMA LookupInType ==
    ASSUME TypeOK, NEW p \in Requests, pc[p] # "new",
           NEW h \in [Cells -> State], NEW c \in Cells, NEW o \in Cells,
           LookupIn(p, h, c, o)
    PROVE  /\ heap' \in [Cells -> State]
           /\ lock' \in Requests \cup {None}
           /\ ptr' \in [Requests -> Cells]
           /\ cur' \in [Requests -> Nat]
           /\ plan' \in [Requests -> PlanRecord]
           /\ \E l \in Pcs \ {"new"} : pc' = [pc EXCEPT ![p] = l]
<1>1. h[c] \in State /\ PlanOf(h[c]) \in PlanRecord
  BY PlanOfType
<1>2. h[c].round + 1 \in Nat
  BY <1>1 DEF State
<1>3. ptr' \in [Requests -> Cells] /\ cur' \in [Requests -> Nat]
  BY <1>2 DEF LookupIn, TypeOK
<1>4. CASE h[c].planRound = h[c].round + 1
  <2>1. /\ plan' = [plan EXCEPT ![p] = PlanOf(h[c])]
        /\ WithPlan(p, h, o, PlanOf(h[c]))
    BY <1>4 DEF LookupIn
  <2>. QED BY <1>1, <1>3, <2>1, WithPlanType DEF TypeOK
<1>5. CASE h[c].planRound # h[c].round + 1
  BY <1>3, <1>5 DEF LookupIn, Goto, TypeOK, Pcs, PlanPcs
<1>. QED BY <1>4, <1>5

(* Type correctness: every variable keeps its type in every reachable state.  *)
THEOREM TypeCorrect == Spec => []TypeOK
<1>1. Init => TypeOK
  <2>. SUFFICES ASSUME Init PROVE TypeOK
    OBVIOUS
  <2>1. store \in [Experiments -> State]
    <3>1. PICK existing \in SUBSET Experiments :
            store = [e \in Experiments |->
                      NewState(IF e \in existing THEN "setup" ELSE "absent")]
      BY DEF Init
    <3>2. \A e \in Experiments :
            NewState(IF e \in existing THEN "setup" ELSE "absent") \in State
      BY NewStateType DEF Statuses
    <3>. QED BY <3>1, <3>2
  <2>2. heap \in [Cells -> State]
    BY NewStateType DEF Init, Statuses
  <2>3. ptr \in [Requests -> Cells] /\ outer \in [Requests -> Cells]
    BY CellsOf DEF Init
  <2>4. plan \in [Requests -> PlanRecord]
    BY DEF Init, NoPlan, PlanRecord
  <2>. QED BY <2>1, <2>2, <2>3, <2>4 DEF Init, TypeOK, Pcs
<1>2. TypeOK /\ [Next]_vars => TypeOK'
  <2>. SUFFICES ASSUME TypeOK, [Next]_vars PROVE TypeOK'
    OBVIOUS
  <2>. USE RuntimeAssumption
  <2>1. ASSUME NEW p \in Requests, Call(p) PROVE TypeOK'
    <3>1. PICK o \in Ops, e \in Experiments :
            /\ req' = [req EXCEPT ![p] = [op |-> o, exp |-> e]]
            /\ Goto(p, FirstPc(o))
      BY <2>1 DEF Call
    <3>2. FirstPc(o) \in Pcs
      BY DEF FirstPc, Pcs, PlanPcs
    <3>3. o \in AllOps
      OBVIOUS
    <3>. QED BY <2>1, <3>1, <3>2, <3>3 DEF Call, Goto, TypeOK, persistent, locals
  <2>2. ASSUME NEW p \in Requests, AcquireLock(p) PROVE TypeOK'
    <3>1. \E l \in Pcs : pc' = [pc EXCEPT ![p] = l]
      BY <2>2 DEF AcquireLock, Goto, Pcs, PlanPcs, RoundPcs
    <3>. QED BY <2>2, <3>1 DEF AcquireLock, TypeOK, persistent, locals
  <2>3. ASSUME NEW p \in Requests, CreateExperiment(p) PROVE TypeOK'
    <3>1. NewState("setup") \in State /\ Exp(p) \in Experiments
      BY <2>3, NewStateType, ReqType DEF CreateExperiment, Statuses
    <3>2. /\ store' \in [Experiments -> State]
          /\ appliedRows' \in [Experiments -> SUBSET Nat]
      BY <2>3, <3>1, SaveType DEF CreateExperiment
    <3>. QED BY <2>3, <3>2
         DEF CreateExperiment, Return, Goto, Release, TypeOK, Pcs, locals
  <2>4. ASSUME NEW p \in Requests, MutateState(p) PROVE TypeOK'
    <3>. DEFINE c == Fetched(p, <<p, "own">>)
    <3>1. Exp(p) \in Experiments
      BY <2>4, ReqType DEF MutateState
    <3>2. c \in Cells /\ HeapWith(p, c) \in [Cells -> State]
      BY <3>1, CellsOf, FetchType
    <3>3. Mutated(p, HeapWith(p, c)[c]) \in State
      BY <3>2, MutatedType
    <3>4. ptr' \in [Requests -> Cells] /\ heap' \in [Cells -> State]
      BY <2>4, <3>2, <3>3 DEF MutateState, TypeOK
    <3>. QED BY <2>4, <3>4 DEF MutateState, Goto, TypeOK, Pcs, persistent
  <2>5. ASSUME NEW p \in Requests, SaveAndReturn(p) PROVE TypeOK'
    <3>1. heap[IF Op(p) = "approve" THEN outer[p] ELSE ptr[p]] \in State
      BY DEF TypeOK
    <3>2. /\ store' \in [Experiments -> State]
          /\ appliedRows' \in [Experiments -> SUBSET Nat]
      BY <2>5, <3>1, SaveType, ReqType DEF SaveAndReturn
    <3>. QED BY <2>5, <3>2
         DEF SaveAndReturn, Return, Goto, Release, TypeOK, Pcs, locals
  <2>6. ASSUME NEW p \in Requests, ApproveFetch(p) PROVE TypeOK'
    <3>. DEFINE c == Fetched(p, <<p, "outer">>)
    <3>1. Exp(p) \in Experiments
      BY <2>6, ReqType DEF ApproveFetch
    <3>2. c \in Cells /\ HeapWith(p, c) \in [Cells -> State]
      BY <3>1, CellsOf, FetchType
    <3>3. outer' \in [Requests -> Cells]
      BY <2>6, <3>2 DEF ApproveFetch, TypeOK
    <3>4. CASE live[Exp(p)] # None
      <4>1. LookupIn(p, heap, c, c) /\ heap \in [Cells -> State] /\ pc[p] # "new"
        BY <2>6, <3>4 DEF ApproveFetch, TypeOK
      <4>2. /\ heap' \in [Cells -> State]
            /\ lock' \in Requests \cup {None}
            /\ ptr' \in [Requests -> Cells]
            /\ cur' \in [Requests -> Nat]
            /\ plan' \in [Requests -> PlanRecord]
            /\ \E l \in Pcs \ {"new"} : pc' = [pc EXCEPT ![p] = l]
        BY <3>2, <4>1, LookupInType
      <4>. QED BY <2>6, <3>3, <4>1, <4>2 DEF ApproveFetch, TypeOK, persistent
    <3>5. CASE live[Exp(p)] = None
      BY <2>6, <3>2, <3>3, <3>5
      DEF ApproveFetch, Goto, TypeOK, Pcs, PlanPcs, persistent
    <3>. QED BY <3>4, <3>5
  <2>7. ASSUME NEW p \in Requests, PlanLookup(p) PROVE TypeOK'
    <3>. DEFINE c == Fetched(p, <<p, "own">>)
    <3>1. Exp(p) \in Experiments /\ pc[p] # "new"
      BY <2>7, ReqType DEF PlanLookup
    <3>2. c \in Cells /\ HeapWith(p, c) \in [Cells -> State]
      BY <3>1, CellsOf, FetchType
    <3>3. LookupIn(p, HeapWith(p, c), c, outer[p]) /\ outer[p] \in Cells
      BY <2>7 DEF PlanLookup, TypeOK
    <3>4. /\ heap' \in [Cells -> State]
          /\ lock' \in Requests \cup {None}
          /\ ptr' \in [Requests -> Cells]
          /\ cur' \in [Requests -> Nat]
          /\ plan' \in [Requests -> PlanRecord]
          /\ \E l \in Pcs \ {"new"} : pc' = [pc EXCEPT ![p] = l]
      BY <3>1, <3>2, <3>3, LookupInType
    <3>. QED BY <2>7, <3>1, <3>4 DEF PlanLookup, TypeOK, persistent
  <2>8. ASSUME NEW p \in Requests, PlanGenerated(p) PROVE TypeOK'
    <3>1. PICK r \in {cur[p]} \cup StrayRounds :
            LET pl == [round |-> r, applied |-> Exp(p) \in AutoApprove] IN
            /\ plan' = [plan EXCEPT ![p] = pl]
            /\ heap' = [heap EXCEPT ![ptr[p]] = SetPlan(@, pl)]
      BY <2>8 DEF PlanGenerated
    <3>2. [round |-> r, applied |-> Exp(p) \in AutoApprove] \in PlanRecord
      BY DEF PlanRecord, TypeOK
    <3>3. plan' \in [Requests -> PlanRecord] /\ heap' \in [Cells -> State]
      BY <3>1, <3>2, SetPlanType DEF TypeOK
    <3>. QED BY <2>8, <3>3 DEF PlanGenerated, Goto, TypeOK, Pcs, PlanPcs, persistent
  <2>9. ASSUME NEW p \in Requests, PlanSave(p) PROVE TypeOK'
    <3>1. /\ store' \in [Experiments -> State]
          /\ appliedRows' \in [Experiments -> SUBSET Nat]
      BY <2>9, SaveType, ReqType DEF PlanSave, TypeOK
    <3>. QED BY <2>9, <3>1 DEF PlanSave, Goto, TypeOK, Pcs, PlanPcs, locals
  <2>10. ASSUME NEW p \in Requests, PlanReturned(p) PROVE TypeOK'
    <3>1. /\ heap' \in [Cells -> State]
          /\ lock' \in Requests \cup {None}
          /\ \E l \in Pcs \ {"new"} : pc' = [pc EXCEPT ![p] = l]
      BY <2>10, WithPlanType DEF PlanReturned, TypeOK
    <3>. QED BY <2>10, <3>1 DEF PlanReturned, TypeOK, persistent, locals
  <2>11. ASSUME NEW p \in Requests, ReviseReload(p) PROVE TypeOK'
    <3>. DEFINE c == Fetched(p, <<p, "own">>)
    <3>1. c \in Cells /\ HeapWith(p, c) \in [Cells -> State]
      BY <2>11, ReqType, CellsOf, FetchType DEF ReviseReload
    <3>. QED BY <2>11, <3>1
         DEF ReviseReload, Goto, TypeOK, Pcs, RevisePcs, persistent
  <2>12. ASSUME NEW p \in Requests, PlanRevised(p) PROVE TypeOK'
    <3>1. [round |-> plan[p].round, applied |-> FALSE] \in PlanRecord
      BY DEF PlanRecord, TypeOK
    <3>2. heap' \in [Cells -> State]
      BY <2>12, <3>1, SetPlanType DEF PlanRevised, TypeOK
    <3>. QED BY <2>12, <3>2 DEF PlanRevised, Goto, TypeOK, Pcs, persistent, locals
  <2>13. ASSUME NEW p \in Requests, CheckStep(p) PROVE TypeOK'
    BY <2>13, ReqType
    DEF CheckStep, StartStep, Goto, TypeOK, Pcs, persistent, locals
  <2>14. ASSUME NEW p \in Requests, SpawnStep(p) PROVE TypeOK'
    BY <2>14, ReqType
    DEF SpawnStep, StartStep, Goto, TypeOK, Pcs, persistent, locals
  <2>15. ASSUME NEW p \in Requests, LoadRound(p) PROVE TypeOK'
    <3>. DEFINE c == Fetched(p, <<p, "own">>)
                h == HeapWith(p, c)
                s == [h[c] EXCEPT !.status = IF @ = "setup" THEN "running" ELSE @]
                ready == s.planRound = s.round + 1 /\ s.planApplied
    <3>1. Exp(p) \in Experiments
      BY <2>15, ReqType DEF LoadRound
    <3>2. c \in Cells /\ h \in [Cells -> State]
      BY <3>1, CellsOf, FetchType
    <3>3. s \in State /\ [s EXCEPT !.dirty = TRUE] \in State /\ PlanOf(s) \in PlanRecord
      <4>1. h[c] \in State
        BY <3>2
      <4>. HIDE DEF h, c
      <4>2. s \in State
        BY <4>1 DEF State, Statuses
      <4>. HIDE DEF s
      <4>. QED BY <4>2, PlanOfType DEF State
    <3>4. s.round + 1 \in Nat
      BY <3>3 DEF State
    <3>5. /\ ptr' = [ptr EXCEPT ![p] = c]
          /\ cur' = [cur EXCEPT ![p] = s.round + 1]
          /\ UNCHANGED <<persistent, outer, stepping, req, outcome>>
          /\ pc[p] = "load_round"
      BY <2>15 DEF LoadRound
    <3>6. CASE StepAllowed(Exp(p), s)
      <4>1. /\ heap' = [h EXCEPT ![c] = [s EXCEPT !.dirty = TRUE]]
            /\ plan' = [plan EXCEPT ![p] = IF ready THEN PlanOf(s) ELSE NoPlan]
            /\ live' = IF Op(p) = "start_step"
                       THEN [live EXCEPT ![Exp(p)] = c] ELSE live
            /\ Goto(p, IF ready THEN "run" ELSE "plan_phase")
            /\ UNCHANGED lock
        BY <2>15, <3>6 DEF LoadRound
      <4>2. NoPlan \in PlanRecord
        BY DEF NoPlan, PlanRecord
      <4>. HIDE DEF s, h, c, ready
      <4>3. heap' \in [Cells -> State]
        BY <3>2, <3>3, <4>1
      <4>4. plan' \in [Requests -> PlanRecord]
        BY <3>3, <4>1, <4>2 DEF TypeOK
      <4>5. live' \in [Experiments -> Cells \cup {None}]
        BY <3>2, <4>1 DEF TypeOK
      <4>. QED BY <3>2, <3>4, <3>5, <4>1, <4>3, <4>4, <4>5, <2>15
           DEF LoadRound, Goto, TypeOK, Pcs, RoundPcs, persistent
    <3>7. CASE ~StepAllowed(Exp(p), s)
      <4>1. heap' = [h EXCEPT ![c] = s] /\ FailRound(p) /\ UNCHANGED plan
        BY <2>15, <3>7 DEF LoadRound
      <4>. HIDE DEF s, h, c, ready
      <4>2. heap' \in [Cells -> State]
        BY <3>2, <3>3, <4>1
      <4>. QED BY <3>2, <3>4, <3>5, <4>1, <4>2
           DEF FailRound, LeaveRound, Goto, TypeOK, Pcs, persistent
    <3>. QED BY <3>6, <3>7
  <2>16. ASSUME NEW p \in Requests, PlanPhase(p) PROVE TypeOK'
    <3>1. PICK r \in {cur[p]} \cup StrayRounds :
            LET pl == [round |-> r, applied |-> TRUE] IN
            /\ plan' = [plan EXCEPT ![p] = pl]
            /\ heap' = [heap EXCEPT ![ptr[p]] = SetPlan(@, pl)]
      BY <2>16 DEF PlanPhase
    <3>2. [round |-> r, applied |-> TRUE] \in PlanRecord
      BY DEF PlanRecord, TypeOK
    <3>3. plan' \in [Requests -> PlanRecord] /\ heap' \in [Cells -> State]
      BY <3>1, <3>2, SetPlanType DEF TypeOK
    <3>. QED BY <2>16, <3>3 DEF PlanPhase, Goto, TypeOK, Pcs, RoundPcs, persistent
  <2>17. ASSUME NEW p \in Requests, FinaliseRound(p) PROVE TypeOK'
    <3>1. \A collapsed \in BOOLEAN : Finalised(heap[ptr[p]], p, collapsed) \in State
      <4>1. SetPlan(heap[ptr[p]], plan[p]) \in State /\ heap[ptr[p]] \in State
        BY SetPlanType DEF TypeOK
      <4>. QED BY <4>1 DEF Finalised, State, Statuses, TypeOK
    <3>4. heap' \in [Cells -> State]
      BY <2>17, <3>1 DEF FinaliseRound, TypeOK
    <3>. QED BY <2>17, <3>4
         DEF FinaliseRound, Goto, TypeOK, Pcs, RoundPcs, persistent, locals
  <2>18. ASSUME NEW p \in Requests, SaveRound(p) PROVE TypeOK'
    <3>1. /\ store' \in [Experiments -> State]
          /\ appliedRows' \in [Experiments -> SUBSET Nat]
      BY <2>18, SaveType, ReqType DEF SaveRound, TypeOK
    <3>. QED BY <2>18, <3>1 DEF SaveRound, Goto, TypeOK, Pcs, RoundPcs, locals
  <2>19. ASSUME NEW p \in Requests, RecordRound(p) PROVE TypeOK'
    BY <2>19, ReqType
    DEF RecordRound, Record, Goto, TypeOK, Pcs, RoundPcs, locals
  <2>20. ASSUME NEW p \in Requests, LogRound(p) PROVE TypeOK'
    BY <2>20, ReqType
    DEF LogRound, Record, LeaveRound, Goto, TypeOK, Pcs, locals
  <2>21. ASSUME NEW p \in Requests, Announce(p) PROVE TypeOK'
    BY <2>21 DEF Announce, Goto, TypeOK, Pcs, persistent, locals
  <2>22. ASSUME NEW p \in Requests, StepDone(p) PROVE TypeOK'
    BY <2>22, ReqType DEF StepDone, Goto, TypeOK, Pcs, persistent, locals
  <2>23. ASSUME NEW p \in Requests, RoundFails(p) PROVE TypeOK'
    BY <2>23, ReqType
    DEF RoundFails, FailRound, LeaveRound, Goto, TypeOK, Pcs, RoundPcs, persistent, locals
  <2>24. ASSUME NEW p \in Requests, RequestFails(p) PROVE TypeOK'
    <3>1. pc[p] # "new"
      BY <2>24 DEF RequestFails, RevisePcs, PlanPcs
    <3>. QED BY <2>24, <3>1
         DEF RequestFails, Return, Goto, Release, TypeOK, Pcs, persistent, locals
  <2>25. CASE Restart
    BY <2>25 DEF Restart, TypeOK, Pcs, InFlight, persistent, locals
  <2>26. CASE UNCHANGED vars
    BY <2>26 DEF vars, TypeOK
  <2>. QED
    BY <2>1, <2>2, <2>3, <2>4, <2>5, <2>6, <2>7, <2>8, <2>9, <2>10, <2>11, <2>12,
       <2>13, <2>14, <2>15, <2>16, <2>17, <2>18, <2>19, <2>20, <2>21, <2>22, <2>23,
       <2>24, <2>25, <2>26
    DEF Next, Handler
<1>. QED BY <1>1, <1>2, PTL DEF Spec

-----------------------------------------------------------------------------
(* The discipline of the lock, of _steps_in_progress and of _live_states.    *)

(* What a request's position says about its operation.                       *)
OpPcs ==
    \A p \in Requests :
        /\ pc[p] \in RoundPcs \cup {"announce"} => Op(p) \in {"step", "start_step"}
        /\ pc[p] \in {"check", "start_step", "announce_error", "finished"} =>
               Op(p) = "start_step"
        /\ pc[p] \in RevisePcs => Op(p) = "revise"
        /\ pc[p] = "create" => Op(p) = "create"
        /\ pc[p] = "want_lock" => Op(p) \in LockedOps
        /\ pc[p] \in PlanPcs => Op(p) \in {"plan", "approve", "revise"}
        /\ pc[p] = "save" => Op(p) \notin LockedOps \ {"revise"}

(* The part of a handler that is inside `async with self.lock`.              *)
Holding(p) ==
    \/ pc[p] \in RoundPcs \cup RevisePcs \cup {"create"}
    \/ Op(p) = "revise" /\ pc[p] \in PlanPcs \cup {"save"}

LockHeld == \A p \in Requests : Holding(p) <=> lock = p

(* Tasks and flags, one for one.                                             *)
TaskFlags ==
    /\ \A p \in Requests : Task(p) => stepping[Exp(p)]
    /\ \A e \in Experiments :
         stepping[e] => \E p \in Requests : Task(p) /\ Exp(p) = e
    /\ \A p, q \in Requests : Task(p) /\ Task(q) /\ Exp(p) = Exp(q) => p = q

Discipline == OpPcs /\ LockHeld /\ TaskFlags /\ LiveStateIsLocked

(* A step that starts no task and ends none.                                 *)
SameTasks ==
    \A q \in Requests : (Task(q)' <=> Task(q)) /\ (Task(q) => Exp(q)' = Exp(q))

LEMMA TasksKept ==
    ASSUME TaskFlags, SameTasks, UNCHANGED stepping
    PROVE  TaskFlags'
BY DEF TaskFlags, SameTasks

(* The check-and-set of start_step starts the experiment's only task.        *)
LEMMA TaskStarted ==
    ASSUME TypeOK, TaskFlags, NEW p \in Requests, pc[p] \in {"check", "start_step"},
           Op(p) = "start_step", StartStep(p), UNCHANGED req
    PROVE  TaskFlags'
<1>1. Exp(p) \in Experiments /\ ~Task(p)
  BY ReqType DEF Task, RoundPcs
<1>2. CASE stepping[Exp(p)]
  <2>1. SameTasks
    BY <1>1, <1>2 DEF StartStep, Goto, SameTasks, Task, Op, Exp, RoundPcs, TypeOK
  <2>. QED BY <1>2, <2>1, TasksKept DEF StartStep
<1>3. CASE ~stepping[Exp(p)]
  <2>1. \A q \in Requests : Exp(q)' = Exp(q) /\ (Task(q)' <=> Task(q) \/ q = p)
    BY <1>3 DEF StartStep, Goto, Task, Op, Exp, RoundPcs, TypeOK
  <2>2. stepping' = [stepping EXCEPT ![Exp(p)] = TRUE]
    BY <1>3 DEF StartStep
  <2>3. \A q \in Requests : Task(q) => Exp(q) # Exp(p)
    BY <1>3 DEF TaskFlags
  <2>4. \A e \in Experiments : stepping'[e] <=> stepping[e] \/ e = Exp(p)
    BY <1>1, <2>2 DEF TypeOK
  <2>5. \A q \in Requests : Task(q)' => stepping'[Exp(q)']
    <3>. SUFFICES ASSUME NEW q \in Requests, Task(q)' PROVE stepping'[Exp(q)]
      BY <2>1
    <3>1. CASE q = p
      BY <1>1, <2>4, <3>1
    <3>2. CASE q # p
      BY <2>1, <2>2, <2>3, <3>2, ReqType DEF TaskFlags, TypeOK
    <3>. QED BY <3>1, <3>2
  <2>6. \A e \in Experiments :
          stepping'[e] => \E q \in Requests : Task(q)' /\ Exp(q)' = e
    BY <2>1, <2>4 DEF TaskFlags
  <2>7. \A q, r \in Requests : Task(q)' /\ Task(r)' /\ Exp(q)' = Exp(r)' => q = r
    BY <2>1, <2>3 DEF TaskFlags
  <2>. QED BY <2>5, <2>6, <2>7 DEF TaskFlags
<1>. QED BY <1>2, <1>3

(* Every step keeps the discipline.                                          *)
LEMMA DisciplineStep ==
    ASSUME TypeOK, Discipline, [Next]_vars
    PROVE  Discipline'
<1>. USE RuntimeAssumption
     DEF Discipline, TypeOK, Goto, Op, Exp, RoundPcs, RevisePcs, PlanPcs, locals
<1>1. ASSUME NEW p \in Requests, Call(p) PROVE Discipline'
  <2>1. OpPcs'
    BY <1>1 DEF Call, FirstPc, OpPcs, LockedOps
  <2>2. LockHeld'
    BY <1>1 DEF Call, FirstPc, LockHeld, Holding, OpPcs
  <2>3. TaskFlags'
    <3>1. SameTasks
      BY <1>1 DEF Call, FirstPc, SameTasks, Task, OpPcs
    <3>. QED BY <1>1, <3>1, TasksKept DEF Call
  <2>4. LiveStateIsLocked'
    BY <1>1, ReqType DEF Call, FirstPc, LiveStateIsLocked, LockHeld, Holding, OpPcs
  <2>. QED BY <2>1, <2>2, <2>3, <2>4
<1>2. ASSUME NEW p \in Requests, AcquireLock(p) PROVE Discipline'
  <2>1. OpPcs'
    BY <1>2 DEF AcquireLock, OpPcs, LockedOps
  <2>2. LockHeld'
    BY <1>2 DEF AcquireLock, LockHeld, Holding, OpPcs
  <2>3. TaskFlags'
    <3>1. SameTasks
      BY <1>2 DEF AcquireLock, SameTasks, Task, OpPcs
    <3>. QED BY <1>2, <3>1, TasksKept DEF AcquireLock
  <2>4. LiveStateIsLocked'
    BY <1>2, ReqType DEF AcquireLock, LiveStateIsLocked, LockHeld, Holding, OpPcs
  <2>. QED BY <2>1, <2>2, <2>3, <2>4
<1>3. ASSUME NEW p \in Requests, CreateExperiment(p) PROVE Discipline'
  <2>1. OpPcs'
    BY <1>3 DEF CreateExperiment, Return, Release, InLock, OpPcs, LockedOps
  <2>2. LockHeld'
    BY <1>3 DEF CreateExperiment, Return, Release, InLock, LockHeld, Holding, OpPcs
  <2>3. TaskFlags'
    <3>1. SameTasks
      BY <1>3 DEF CreateExperiment, Return, Release, InLock, SameTasks, Task, OpPcs
    <3>. QED BY <1>3, <3>1, TasksKept DEF CreateExperiment
  <2>4. LiveStateIsLocked'
    BY <1>3, ReqType DEF CreateExperiment, Return, Release, InLock, LiveStateIsLocked, LockHeld, Holding, OpPcs
  <2>. QED BY <2>1, <2>2, <2>3, <2>4
<1>4. ASSUME NEW p \in Requests, MutateState(p) PROVE Discipline'
  <2>1. OpPcs'
    BY <1>4 DEF MutateState, OpPcs, LockedOps
  <2>2. LockHeld'
    BY <1>4 DEF MutateState, LockHeld, Holding, OpPcs
  <2>3. TaskFlags'
    <3>1. SameTasks
      BY <1>4 DEF MutateState, SameTasks, Task, OpPcs
    <3>. QED BY <1>4, <3>1, TasksKept DEF MutateState
  <2>4. LiveStateIsLocked'
    BY <1>4, ReqType DEF MutateState, LiveStateIsLocked, LockHeld, Holding, OpPcs
  <2>. QED BY <2>1, <2>2, <2>3, <2>4
<1>5. ASSUME NEW p \in Requests, SaveAndReturn(p) PROVE Discipline'
  <2>1. OpPcs'
    BY <1>5 DEF SaveAndReturn, Return, Release, InLock, OpPcs, LockedOps
  <2>2. LockHeld'
    BY <1>5 DEF SaveAndReturn, Return, Release, InLock, LockHeld, Holding, OpPcs
  <2>3. TaskFlags'
    <3>1. SameTasks
      BY <1>5 DEF SaveAndReturn, Return, Release, InLock, SameTasks, Task, OpPcs
    <3>. QED BY <1>5, <3>1, TasksKept DEF SaveAndReturn
  <2>4. LiveStateIsLocked'
    BY <1>5, ReqType DEF SaveAndReturn, Return, Release, InLock, LiveStateIsLocked, LockHeld, Holding, OpPcs
  <2>. QED BY <2>1, <2>2, <2>3, <2>4
<1>6. ASSUME NEW p \in Requests, ApproveFetch(p) PROVE Discipline'
  <2>1. OpPcs'
    BY <1>6 DEF ApproveFetch, LookupIn, WithPlan, Return, Release, InLock, OpPcs, LockedOps
  <2>2. LockHeld'
    BY <1>6 DEF ApproveFetch, LookupIn, WithPlan, Return, Release, InLock, LockHeld, Holding, OpPcs
  <2>3. TaskFlags'
    <3>1. SameTasks
      BY <1>6 DEF ApproveFetch, LookupIn, WithPlan, Return, Release, InLock, SameTasks, Task, OpPcs
    <3>. QED BY <1>6, <3>1, TasksKept DEF ApproveFetch
  <2>4. LiveStateIsLocked'
    BY <1>6, ReqType DEF ApproveFetch, LookupIn, WithPlan, Return, Release, InLock, LiveStateIsLocked, LockHeld, Holding, OpPcs
  <2>. QED BY <2>1, <2>2, <2>3, <2>4
<1>7. ASSUME NEW p \in Requests, PlanLookup(p) PROVE Discipline'
  <2>1. OpPcs'
    BY <1>7 DEF PlanLookup, LookupIn, WithPlan, Return, Release, InLock, OpPcs, LockedOps
  <2>2. LockHeld'
    BY <1>7 DEF PlanLookup, LookupIn, WithPlan, Return, Release, InLock, LockHeld, Holding, OpPcs
  <2>3. TaskFlags'
    <3>1. SameTasks
      BY <1>7 DEF PlanLookup, LookupIn, WithPlan, Return, Release, InLock, SameTasks, Task, OpPcs
    <3>. QED BY <1>7, <3>1, TasksKept DEF PlanLookup
  <2>4. LiveStateIsLocked'
    BY <1>7, ReqType DEF PlanLookup, LookupIn, WithPlan, Return, Release, InLock, LiveStateIsLocked, LockHeld, Holding, OpPcs
  <2>. QED BY <2>1, <2>2, <2>3, <2>4
<1>8. ASSUME NEW p \in Requests, PlanGenerated(p) PROVE Discipline'
  <2>1. OpPcs'
    BY <1>8 DEF PlanGenerated, OpPcs, LockedOps
  <2>2. LockHeld'
    BY <1>8 DEF PlanGenerated, LockHeld, Holding, OpPcs
  <2>3. TaskFlags'
    <3>1. SameTasks
      BY <1>8 DEF PlanGenerated, SameTasks, Task, OpPcs
    <3>. QED BY <1>8, <3>1, TasksKept DEF PlanGenerated
  <2>4. LiveStateIsLocked'
    BY <1>8, ReqType DEF PlanGenerated, LiveStateIsLocked, LockHeld, Holding, OpPcs
  <2>. QED BY <2>1, <2>2, <2>3, <2>4
<1>9. ASSUME NEW p \in Requests, PlanSave(p) PROVE Discipline'
  <2>1. OpPcs'
    BY <1>9 DEF PlanSave, OpPcs, LockedOps
  <2>2. LockHeld'
    BY <1>9 DEF PlanSave, LockHeld, Holding, OpPcs
  <2>3. TaskFlags'
    <3>1. SameTasks
      BY <1>9 DEF PlanSave, SameTasks, Task, OpPcs
    <3>. QED BY <1>9, <3>1, TasksKept DEF PlanSave
  <2>4. LiveStateIsLocked'
    BY <1>9, ReqType DEF PlanSave, LiveStateIsLocked, LockHeld, Holding, OpPcs
  <2>. QED BY <2>1, <2>2, <2>3, <2>4
<1>10. ASSUME NEW p \in Requests, PlanReturned(p) PROVE Discipline'
  <2>1. OpPcs'
    BY <1>10 DEF PlanReturned, WithPlan, Return, Release, InLock, OpPcs, LockedOps
  <2>2. LockHeld'
    BY <1>10 DEF PlanReturned, WithPlan, Return, Release, InLock, LockHeld, Holding, OpPcs
  <2>3. TaskFlags'
    <3>1. SameTasks
      BY <1>10 DEF PlanReturned, WithPlan, Return, Release, InLock, SameTasks, Task, OpPcs
    <3>. QED BY <1>10, <3>1, TasksKept DEF PlanReturned
  <2>4. LiveStateIsLocked'
    BY <1>10, ReqType DEF PlanReturned, WithPlan, Return, Release, InLock, LiveStateIsLocked, LockHeld, Holding, OpPcs
  <2>. QED BY <2>1, <2>2, <2>3, <2>4
<1>11. ASSUME NEW p \in Requests, ReviseReload(p) PROVE Discipline'
  <2>1. OpPcs'
    BY <1>11 DEF ReviseReload, OpPcs, LockedOps
  <2>2. LockHeld'
    BY <1>11 DEF ReviseReload, LockHeld, Holding, OpPcs
  <2>3. TaskFlags'
    <3>1. SameTasks
      BY <1>11 DEF ReviseReload, SameTasks, Task, OpPcs
    <3>. QED BY <1>11, <3>1, TasksKept DEF ReviseReload
  <2>4. LiveStateIsLocked'
    BY <1>11, ReqType DEF ReviseReload, LiveStateIsLocked, LockHeld, Holding, OpPcs
  <2>. QED BY <2>1, <2>2, <2>3, <2>4
<1>12. ASSUME NEW p \in Requests, PlanRevised(p) PROVE Discipline'
  <2>1. OpPcs'
    BY <1>12 DEF PlanRevised, OpPcs, LockedOps
  <2>2. LockHeld'
    BY <1>12 DEF PlanRevised, LockHeld, Holding, OpPcs
  <2>3. TaskFlags'
    <3>1. SameTasks
      BY <1>12 DEF PlanRevised, SameTasks, Task, OpPcs
    <3>. QED BY <1>12, <3>1, TasksKept DEF PlanRevised
  <2>4. LiveStateIsLocked'
    BY <1>12, ReqType DEF PlanRevised, LiveStateIsLocked, LockHeld, Holding, OpPcs
  <2>. QED BY <2>1, <2>2, <2>3, <2>4
<1>13. ASSUME NEW p \in Requests, CheckStep(p) PROVE Discipline'
  <2>1. OpPcs'
    BY <1>13 DEF CheckStep, StartStep, OpPcs, LockedOps
  <2>2. LockHeld'
    BY <1>13 DEF CheckStep, StartStep, LockHeld, Holding, OpPcs
  <2>3. TaskFlags'
    <3>1. pc[p] \in {"check", "start_step"} /\ Op(p) = "start_step" /\ UNCHANGED req
      BY <1>13 DEF CheckStep, OpPcs
    <3>2. CASE StartStep(p)
      BY <3>1, <3>2, TaskStarted DEF Discipline
    <3>3. CASE ~StartStep(p)
      <4>1. UNCHANGED stepping /\ SameTasks
        BY <1>13, <3>3 DEF CheckStep, SameTasks, Task
      <4>. QED BY <4>1, TasksKept
    <3>. QED BY <3>2, <3>3
  <2>4. LiveStateIsLocked'
    BY <1>13, ReqType DEF CheckStep, StartStep, LiveStateIsLocked, LockHeld, Holding, OpPcs
  <2>. QED BY <2>1, <2>2, <2>3, <2>4
<1>14. ASSUME NEW p \in Requests, SpawnStep(p) PROVE Discipline'
  <2>1. OpPcs'
    BY <1>14 DEF SpawnStep, StartStep, OpPcs, LockedOps
  <2>2. LockHeld'
    BY <1>14 DEF SpawnStep, StartStep, LockHeld, Holding, OpPcs
  <2>3. TaskFlags'
    <3>1. pc[p] \in {"check", "start_step"} /\ Op(p) = "start_step" /\ UNCHANGED req
      BY <1>14 DEF SpawnStep, OpPcs
    <3>. QED BY <1>14, <3>1, TaskStarted DEF SpawnStep
  <2>4. LiveStateIsLocked'
    BY <1>14, ReqType DEF SpawnStep, StartStep, LiveStateIsLocked, LockHeld, Holding, OpPcs
  <2>. QED BY <2>1, <2>2, <2>3, <2>4
<1>15. ASSUME NEW p \in Requests, LoadRound(p) PROVE Discipline'
  <2>1. OpPcs'
    BY <1>15 DEF LoadRound, FailRound, LeaveRound, OpPcs, LockedOps
  <2>2. LockHeld'
    BY <1>15 DEF LoadRound, FailRound, LeaveRound, LockHeld, Holding, OpPcs
  <2>3. TaskFlags'
    <3>1. SameTasks
      BY <1>15 DEF LoadRound, FailRound, LeaveRound, SameTasks, Task, OpPcs
    <3>. QED BY <1>15, <3>1, TasksKept DEF LoadRound
  <2>4. LiveStateIsLocked'
    BY <1>15, ReqType DEF LoadRound, FailRound, LeaveRound, LiveStateIsLocked, LockHeld, Holding, OpPcs
  <2>. QED BY <2>1, <2>2, <2>3, <2>4
<1>16. ASSUME NEW p \in Requests, PlanPhase(p) PROVE Discipline'
  <2>1. OpPcs'
    BY <1>16 DEF PlanPhase, OpPcs, LockedOps
  <2>2. LockHeld'
    BY <1>16 DEF PlanPhase, LockHeld, Holding, OpPcs
  <2>3. TaskFlags'
    <3>1. SameTasks
      BY <1>16 DEF PlanPhase, SameTasks, Task, OpPcs
    <3>. QED BY <1>16, <3>1, TasksKept DEF PlanPhase
  <2>4. LiveStateIsLocked'
    BY <1>16, ReqType DEF PlanPhase, LiveStateIsLocked, LockHeld, Holding, OpPcs
  <2>. QED BY <2>1, <2>2, <2>3, <2>4
<1>17. ASSUME NEW p \in Requests, FinaliseRound(p) PROVE Discipline'
  <2>1. OpPcs'
    BY <1>17 DEF FinaliseRound, OpPcs, LockedOps
  <2>2. LockHeld'
    BY <1>17 DEF FinaliseRound, LockHeld, Holding, OpPcs
  <2>3. TaskFlags'
    <3>1. SameTasks
      BY <1>17 DEF FinaliseRound, SameTasks, Task, OpPcs
    <3>. QED BY <1>17, <3>1, TasksKept DEF FinaliseRound
  <2>4. LiveStateIsLocked'
    BY <1>17, ReqType DEF FinaliseRound, LiveStateIsLocked, LockHeld, Holding, OpPcs
  <2>. QED BY <2>1, <2>2, <2>3, <2>4
<1>18. ASSUME NEW p \in Requests, SaveRound(p) PROVE Discipline'
  <2>1. OpPcs'
    BY <1>18 DEF SaveRound, OpPcs, LockedOps
  <2>2. LockHeld'
    BY <1>18 DEF SaveRound, LockHeld, Holding, OpPcs
  <2>3. TaskFlags'
    <3>1. SameTasks
      BY <1>18 DEF SaveRound, SameTasks, Task, OpPcs
    <3>. QED BY <1>18, <3>1, TasksKept DEF SaveRound
  <2>4. LiveStateIsLocked'
    BY <1>18, ReqType DEF SaveRound, LiveStateIsLocked, LockHeld, Holding, OpPcs
  <2>. QED BY <2>1, <2>2, <2>3, <2>4
<1>19. ASSUME NEW p \in Requests, RecordRound(p) PROVE Discipline'
  <2>1. OpPcs'
    BY <1>19 DEF RecordRound, OpPcs, LockedOps
  <2>2. LockHeld'
    BY <1>19 DEF RecordRound, LockHeld, Holding, OpPcs
  <2>3. TaskFlags'
    <3>1. SameTasks
      BY <1>19 DEF RecordRound, SameTasks, Task, OpPcs
    <3>. QED BY <1>19, <3>1, TasksKept DEF RecordRound
  <2>4. LiveStateIsLocked'
    BY <1>19, ReqType DEF RecordRound, LiveStateIsLocked, LockHeld, Holding, OpPcs
  <2>. QED BY <2>1, <2>2, <2>3, <2>4
<1>20. ASSUME NEW p \in Requests, LogRound(p) PROVE Discipline'
  <2>1. OpPcs'
    BY <1>20 DEF LogRound, LeaveRound, OpPcs, LockedOps
  <2>2. LockHeld'
    BY <1>20 DEF LogRound, LeaveRound, LockHeld, Holding, OpPcs
  <2>3. TaskFlags'
    <3>1. SameTasks
      BY <1>20 DEF LogRound, LeaveRound, SameTasks, Task, OpPcs
    <3>. QED BY <1>20, <3>1, TasksKept DEF LogRound
  <2>4. LiveStateIsLocked'
    BY <1>20, ReqType DEF LogRound, LeaveRound, LiveStateIsLocked, LockHeld, Holding, OpPcs
  <2>. QED BY <2>1, <2>2, <2>3, <2>4
<1>21. ASSUME NEW p \in Requests, Announce(p) PROVE Discipline'
  <2>1. OpPcs'
    BY <1>21 DEF Announce, OpPcs, LockedOps
  <2>2. LockHeld'
    BY <1>21 DEF Announce, LockHeld, Holding, OpPcs
  <2>3. TaskFlags'
    <3>1. SameTasks
      BY <1>21 DEF Announce, SameTasks, Task, OpPcs
    <3>. QED BY <1>21, <3>1, TasksKept DEF Announce
  <2>4. LiveStateIsLocked'
    BY <1>21, ReqType DEF Announce, LiveStateIsLocked, LockHeld, Holding, OpPcs
  <2>. QED BY <2>1, <2>2, <2>3, <2>4
<1>22. ASSUME NEW p \in Requests, StepDone(p) PROVE Discipline'
  <2>1. OpPcs'
    BY <1>22 DEF StepDone, OpPcs, LockedOps
  <2>2. LockHeld'
    BY <1>22 DEF StepDone, LockHeld, Holding, OpPcs
  <2>3. TaskFlags'
    <3>1. \A q \in Requests : Exp(q)' = Exp(q) /\ (Task(q)' <=> Task(q) /\ q # p)
      BY <1>22 DEF StepDone, Task
    <3>2. Task(p) /\ stepping' = [stepping EXCEPT ![Exp(p)] = FALSE]
      BY <1>22 DEF StepDone, Task, OpPcs
    <3>3. \A q \in Requests : Task(q)' => Exp(q) # Exp(p) /\ stepping'[Exp(q)]
      BY <3>1, <3>2, ReqType DEF TaskFlags, Task
    <3>4. \A e \in Experiments :
            stepping'[e] => \E q \in Requests : Task(q)' /\ Exp(q)' = e
      BY <3>1, <3>2, ReqType DEF TaskFlags
    <3>. QED BY <3>1, <3>3, <3>4 DEF TaskFlags
  <2>4. LiveStateIsLocked'
    BY <1>22, ReqType DEF StepDone, LiveStateIsLocked, LockHeld, Holding, OpPcs
  <2>. QED BY <2>1, <2>2, <2>3, <2>4
<1>23. ASSUME NEW p \in Requests, RoundFails(p) PROVE Discipline'
  <2>1. OpPcs'
    BY <1>23 DEF RoundFails, FailRound, LeaveRound, OpPcs, LockedOps
  <2>2. LockHeld'
    BY <1>23 DEF RoundFails, FailRound, LeaveRound, LockHeld, Holding, OpPcs
  <2>3. TaskFlags'
    <3>1. SameTasks
      BY <1>23 DEF RoundFails, FailRound, LeaveRound, SameTasks, Task, OpPcs
    <3>. QED BY <1>23, <3>1, TasksKept DEF RoundFails
  <2>4. LiveStateIsLocked'
    BY <1>23, ReqType DEF RoundFails, FailRound, LeaveRound, LiveStateIsLocked, LockHeld, Holding, OpPcs
  <2>. QED BY <2>1, <2>2, <2>3, <2>4
<1>24. ASSUME NEW p \in Requests, RequestFails(p) PROVE Discipline'
  <2>1. OpPcs'
    BY <1>24 DEF RequestFails, Return, Release, InLock, OpPcs, LockedOps
  <2>2. LockHeld'
    BY <1>24 DEF RequestFails, Return, Release, InLock, LockHeld, Holding, OpPcs
  <2>3. TaskFlags'
    <3>1. SameTasks
      BY <1>24 DEF RequestFails, Return, Release, InLock, SameTasks, Task, OpPcs
    <3>. QED BY <1>24, <3>1, TasksKept DEF RequestFails
  <2>4. LiveStateIsLocked'
    BY <1>24, ReqType DEF RequestFails, Return, Release, InLock, LiveStateIsLocked, LockHeld, Holding, OpPcs
  <2>. QED BY <2>1, <2>2, <2>3, <2>4
<1>25. CASE Restart
  BY <1>25
  DEF Restart, InFlight, OpPcs, LockHeld, Holding, TaskFlags, Task, LiveStateIsLocked
<1>26. CASE UNCHANGED vars
  BY <1>26
  DEF vars, OpPcs, LockHeld, Holding, TaskFlags, Task, LiveStateIsLocked
<1>. QED BY <1>1, <1>2, <1>3, <1>4, <1>5, <1>6, <1>7, <1>8, <1>9, <1>10, <1>11, <1>12, <1>13, <1>14, <1>15, <1>16, <1>17, <1>18, <1>19, <1>20, <1>21, <1>22, <1>23, <1>24, <1>25, <1>26 DEF Next, Handler

THEOREM DisciplineHolds == Spec => []Discipline
<1>1. Init => Discipline
  BY RuntimeAssumption
  DEF Init, Discipline, OpPcs, LockHeld, Holding, TaskFlags, Task,
      LiveStateIsLocked, RoundPcs, RevisePcs, PlanPcs, Op
<1>2. TypeOK /\ Discipline /\ [Next]_vars => Discipline'
  BY DisciplineStep
<1>. QED BY <1>1, <1>2, TypeCorrect, PTL DEF Spec

(* The lock excludes: rounds, revisions and creations never overlap, and an  *)
(* experiment never has two background tasks (runtime.py:404-440).           *)
THEOREM RoundsExclude == Spec => []OneRoundAtATime
<1>1. TypeOK /\ Discipline => OneRoundAtATime
  BY ReqType
  DEF Discipline, LockHeld, Holding, TaskFlags, OneRoundAtATime, Task
<1>. QED BY <1>1, TypeCorrect, DisciplineHolds, PTL

(* The mutable state of a round is in _live_states only while its task holds *)
(* the lock, whatever fails (runtime.py:417-440).                            *)
THEOREM LiveStateLocked == Spec => []LiveStateIsLocked
<1>1. Discipline => LiveStateIsLocked
  BY DEF Discipline
<1>. QED BY <1>1, DisciplineHolds, PTL

-----------------------------------------------------------------------------
(* The plan of a round.                                                      *)

(* A round gets its plan when it starts, by one of p's own steps.            *)
LEMMA ApprovedPlanStep ==
    ASSUME TypeOK, ApprovedPlanRuns, [Next]_vars
    PROVE  ApprovedPlanRuns'
<1>. USE RuntimeAssumption
     DEF ApprovedPlanRuns, TypeOK, Goto, Op, Exp, locals
<1>1. ASSUME NEW p \in Requests, Call(p) PROVE ApprovedPlanRuns'
  BY <1>1 DEF Call, FirstPc
<1>2. ASSUME NEW p \in Requests, AcquireLock(p) PROVE ApprovedPlanRuns'
  BY <1>2 DEF AcquireLock
<1>3. ASSUME NEW p \in Requests, CreateExperiment(p) \/ SaveAndReturn(p)
      PROVE ApprovedPlanRuns'
  BY <1>3 DEF CreateExperiment, SaveAndReturn, Return
<1>4. ASSUME NEW p \in Requests, MutateState(p) PROVE ApprovedPlanRuns'
  BY <1>4 DEF MutateState
<1>5. ASSUME NEW p \in Requests, ApproveFetch(p) PROVE ApprovedPlanRuns'
  BY <1>5 DEF ApproveFetch, LookupIn, WithPlan, Return
<1>6. ASSUME NEW p \in Requests, PlanLookup(p) PROVE ApprovedPlanRuns'
  BY <1>6 DEF PlanLookup, LookupIn, WithPlan, Return
<1>7. ASSUME NEW p \in Requests, PlanGenerated(p) PROVE ApprovedPlanRuns'
  BY <1>7 DEF PlanGenerated
<1>8. ASSUME NEW p \in Requests, PlanSave(p) PROVE ApprovedPlanRuns'
  BY <1>8 DEF PlanSave
<1>9. ASSUME NEW p \in Requests, PlanReturned(p) PROVE ApprovedPlanRuns'
  BY <1>9 DEF PlanReturned, WithPlan, Return
<1>10. ASSUME NEW p \in Requests, ReviseReload(p) \/ PlanRevised(p)
       PROVE ApprovedPlanRuns'
  BY <1>10 DEF ReviseReload, PlanRevised
<1>11. ASSUME NEW p \in Requests, CheckStep(p) \/ SpawnStep(p)
       PROVE ApprovedPlanRuns'
  <2>1. \E l \in {"done", "start_step", "want_lock"} : pc' = [pc EXCEPT ![p] = l]
    BY <1>11 DEF CheckStep, SpawnStep, StartStep
  <2>2. UNCHANGED <<req, plan, cur>>
    BY <1>11 DEF CheckStep, SpawnStep
  <2>. QED BY <2>1, <2>2
<1>12. ASSUME NEW p \in Requests, LoadRound(p) PROVE ApprovedPlanRuns'
  <2>. DEFINE c == Fetched(p, <<p, "own">>)
              h == HeapWith(p, c)
              s == [h[c] EXCEPT !.status = IF @ = "setup" THEN "running" ELSE @]
              ready == s.planRound = s.round + 1 /\ s.planApplied
  <2>0. s.planApplied \in BOOLEAN
    <3>1. c \in Cells /\ h \in [Cells -> State]
      BY <1>12, ReqType, CellsOf, FetchType DEF LoadRound
    <3>2. h[c] \in State
      BY <3>1
    <3>. HIDE DEF h, c
    <3>. QED BY <3>2 DEF State
  <2>1. cur' = [cur EXCEPT ![p] = s.round + 1] /\ UNCHANGED req
    BY <1>12 DEF LoadRound
  <2>2. CASE StepAllowed(Exp(p), s)
    <3>1. /\ plan' = [plan EXCEPT ![p] = IF ready THEN PlanOf(s) ELSE NoPlan]
          /\ pc' = [pc EXCEPT ![p] = IF ready THEN "run" ELSE "plan_phase"]
      BY <1>12, <2>2 DEF LoadRound
    <3>2. Exp(p) \notin AutoApprove => ready
      BY <2>2 DEF StepAllowed
    <3>3. PlanOf(s) = [round |-> s.planRound, applied |-> s.planApplied]
      BY DEF PlanOf
    <3>. HIDE DEF s
    <3>4. Exp(p) \notin AutoApprove =>
            plan'[p] = [round |-> cur'[p], applied |-> TRUE] /\ pc'[p] = "run"
      <4>. SUFFICES ASSUME Exp(p) \notin AutoApprove
                    PROVE plan'[p] = [round |-> cur'[p], applied |-> TRUE]
                          /\ pc'[p] = "run"
        OBVIOUS
      <4>1. ready
        BY <3>2
      <4>2. s.planApplied = TRUE
        BY <2>0, <4>1
      <4>. QED BY <2>1, <3>1, <3>3, <4>1, <4>2
    <3>5. \A q \in Requests \ {p} :
            plan'[q] = plan[q] /\ cur'[q] = cur[q] /\ pc'[q] = pc[q]
      BY <2>1, <3>1
    <3>. QED BY <2>1, <3>4, <3>5
  <2>3. CASE ~StepAllowed(Exp(p), s)
    <3>1. FailRound(p) /\ UNCHANGED plan
      BY <1>12, <2>3 DEF LoadRound
    <3>. HIDE DEF s
    <3>. QED BY <2>1, <3>1 DEF FailRound
  <2>. QED BY <2>2, <2>3
<1>13. ASSUME NEW p \in Requests, PlanPhase(p) PROVE ApprovedPlanRuns'
  BY <1>13 DEF PlanPhase
<1>14. ASSUME NEW p \in Requests, FinaliseRound(p) \/ SaveRound(p)
       PROVE ApprovedPlanRuns'
  BY <1>14 DEF FinaliseRound, SaveRound
<1>15. ASSUME NEW p \in Requests, RecordRound(p) \/ LogRound(p)
       PROVE ApprovedPlanRuns'
  BY <1>15 DEF RecordRound, LogRound
<1>16. ASSUME NEW p \in Requests, Announce(p) \/ StepDone(p)
       PROVE ApprovedPlanRuns'
  BY <1>16 DEF Announce, StepDone
<1>17. ASSUME NEW p \in Requests, RoundFails(p) \/ RequestFails(p)
       PROVE ApprovedPlanRuns'
  BY <1>17 DEF RoundFails, FailRound, RequestFails, Return
<1>18. CASE Restart
  BY <1>18 DEF Restart, InFlight
<1>19. CASE UNCHANGED vars
  BY <1>19 DEF vars
<1>. QED
  BY <1>1, <1>2, <1>3, <1>4, <1>5, <1>6, <1>7, <1>8, <1>9, <1>10, <1>11, <1>12,
     <1>13, <1>14, <1>15, <1>16, <1>17, <1>18, <1>19
  DEF Next, Handler

(* Without auto_approve every round is played with the applied plan for that *)
(* very round, however the plan changed between the check and the lock.      *)
THEOREM RoundsFollowApprovedPlan == Spec => []ApprovedPlanRuns
<1>1. Init => ApprovedPlanRuns
  BY DEF Init, ApprovedPlanRuns, Op
<1>2. TypeOK /\ ApprovedPlanRuns /\ [Next]_vars => ApprovedPlanRuns'
  BY ApprovedPlanStep
<1>. QED BY <1>1, <1>2, TypeCorrect, PTL DEF Spec

-----------------------------------------------------------------------------
(* What a step announces.                                                    *)

Has(p, k) == <<k, cur[p], p>> \in records[Exp(p)]

(* The rows of a step appear in order, and only while it is in its round.    *)
RecordsOf(p) ==
    /\ pc[p] \notin {"announce", "finished", "done"} =>
           \A e \in Experiments, n \in Nat : <<"round_end", n, p>> \notin records[e]
    /\ pc[p] \in {"log", "announce"} => Has(p, "snapshot")
    /\ pc[p] = "announce" => Has(p, "round_end")
    /\ outcome[p] # "none" => pc[p] \in {"finished", "done"}

(* AnnouncementIsBacked, without its set of kinds.                           *)
OutcomeOf(p) ==
    /\ outcome[p] = "round_end" => Has(p, "snapshot") /\ Has(p, "round_end")
    /\ outcome[p] = "step_error" => ~Has(p, "round_end")

RecordsWritten == \A p \in Requests : RecordsOf(p)
OutcomesMatch == \A p \in Requests : OutcomeOf(p)
Backed == RecordsWritten /\ OutcomesMatch

(* The parts of a step q that RecordsWritten and OutcomesMatch see.          *)
SameView(q) ==
    /\ cur'[q] = cur[q]
    /\ Exp(q)' = Exp(q)
    /\ outcome'[q] = outcome[q]

(* One more row, and every row of another request as it was.                 *)
LEMMA RecordAdds ==
    ASSUME TypeOK, NEW p \in Requests, pc[p] # "new", NEW kind, Record(p, kind)
    PROVE  /\ \A e \in Experiments : \A t :
                t \in records'[e] <=>
                    t \in records[e] \/ (e = Exp(p) /\ t = <<kind, cur[p], p>>)
           /\ \A q \in Requests \ {p} : \A e \in Experiments : \A k, n :
                <<k, n, q>> \in records'[e] <=> <<k, n, q>> \in records[e]
<1>1. Exp(p) \in Experiments
  BY ReqType
<1>2. \A e \in Experiments : \A t :
        t \in records'[e] <=>
            t \in records[e] \/ (e = Exp(p) /\ t = <<kind, cur[p], p>>)
  BY <1>1 DEF Record, TypeOK
<1>. QED BY <1>2

(* What a request other than the one that records or announces sees.         *)
LEMMA OthersKeep ==
    ASSUME TypeOK, Backed, NEW q \in Requests, pc'[q] = pc[q], SameView(q),
           \A e \in Experiments : \A k, n :
               <<k, n, q>> \in records'[e] <=> <<k, n, q>> \in records[e]
    PROVE  RecordsOf(q)' /\ OutcomeOf(q)'
<1>1. pc[q] # "new" => Exp(q) \in Experiments
  BY ReqType
<1>2. outcome[q] # "none" => pc[q] # "new"
  BY DEF Backed, RecordsWritten, RecordsOf
<1>3. Exp(q) \in Experiments => \A k : Has(q, k)' <=> Has(q, k)
  BY DEF Has, SameView
<1>4. RecordsOf(q) /\ OutcomeOf(q)
  BY DEF Backed, RecordsWritten, OutcomesMatch
<1>5. RecordsOf(q)'
  BY <1>1, <1>3, <1>4 DEF RecordsOf, SameView
<1>6. OutcomeOf(q)'
  BY <1>1, <1>2, <1>3, <1>4 DEF OutcomeOf, SameView
<1>. QED BY <1>5, <1>6

(* A step of p that writes no record and announces nothing, outside of the   *)
(* places where records or announcements count.                              *)
LEMMA BackedKept ==
    ASSUME TypeOK, Backed, NEW p \in Requests,
           pc[p] \notin {"announce", "finished", "done"},
           pc'[p] \notin {"log", "announce"},
           UNCHANGED <<records, outcome>>,
           \A q \in Requests \ {p} : pc'[q] = pc[q] /\ SameView(q)
    PROVE  Backed'
<1>1. outcome[p] = "none" /\ outcome'[p] = "none"
  BY DEF Backed, RecordsWritten, RecordsOf
<1>. QED BY <1>1 DEF Backed, RecordsWritten, RecordsOf, OutcomesMatch, OutcomeOf, Has, SameView

LEMMA BackedStep ==
    ASSUME TypeOK, Backed, [Next]_vars
    PROVE  Backed'
<1>. USE RuntimeAssumption
<1>. USE DEF TypeOK, Goto, Op, Exp, locals, persistent
<1>1. ASSUME NEW p \in Requests, Call(p) PROVE Backed'
  <2>1. /\ pc[p] \notin {"announce", "finished", "done"}
        /\ pc'[p] \notin {"log", "announce"}
        /\ UNCHANGED <<records, outcome>>
    BY <1>1 DEF Call, FirstPc, RoundPcs, RevisePcs, PlanPcs
  <2>2. \A q \in Requests \ {p} : pc'[q] = pc[q] /\ SameView(q)
    BY <1>1 DEF Call, FirstPc, SameView
  <2>. QED BY <2>1, <2>2, BackedKept
<1>2. ASSUME NEW p \in Requests, AcquireLock(p) PROVE Backed'
  <2>1. /\ pc[p] \notin {"announce", "finished", "done"}
        /\ pc'[p] \notin {"log", "announce"}
        /\ UNCHANGED <<records, outcome>>
    BY <1>2 DEF AcquireLock, RoundPcs, RevisePcs, PlanPcs
  <2>2. \A q \in Requests \ {p} : pc'[q] = pc[q] /\ SameView(q)
    BY <1>2 DEF AcquireLock, SameView
  <2>. QED BY <2>1, <2>2, BackedKept
<1>3. ASSUME NEW p \in Requests, CreateExperiment(p) PROVE Backed'
  <2>1. /\ pc[p] \notin {"announce", "finished", "done"}
        /\ pc'[p] \notin {"log", "announce"}
        /\ UNCHANGED <<records, outcome>>
    BY <1>3 DEF CreateExperiment, Return, RoundPcs, RevisePcs, PlanPcs
  <2>2. \A q \in Requests \ {p} : pc'[q] = pc[q] /\ SameView(q)
    BY <1>3 DEF CreateExperiment, Return, SameView
  <2>. QED BY <2>1, <2>2, BackedKept
<1>4. ASSUME NEW p \in Requests, MutateState(p) PROVE Backed'
  <2>1. /\ pc[p] \notin {"announce", "finished", "done"}
        /\ pc'[p] \notin {"log", "announce"}
        /\ UNCHANGED <<records, outcome>>
    BY <1>4 DEF MutateState, RoundPcs, RevisePcs, PlanPcs
  <2>2. \A q \in Requests \ {p} : pc'[q] = pc[q] /\ SameView(q)
    BY <1>4 DEF MutateState, SameView
  <2>. QED BY <2>1, <2>2, BackedKept
<1>5. ASSUME NEW p \in Requests, SaveAndReturn(p) PROVE Backed'
  <2>1. /\ pc[p] \notin {"announce", "finished", "done"}
        /\ pc'[p] \notin {"log", "announce"}
        /\ UNCHANGED <<records, outcome>>
    BY <1>5 DEF SaveAndReturn, Return, RoundPcs, RevisePcs, PlanPcs
  <2>2. \A q \in Requests \ {p} : pc'[q] = pc[q] /\ SameView(q)
    BY <1>5 DEF SaveAndReturn, Return, SameView
  <2>. QED BY <2>1, <2>2, BackedKept
<1>6. ASSUME NEW p \in Requests, ApproveFetch(p) PROVE Backed'
  <2>1. /\ pc[p] \notin {"announce", "finished", "done"}
        /\ pc'[p] \notin {"log", "announce"}
        /\ UNCHANGED <<records, outcome>>
    BY <1>6 DEF ApproveFetch, LookupIn, WithPlan, Return, RoundPcs, RevisePcs, PlanPcs
  <2>2. \A q \in Requests \ {p} : pc'[q] = pc[q] /\ SameView(q)
    BY <1>6 DEF ApproveFetch, LookupIn, WithPlan, Return, SameView
  <2>. QED BY <2>1, <2>2, BackedKept
<1>7. ASSUME NEW p \in Requests, PlanLookup(p) PROVE Backed'
  <2>1. /\ pc[p] \notin {"announce", "finished", "done"}
        /\ pc'[p] \notin {"log", "announce"}
        /\ UNCHANGED <<records, outcome>>
    BY <1>7 DEF PlanLookup, LookupIn, WithPlan, Return, RoundPcs, RevisePcs, PlanPcs
  <2>2. \A q \in Requests \ {p} : pc'[q] = pc[q] /\ SameView(q)
    BY <1>7 DEF PlanLookup, LookupIn, WithPlan, Return, SameView
  <2>. QED BY <2>1, <2>2, BackedKept
<1>8. ASSUME NEW p \in Requests, PlanGenerated(p) PROVE Backed'
  <2>1. /\ pc[p] \notin {"announce", "finished", "done"}
        /\ pc'[p] \notin {"log", "announce"}
        /\ UNCHANGED <<records, outcome>>
    BY <1>8 DEF PlanGenerated, RoundPcs, RevisePcs, PlanPcs
  <2>2. \A q \in Requests \ {p} : pc'[q] = pc[q] /\ SameView(q)
    BY <1>8 DEF PlanGenerated, SameView
  <2>. QED BY <2>1, <2>2, BackedKept
<1>9. ASSUME NEW p \in Requests, PlanSave(p) PROVE Backed'
  <2>1. /\ pc[p] \notin {"announce", "finished", "done"}
        /\ pc'[p] \notin {"log", "announce"}
        /\ UNCHANGED <<records, outcome>>
    BY <1>9 DEF PlanSave, RoundPcs, RevisePcs, PlanPcs
  <2>2. \A q \in Requests \ {p} : pc'[q] = pc[q] /\ SameView(q)
    BY <1>9 DEF PlanSave, SameView
  <2>. QED BY <2>1, <2>2, BackedKept
<1>10. ASSUME NEW p \in Requests, PlanReturned(p) PROVE Backed'
  <2>1. /\ pc[p] \notin {"announce", "finished", "done"}
        /\ pc'[p] \notin {"log", "announce"}
        /\ UNCHANGED <<records, outcome>>
    BY <1>10 DEF PlanReturned, WithPlan, Return, RoundPcs, RevisePcs, PlanPcs
  <2>2. \A q \in Requests \ {p} : pc'[q] = pc[q] /\ SameView(q)
    BY <1>10 DEF PlanReturned, WithPlan, Return, SameView
  <2>. QED BY <2>1, <2>2, BackedKept
<1>11. ASSUME NEW p \in Requests, ReviseReload(p) PROVE Backed'
  <2>1. /\ pc[p] \notin {"announce", "finished", "done"}
        /\ pc'[p] \notin {"log", "announce"}
        /\ UNCHANGED <<records, outcome>>
    BY <1>11 DEF ReviseReload, RoundPcs, RevisePcs, PlanPcs
  <2>2. \A q \in Requests \ {p} : pc'[q] = pc[q] /\ SameView(q)
    BY <1>11 DEF ReviseReload, SameView
  <2>. QED BY <2>1, <2>2, BackedKept
<1>12. ASSUME NEW p \in Requests, PlanRevised(p) PROVE Backed'
  <2>1. /\ pc[p] \notin {"announce", "finished", "done"}
        /\ pc'[p] \notin {"log", "announce"}
        /\ UNCHANGED <<records, outcome>>
    BY <1>12 DEF PlanRevised, RoundPcs, RevisePcs, PlanPcs
  <2>2. \A q \in Requests \ {p} : pc'[q] = pc[q] /\ SameView(q)
    BY <1>12 DEF PlanRevised, SameView
  <2>. QED BY <2>1, <2>2, BackedKept
<1>13. ASSUME NEW p \in Requests, CheckStep(p) PROVE Backed'
  <2>1. /\ pc[p] \notin {"announce", "finished", "done"}
        /\ pc'[p] \notin {"log", "announce"}
        /\ UNCHANGED <<records, outcome>>
    BY <1>13 DEF CheckStep, StartStep, RoundPcs, RevisePcs, PlanPcs
  <2>2. \A q \in Requests \ {p} : pc'[q] = pc[q] /\ SameView(q)
    BY <1>13 DEF CheckStep, StartStep, SameView
  <2>. QED BY <2>1, <2>2, BackedKept
<1>14. ASSUME NEW p \in Requests, SpawnStep(p) PROVE Backed'
  <2>1. /\ pc[p] \notin {"announce", "finished", "done"}
        /\ pc'[p] \notin {"log", "announce"}
        /\ UNCHANGED <<records, outcome>>
    BY <1>14 DEF SpawnStep, StartStep, RoundPcs, RevisePcs, PlanPcs
  <2>2. \A q \in Requests \ {p} : pc'[q] = pc[q] /\ SameView(q)
    BY <1>14 DEF SpawnStep, StartStep, SameView
  <2>. QED BY <2>1, <2>2, BackedKept
<1>15. ASSUME NEW p \in Requests, LoadRound(p) PROVE Backed'
  <2>1. /\ pc[p] \notin {"announce", "finished", "done"}
        /\ pc'[p] \notin {"log", "announce"}
        /\ UNCHANGED <<records, outcome>>
    BY <1>15 DEF LoadRound, FailRound, RoundPcs, RevisePcs, PlanPcs
  <2>2. \A q \in Requests \ {p} : pc'[q] = pc[q] /\ SameView(q)
    BY <1>15 DEF LoadRound, FailRound, SameView
  <2>. QED BY <2>1, <2>2, BackedKept
<1>16. ASSUME NEW p \in Requests, PlanPhase(p) PROVE Backed'
  <2>1. /\ pc[p] \notin {"announce", "finished", "done"}
        /\ pc'[p] \notin {"log", "announce"}
        /\ UNCHANGED <<records, outcome>>
    BY <1>16 DEF PlanPhase, RoundPcs, RevisePcs, PlanPcs
  <2>2. \A q \in Requests \ {p} : pc'[q] = pc[q] /\ SameView(q)
    BY <1>16 DEF PlanPhase, SameView
  <2>. QED BY <2>1, <2>2, BackedKept
<1>17. ASSUME NEW p \in Requests, FinaliseRound(p) PROVE Backed'
  <2>1. /\ pc[p] \notin {"announce", "finished", "done"}
        /\ pc'[p] \notin {"log", "announce"}
        /\ UNCHANGED <<records, outcome>>
    BY <1>17 DEF FinaliseRound, RoundPcs, RevisePcs, PlanPcs
  <2>2. \A q \in Requests \ {p} : pc'[q] = pc[q] /\ SameView(q)
    BY <1>17 DEF FinaliseRound, SameView
  <2>. QED BY <2>1, <2>2, BackedKept
<1>18. ASSUME NEW p \in Requests, SaveRound(p) PROVE Backed'
  <2>1. /\ pc[p] \notin {"announce", "finished", "done"}
        /\ pc'[p] \notin {"log", "announce"}
        /\ UNCHANGED <<records, outcome>>
    BY <1>18 DEF SaveRound, RoundPcs, RevisePcs, PlanPcs
  <2>2. \A q \in Requests \ {p} : pc'[q] = pc[q] /\ SameView(q)
    BY <1>18 DEF SaveRound, SameView
  <2>. QED BY <2>1, <2>2, BackedKept
<1>19. ASSUME NEW p \in Requests, RecordRound(p) PROVE Backed'
  <2>1. /\ pc[p] = "record" /\ pc'[p] = "log" /\ Record(p, "snapshot")
        /\ \A q \in Requests : SameView(q)
        /\ \A q \in Requests \ {p} : pc'[q] = pc[q]
    BY <1>19 DEF RecordRound, SameView
  <2>2. /\ \A e \in Experiments : \A t :
             t \in records'[e] <=>
                 t \in records[e] \/ (e = Exp(p) /\ t = <<"snapshot", cur[p], p>>)
        /\ \A q \in Requests \ {p} : \A e \in Experiments : \A k, n :
             <<k, n, q>> \in records'[e] <=> <<k, n, q>> \in records[e]
    BY <2>1, RecordAdds
  <2>3. Exp(p) \in Experiments /\ RecordsOf(p)
    BY <2>1, ReqType DEF Backed, RecordsWritten
  <2>4. outcome'[p] = "none"
    BY <2>1, <2>3 DEF RecordsOf, SameView
  <2>5. RecordsOf(p)'
    BY <2>1, <2>2, <2>3, <2>4 DEF RecordsOf, Has, SameView
  <2>6. \A q \in Requests \ {p} : RecordsOf(q)' /\ OutcomeOf(q)'
    BY <2>1, <2>2, OthersKeep
  <2>. QED BY <2>4, <2>5, <2>6 DEF Backed, RecordsWritten, OutcomesMatch, OutcomeOf
<1>20. ASSUME NEW p \in Requests, LogRound(p) PROVE Backed'
  <2>1. /\ pc[p] = "log" /\ pc'[p] = "announce" /\ Record(p, "round_end")
        /\ \A q \in Requests : SameView(q)
        /\ \A q \in Requests \ {p} : pc'[q] = pc[q]
    BY <1>20 DEF LogRound, SameView
  <2>2. /\ \A e \in Experiments : \A t :
             t \in records'[e] <=>
                 t \in records[e] \/ (e = Exp(p) /\ t = <<"round_end", cur[p], p>>)
        /\ \A q \in Requests \ {p} : \A e \in Experiments : \A k, n :
             <<k, n, q>> \in records'[e] <=> <<k, n, q>> \in records[e]
    BY <2>1, RecordAdds
  <2>3. Exp(p) \in Experiments /\ RecordsOf(p)
    BY <2>1, ReqType DEF Backed, RecordsWritten
  <2>4. outcome'[p] = "none"
    BY <2>1, <2>3 DEF RecordsOf, SameView
  <2>5. RecordsOf(p)'
    <3>1. Has(p, "snapshot") /\ Exp(p)' = Exp(p) /\ cur'[p] = cur[p]
      BY <2>1, <2>3 DEF RecordsOf, SameView
    <3>2. Has(p, "snapshot")' /\ Has(p, "round_end")'
      BY <2>2, <2>3, <3>1 DEF Has
    <3>. QED BY <2>1, <2>4, <3>2 DEF RecordsOf
  <2>6. \A q \in Requests \ {p} : RecordsOf(q)' /\ OutcomeOf(q)'
    BY <2>1, <2>2, OthersKeep
  <2>. QED BY <2>4, <2>5, <2>6 DEF Backed, RecordsWritten, OutcomesMatch, OutcomeOf
<1>21. ASSUME NEW p \in Requests, Announce(p) PROVE Backed'
  <2>1. /\ pc[p] \in {"announce", "announce_error"}
        /\ outcome'[p] = IF pc[p] = "announce" THEN "round_end" ELSE "step_error"
        /\ pc'[p] \in {"finished", "done"}
        /\ UNCHANGED <<cur, req, records>>
        /\ \A q \in Requests \ {p} : pc'[q] = pc[q] /\ SameView(q)
    BY <1>21 DEF Announce, SameView
  <2>2. Exp(p) \in Experiments /\ cur[p] \in Nat /\ RecordsOf(p)
    BY <2>1, ReqType DEF Backed, RecordsWritten
  <2>3. \A k : Has(p, k)' <=> Has(p, k)
    BY <2>1 DEF Has
  <2>4. RecordsOf(p)'
    BY <2>1 DEF RecordsOf
  <2>5. OutcomeOf(p)'
    BY <2>1, <2>2, <2>3 DEF OutcomeOf, RecordsOf, Has
  <2>6. \A q \in Requests \ {p} : RecordsOf(q)' /\ OutcomeOf(q)'
    BY <2>1, OthersKeep
  <2>. QED BY <2>4, <2>5, <2>6 DEF Backed, RecordsWritten, OutcomesMatch
<1>22. ASSUME NEW p \in Requests, StepDone(p) PROVE Backed'
  <2>1. /\ pc[p] = "finished" /\ pc'[p] = "done"
        /\ UNCHANGED <<cur, req, records, outcome>>
        /\ \A q \in Requests \ {p} : pc'[q] = pc[q]
    BY <1>22 DEF StepDone
  <2>2. \A q \in Requests : RecordsOf(q)' /\ OutcomeOf(q)'
    BY <2>1 DEF Backed, RecordsWritten, RecordsOf, OutcomesMatch, OutcomeOf, Has
  <2>. QED BY <2>2 DEF Backed, RecordsWritten, OutcomesMatch
<1>23. ASSUME NEW p \in Requests, RoundFails(p) PROVE Backed'
  <2>1. /\ pc[p] \notin {"announce", "finished", "done"}
        /\ pc'[p] \notin {"log", "announce"}
        /\ UNCHANGED <<records, outcome>>
    BY <1>23 DEF RoundFails, FailRound, RoundPcs, RevisePcs, PlanPcs
  <2>2. \A q \in Requests \ {p} : pc'[q] = pc[q] /\ SameView(q)
    BY <1>23 DEF RoundFails, FailRound, SameView
  <2>. QED BY <2>1, <2>2, BackedKept
<1>24. ASSUME NEW p \in Requests, RequestFails(p) PROVE Backed'
  <2>1. /\ pc[p] \notin {"announce", "finished", "done"}
        /\ pc'[p] \notin {"log", "announce"}
        /\ UNCHANGED <<records, outcome>>
    BY <1>24 DEF RequestFails, Return, RoundPcs, RevisePcs, PlanPcs
  <2>2. \A q \in Requests \ {p} : pc'[q] = pc[q] /\ SameView(q)
    BY <1>24 DEF RequestFails, Return, SameView
  <2>. QED BY <2>1, <2>2, BackedKept
<1>25. CASE Restart
  BY <1>25 DEF Restart, InFlight, Backed, RecordsWritten, RecordsOf, OutcomesMatch, OutcomeOf, Has
<1>26. CASE UNCHANGED vars
  BY <1>26 DEF vars, Backed, RecordsWritten, RecordsOf, OutcomesMatch, OutcomeOf, Has
<1>. QED
  BY <1>1, <1>2, <1>3, <1>4, <1>5, <1>6, <1>7, <1>8, <1>9, <1>10, <1>11, <1>12,
     <1>13, <1>14, <1>15, <1>16, <1>17, <1>18, <1>19, <1>20, <1>21, <1>22, <1>23,
     <1>24, <1>25, <1>26
  DEF Next, Handler

(* round_end is broadcast only for a round that has its snapshot and its log, *)
(* step_error only for one without the log (runtime.py:417-463).             *)
THEOREM AnnouncementsHold == Spec => []AnnouncementIsBacked
<1>1. Init => Backed
  BY DEF Init, Backed, RecordsWritten, RecordsOf, OutcomesMatch, OutcomeOf, Has
<1>2. TypeOK /\ Backed /\ [Next]_vars => Backed'
  BY BackedStep
<1>3. Backed => AnnouncementIsBacked
  BY DEF Backed, OutcomesMatch, OutcomeOf, Has, AnnouncementIsBacked
<1>. QED BY <1>1, <1>2, <1>3, TypeCorrect, PTL DEF Spec
=============================================================================
