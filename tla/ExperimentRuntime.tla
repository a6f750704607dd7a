-------------------------- MODULE ExperimentRuntime --------------------------
(***************************************************************************)
(* The request handlers of backend/app/api/runtime.py (ExperimentRuntime), *)
(* interleaved at their awaits over the shared state they use:             *)
(*                                                                         *)
(*   - the store (backend/app/api/store.py), saved as a whole by every     *)
(*     handler from whatever copy of the state it holds;                   *)
(*   - _live_states, which hands every handler the MUTABLE object of the   *)
(*     round in flight in place of a copy;                                 *)
(*   - the process-wide asyncio.Lock, taken by steps, revisions and        *)
(*     creations and by nobody else;                                       *)
(*   - _steps_in_progress, the check-and-set of start_step.                *)
(*                                                                         *)
(* A request is one HTTP call, and for start_step also the background task *)
(* it spawns.  State objects live in cells: a handler holds a pointer,     *)
(* which is a cell of its own or, during a live round, the cell of the     *)
(* task that runs it.                                                      *)
(***************************************************************************)
EXTENDS Naturals, FiniteSets

CONSTANTS
    Requests,     (* the calls made during a behaviour, one handler each     *)
    Experiments,  (* experiment ids                                          *)
    Ops,          (* the operations clients use, a subset of AllOps          *)
    AutoApprove,  (* the experiments created with auto_approve = true        *)
    TotalRounds,  (* total_rounds of every experiment                        *)
    StrayRounds,  (* rounds an LLM or a client may write into a plan instead *)
                  (* of the upcoming one                                     *)
    Concurrent,   (* the operations clients leave in flight together; any    *)
                  (* other is called and answered while nothing else runs    *)
    None          (* no request, no cell                                     *)

AllOps == {"create", "start", "pause", "inject", "update_arc", "plan",
           "approve", "revise", "step", "start_step"}

(* The operations whose every write happens under ExperimentRuntime.lock.    *)
LockedOps == {"create", "revise", "step", "start_step"}

Cells == Requests \X {"own", "outer"}

ASSUME RuntimeAssumption ==
    /\ Ops \subseteq AllOps
    /\ AutoApprove \subseteq Experiments
    /\ TotalRounds \in Nat \ {0}
    /\ StrayRounds \subseteq Nat \ {0}
    /\ Concurrent \subseteq AllOps
    /\ None \notin Requests
    /\ None \notin Cells

VARIABLES
    store,        (* [Experiments -> State]: experiments, agents, newest plan *)
    appliedRows,  (* rounds whose gm_plans row has status applied             *)
    records,      (* rows and round_end logs written per finished round       *)
    lock,         (* holder of ExperimentRuntime.lock                         *)
    live,         (* _live_states: the cell of the round in flight            *)
    stepping,     (* _steps_in_progress                                       *)
    heap,         (* [Cells -> State]: the state objects in memory            *)
    pc, req,      (* where each request is, and what it asked                 *)
    ptr, outer,   (* the handler's state object; approve's first one          *)
    plan,         (* the plan record the handler works with                   *)
    cur,          (* the round number the handler computed                    *)
    outcome       (* what the step broadcast at its end                      *)

persistent == <<store, appliedRows, records>>
locals == <<ptr, outer, plan, cur>>
vars == <<store, appliedRows, records, lock, live, stepping, heap, pc, req,
          ptr, outer, plan, cur, outcome>>

-----------------------------------------------------------------------------
(* SimulationState, reduced to what the handlers tell apart.  planRound = 0 *)
(* is gm_plan = None; dirty says the object holds the effects of a round    *)
(* that run_round has begun and not finalised; events are the observer      *)
(* events injected so far.                                                  *)

Statuses == {"absent", "setup", "running", "paused", "completed", "collapsed"}

State == [round : Nat, status : Statuses, planRound : Nat,
          planApplied : BOOLEAN, dirty : BOOLEAN, events : SUBSET Requests]

NewState(status) ==
    [round |-> 0, status |-> status, planRound |-> 0, planApplied |-> FALSE,
     dirty |-> FALSE, events |-> {}]

PlanRecord == [round : Nat, applied : BOOLEAN]
NoPlan == [round |-> 0, applied |-> FALSE]

SetPlan(s, pl) == [s EXCEPT !.planRound = pl.round, !.planApplied = pl.applied]
PlanOf(s) == [round |-> s.planRound, applied |-> s.planApplied]

(* save_state overwrites every column but keeps one gm_plans row per round;  *)
(* loading picks the row with the largest round, so a plan for a lower round *)
(* is written where no load will find it.                                    *)
Merged(old, s) == IF s.planRound >= old.planRound THEN s
                  ELSE SetPlan(s, PlanOf(old))

RowsAfter(rows, s) ==
    IF s.planRound = 0 THEN rows
    ELSE IF s.planApplied THEN rows \cup {s.planRound}
    ELSE rows \ {s.planRound}

Save(e, s) ==
    /\ store' = [store EXCEPT ![e] = Merged(@, s)]
    /\ appliedRows' = [appliedRows EXCEPT ![e] = RowsAfter(@, s)]

(* Mutant: an approval for the round played.                                 *)
StepAllowedLate(e, s) ==
    \/ e \in AutoApprove
    \/ s.planRound = s.round /\ s.planApplied

(* _assert_step_allowed_for_state *)
StepAllowed(e, s) ==
    \/ e \in AutoApprove
    \/ s.planRound = s.round + 1 /\ s.planApplied

-----------------------------------------------------------------------------
(* Where a request can be.  The names say what it is waiting for.            *)

RoundPcs == {"load_round", "plan_phase", "run", "save_round", "record", "log"}
RevisePcs == {"reload", "revising"}
PlanPcs == {"plan_lookup", "generate", "save_plan", "plan_saved"}
Pcs == {"new", "called", "check", "start_step", "want_lock", "create", "save",
        "announce", "announce_error", "finished", "done"}
       \cup RoundPcs \cup RevisePcs \cup PlanPcs

Op(p) == req[p].op
Exp(p) == req[p].exp

(* Inside `async with self.lock`. *)
InLock(p) == lock = p

Init ==
    /\ \E existing \in SUBSET Experiments :
         store = [e \in Experiments |->
                    NewState(IF e \in existing THEN "setup" ELSE "absent")]
    /\ appliedRows = [e \in Experiments |-> {}]
    /\ records = [e \in Experiments |-> {}]
    /\ lock = None
    /\ live = [e \in Experiments |-> None]
    /\ stepping = [e \in Experiments |-> FALSE]
    /\ heap = [c \in Cells |-> NewState("absent")]
    /\ pc = [p \in Requests |-> "new"]
    /\ req = [p \in Requests |-> [op |-> "none", exp |-> None]]
    /\ ptr = [p \in Requests |-> <<p, "own">>]
    /\ outer = [p \in Requests |-> <<p, "outer">>]
    /\ plan = [p \in Requests |-> NoPlan]
    /\ cur = [p \in Requests |-> 0]
    /\ outcome = [p \in Requests |-> "none"]

-----------------------------------------------------------------------------
(* Reading and leaving.                                                      *)

(* get_state: the live object by reference, or else a fresh copy of the      *)
(* store in cell c.  Only the second one suspends.                           *)
Fetched(p, c) == IF live[Exp(p)] # None THEN live[Exp(p)] ELSE c
HeapWith(p, c) == IF live[Exp(p)] # None THEN heap
                  ELSE [heap EXCEPT ![c] = store[Exp(p)]]

Goto(p, l) == pc' = [pc EXCEPT ![p] = l]

(* Leaving a handler releases the lock if its `async with` held it.          *)
Release(p) == lock' = IF InLock(p) THEN None ELSE lock
Return(p) == Goto(p, "done") /\ Release(p)

FirstPc(o) ==
    CASE o \in {"create", "revise", "step"} -> "want_lock"
      [] o = "start_step" -> "check"
      [] o = "plan" -> "plan_lookup"
      [] OTHER -> "called"

InFlight(p) == pc[p] \notin {"new", "done"}

(* A client calls an operation on an experiment whose id it knows; a new id   *)
(* is a fresh uuid.                                                          *)
Call(p) ==
    /\ pc[p] = "new"
    /\ \E o \in Ops, e \in Experiments :
         /\ \A q \in Requests : InFlight(q) => {o, Op(q)} \subseteq Concurrent
         /\ IF o = "create"
            THEN /\ store[e].status = "absent"
                 /\ \A q \in Requests : req[q] # [op |-> "create", exp |-> e]
            ELSE store[e].status # "absent"
         /\ req' = [req EXCEPT ![p] = [op |-> o, exp |-> e]]
         /\ Goto(p, FirstPc(o))
    /\ UNCHANGED <<persistent, locals, lock, live, stepping, heap, outcome>>

(* Mutant: the operations run without the lock.                              *)
AcquireLockOpen(p) ==
    /\ pc[p] = "want_lock"
    /\ lock' = p
    /\ Goto(p, CASE Op(p) = "create" -> "create"
                 [] Op(p) = "revise" -> "plan_lookup"
                 [] OTHER -> "load_round")
    /\ UNCHANGED <<persistent, locals, live, stepping, heap, req, outcome>>

(* asyncio.Lock.acquire, FIFO and without barging: see the fairness below.    *)
AcquireLock(p) ==
    /\ pc[p] = "want_lock"
    /\ lock = None
    /\ lock' = p
    /\ Goto(p, CASE Op(p) = "create" -> "create"
                 [] Op(p) = "revise" -> "plan_lookup"
                 [] OTHER -> "load_round")
    /\ UNCHANGED <<persistent, locals, live, stepping, heap, req, outcome>>

CreateExperiment(p) ==
    /\ pc[p] = "create"
    /\ Save(Exp(p), NewState("setup"))
    /\ Return(p)
    /\ UNCHANGED <<records, locals, live, stepping, heap, req, outcome>>

-----------------------------------------------------------------------------
(* start, pause, inject_observer_event, update_arc: fetch, mutate, save,     *)
(* with no lock.  The fetch of a live object and the mutation are one step,  *)
(* as nothing between them suspends.                                         *)

(* Mutant: a status the model does not know.                                 *)
MutatedStatus(p, s) ==
    IF Op(p) = "pause" THEN [s EXCEPT !.status = "stopped"] ELSE s

Mutated(p, s) ==
    CASE Op(p) = "start" -> [s EXCEPT !.status = "running"]
      [] Op(p) = "pause" -> [s EXCEPT !.status = "paused"]
      [] Op(p) = "inject" -> [s EXCEPT !.events = @ \cup {p}]
      [] OTHER -> s

MutateState(p) ==
    /\ pc[p] = "called"
    /\ Op(p) \in {"start", "pause", "inject", "update_arc"}
    /\ LET c == Fetched(p, <<p, "own">>) IN
         /\ ptr' = [ptr EXCEPT ![p] = c]
         /\ heap' = [HeapWith(p, c) EXCEPT ![c] = Mutated(p, @)]
    /\ Goto(p, "save")
    /\ UNCHANGED <<persistent, outer, plan, cur, lock, live, stepping, req,
                   outcome>>

(* The save that ends a handler: start, pause, inject, update_arc and revise  *)
(* save the object they fetched last, approve the one it fetched FIRST.      *)
SaveAndReturn(p) ==
    /\ pc[p] = "save"
    /\ Save(Exp(p), heap[IF Op(p) = "approve" THEN outer[p] ELSE ptr[p]])
    /\ Return(p)
    /\ UNCHANGED <<records, locals, live, stepping, heap, req, outcome>>

-----------------------------------------------------------------------------
(* get_or_generate_gm_plan and its three callers.                            *)

(* Mutant: revise_gm_plan does not look whether the plan is applied.         *)
WithPlanUnchecked(p, h, o, pl) ==
    /\ heap' = IF Op(p) = "approve"
               THEN [h EXCEPT ![o] = SetPlan(@, [pl EXCEPT !.applied = TRUE])]
               ELSE h
    /\ Goto(p, CASE Op(p) = "plan" -> "done" [] Op(p) = "approve" -> "save"
                 [] OTHER -> "reload")
    /\ UNCHANGED lock

(* What the caller does with the record pl it gets back, memory being h and  *)
(* o the object approve_gm_plan fetched before: approve writes it, or a      *)
(* replacement payload taken as it is, into o; revise refuses it if applied. *)
WithPlan(p, h, o, pl) ==
    \/ /\ Op(p) = "plan"
       /\ heap' = h
       /\ Return(p)
    \/ /\ Op(p) = "approve"
       /\ \E r \in {pl.round} \cup StrayRounds :
            heap' = [h EXCEPT ![o] = SetPlan(@, [round |-> r, applied |-> TRUE])]
       /\ Goto(p, "save")
       /\ UNCHANGED lock
    \/ /\ Op(p) = "revise" /\ pl.applied
       /\ heap' = h
       /\ Return(p)
    \/ /\ Op(p) = "revise" /\ ~pl.applied
       /\ heap' = h
       /\ Goto(p, "reload")
       /\ UNCHANGED lock

(* A cached plan for the upcoming round is returned at once; otherwise the   *)
(* handler awaits the LLM holding the object in cell c.                      *)
LookupIn(p, h, c, o) ==
    LET next == h[c].round + 1 IN
    /\ ptr' = [ptr EXCEPT ![p] = c]
    /\ cur' = [cur EXCEPT ![p] = next]
    /\ \/ /\ h[c].planRound = next
          /\ plan' = [plan EXCEPT ![p] = PlanOf(h[c])]
          /\ WithPlan(p, h, o, PlanOf(h[c]))
       \/ /\ h[c].planRound # next
          /\ heap' = h
          /\ Goto(p, "generate")
          /\ UNCHANGED <<plan, lock>>

PlanLookup(p) ==
    /\ pc[p] = "plan_lookup"
    /\ LET c == Fetched(p, <<p, "own">>) IN
         LookupIn(p, HeapWith(p, c), c, outer[p])
    /\ UNCHANGED <<persistent, outer, live, stepping, req, outcome>>

(* approve_gm_plan fetches the state before it asks for the plan.  With a     *)
(* live round both fetches return the same object and neither suspends.      *)
ApproveFetch(p) ==
    /\ pc[p] = "called"
    /\ Op(p) = "approve"
    /\ LET c == Fetched(p, <<p, "outer">>) IN
         /\ outer' = [outer EXCEPT ![p] = c]
         /\ IF live[Exp(p)] # None
            THEN LookupIn(p, heap, c, c)
            ELSE /\ heap' = HeapWith(p, c)
                 /\ Goto(p, "plan_lookup")
                 /\ UNCHANGED <<ptr, plan, cur, lock>>
    /\ UNCHANGED <<persistent, live, stepping, req, outcome>>

(* GMService.generate_plan answers, the LLM's plan or the rule-based one; the *)
(* round inside an LLM's plan is whatever it wrote.                          *)
PlanGenerated(p) ==
    /\ pc[p] = "generate"
    /\ \E r \in {cur[p]} \cup StrayRounds :
         LET pl == [round |-> r, applied |-> Exp(p) \in AutoApprove] IN
         /\ plan' = [plan EXCEPT ![p] = pl]
         /\ heap' = [heap EXCEPT ![ptr[p]] = SetPlan(@, pl)]
    /\ Goto(p, "save_plan")
    /\ UNCHANGED <<persistent, ptr, outer, cur, lock, live, stepping, req,
                   outcome>>

PlanSave(p) ==
    /\ pc[p] = "save_plan"
    /\ Save(Exp(p), heap[ptr[p]])
    /\ Goto(p, "plan_saved")
    /\ UNCHANGED <<records, locals, lock, live, stepping, heap, req, outcome>>

PlanReturned(p) ==
    /\ pc[p] = "plan_saved"
    /\ WithPlan(p, heap, outer[p], plan[p])
    /\ UNCHANGED <<persistent, locals, live, stepping, req, outcome>>

(* revise_gm_plan, still under the lock: fetch again, ask the LLM, keep the   *)
(* round of the plan revised.                                                *)
ReviseReload(p) ==
    /\ pc[p] = "reload"
    /\ LET c == Fetched(p, <<p, "own">>) IN
         /\ ptr' = [ptr EXCEPT ![p] = c]
         /\ heap' = HeapWith(p, c)
    /\ Goto(p, "revising")
    /\ UNCHANGED <<persistent, outer, plan, cur, lock, live, stepping, req,
                   outcome>>

PlanRevised(p) ==
    /\ pc[p] = "revising"
    /\ heap' = [heap EXCEPT ![ptr[p]] =
                   SetPlan(@, [round |-> plan[p].round, applied |-> FALSE])]
    /\ Goto(p, "save")
    /\ UNCHANGED <<persistent, locals, lock, live, stepping, req, outcome>>

-----------------------------------------------------------------------------
(* POST /step: the route checks, start_step flags and spawns, the task runs. *)

(* Mutant: the flag is set and not looked at.                                *)
StartStepUnchecked(p) ==
    /\ Goto(p, "want_lock")
    /\ stepping' = [stepping EXCEPT ![Exp(p)] = TRUE]

(* The check and the set of start_step, with no await between them.          *)
StartStep(p) ==
    IF stepping[Exp(p)]
    THEN /\ Goto(p, "done")
         /\ UNCHANGED stepping
    ELSE /\ Goto(p, "want_lock")
         /\ stepping' = [stepping EXCEPT ![Exp(p)] = TRUE]

CheckStep(p) ==
    /\ pc[p] = "check"
    /\ LET e == Exp(p)
           s == IF live[e] # None THEN heap[live[e]] ELSE store[e]
       IN \/ /\ ~StepAllowed(e, s)
             /\ Goto(p, "done")
             /\ UNCHANGED stepping
          \/ /\ StepAllowed(e, s) /\ live[e] = None
             /\ Goto(p, "start_step")
             /\ UNCHANGED stepping
          \/ /\ StepAllowed(e, s) /\ live[e] # None
             /\ StartStep(p)
    /\ UNCHANGED <<persistent, locals, lock, live, heap, req, outcome>>

SpawnStep(p) ==
    /\ pc[p] = "start_step"
    /\ StartStep(p)
    /\ UNCHANGED <<persistent, locals, lock, live, heap, req, outcome>>

(* Leaving the locked round: live state and lock go in one step, since       *)
(* neither the pop nor the release suspends.  runtime.step() keeps no live   *)
(* state and lets its exception through; the background task broadcasts.     *)
LeaveRound(p) ==
    /\ lock' = None
    /\ live' = IF Op(p) = "start_step" THEN [live EXCEPT ![Exp(p)] = None]
               ELSE live

(* Mutants: a failed step that keeps its live state; that keeps the lock;    *)
(* that goes on to broadcast_round_end.                                      *)
FailRoundLeak(p) ==
    /\ lock' = None
    /\ UNCHANGED live
    /\ Goto(p, IF Op(p) = "start_step" THEN "announce_error" ELSE "done")
FailRoundLocked(p) ==
    /\ live' = [live EXCEPT ![Exp(p)] = None]
    /\ UNCHANGED lock
    /\ Goto(p, IF Op(p) = "start_step" THEN "announce_error" ELSE "done")
FailRoundSilent(p) ==
    /\ LeaveRound(p)
    /\ Goto(p, IF Op(p) = "start_step" THEN "announce" ELSE "done")

FailRound(p) ==
    /\ LeaveRound(p)
    /\ Goto(p, IF Op(p) = "start_step" THEN "announce_error" ELSE "done")

(* Mutant: the background task trusts the check of the route.                *)
LoadRoundTrusting(p) ==
    /\ pc[p] = "load_round"
    /\ LET c == Fetched(p, <<p, "own">>)
           h == HeapWith(p, c)
           s == [h[c] EXCEPT !.status = IF @ = "setup" THEN "running" ELSE @]
           next == s.round + 1
           ready == s.planRound = next /\ s.planApplied
       IN /\ ptr' = [ptr EXCEPT ![p] = c]
          /\ cur' = [cur EXCEPT ![p] = next]
          /\ IF Op(p) = "start_step" \/ StepAllowed(Exp(p), s)
             THEN /\ heap' = [h EXCEPT ![c] = [s EXCEPT !.dirty = TRUE]]
                  /\ plan' = [plan EXCEPT ![p] =
                                IF ready THEN PlanOf(s) ELSE NoPlan]
                  /\ live' = IF Op(p) = "start_step"
                             THEN [live EXCEPT ![Exp(p)] = c] ELSE live
                  /\ Goto(p, IF ready THEN "run" ELSE "plan_phase")
                  /\ UNCHANGED lock
             ELSE /\ heap' = [h EXCEPT ![c] = s]
                  /\ FailRound(p)
                  /\ UNCHANGED plan
    /\ UNCHANGED <<persistent, outer, stepping, req, outcome>>

(* The head of _run_round_locked and of run_round: setup becomes running, the *)
(* approval is checked AGAIN under the lock, and an applied plan for this     *)
(* round is taken; with auto_approve the plan may still have to be generated. *)
LoadRound(p) ==
    /\ pc[p] = "load_round"
    /\ LET c == Fetched(p, <<p, "own">>)
           h == HeapWith(p, c)
           s == [h[c] EXCEPT !.status = IF @ = "setup" THEN "running" ELSE @]
           next == s.round + 1
           ready == s.planRound = next /\ s.planApplied
       IN /\ ptr' = [ptr EXCEPT ![p] = c]
          /\ cur' = [cur EXCEPT ![p] = next]
          /\ IF StepAllowed(Exp(p), s)
             THEN /\ heap' = [h EXCEPT ![c] = [s EXCEPT !.dirty = TRUE]]
                  /\ plan' = [plan EXCEPT ![p] =
                                IF ready THEN PlanOf(s) ELSE NoPlan]
                  /\ live' = IF Op(p) = "start_step"
                             THEN [live EXCEPT ![Exp(p)] = c] ELSE live
                  /\ Goto(p, IF ready THEN "run" ELSE "plan_phase")
                  /\ UNCHANGED lock
             ELSE /\ heap' = [h EXCEPT ![c] = s]
                  /\ FailRound(p)
                  /\ UNCHANGED plan
    /\ UNCHANGED <<persistent, outer, stepping, req, outcome>>

(* _gm_plan_phase: generated and applied on the spot.                        *)
PlanPhase(p) ==
    /\ pc[p] = "plan_phase"
    /\ \E r \in {cur[p]} \cup StrayRounds :
         LET pl == [round |-> r, applied |-> TRUE] IN
         /\ plan' = [plan EXCEPT ![p] = pl]
         /\ heap' = [heap EXCEPT ![ptr[p]] = SetPlan(@, pl)]
    /\ Goto(p, "run")
    /\ UNCHANGED <<persistent, ptr, outer, cur, lock, live, stepping, req,
                   outcome>>

(* The phases of the round end and run_round finalises the state s; whether   *)
(* the threat reached 100 is the engine's business.                          *)
Finalised(s, p, collapsed) ==
    [SetPlan(s, plan[p]) EXCEPT
        !.round = cur[p],
        !.dirty = FALSE,
        !.status = IF collapsed THEN "collapsed"
                   ELSE IF cur[p] >= TotalRounds THEN "completed"
                   ELSE s.status]

FinaliseRound(p) ==
    /\ pc[p] = "run"
    /\ \E collapsed \in BOOLEAN :
         heap' = [heap EXCEPT ![ptr[p]] = Finalised(@, p, collapsed)]
    /\ Goto(p, "save_round")
    /\ UNCHANGED <<persistent, locals, lock, live, stepping, req, outcome>>

SaveRound(p) ==
    /\ pc[p] = "save_round"
    /\ Save(Exp(p), heap[ptr[p]])
    /\ Goto(p, "record")
    /\ UNCHANGED <<records, locals, lock, live, stepping, heap, req, outcome>>

Record(p, kind) ==
    records' = [records EXCEPT ![Exp(p)] = @ \cup {<<kind, cur[p], p>>}]

(* record_round_result: the rounds row and the world snapshot.               *)
RecordRound(p) ==
    /\ pc[p] = "record"
    /\ Record(p, "snapshot")
    /\ Goto(p, "log")
    /\ UNCHANGED <<store, appliedRows, locals, lock, live, stepping, heap, req,
                   outcome>>

(* log_round_result, and out of the lock.                                    *)
LogRound(p) ==
    /\ pc[p] = "log"
    /\ Record(p, "round_end")
    /\ LeaveRound(p)
    /\ Goto(p, "announce")
    /\ UNCHANGED <<store, appliedRows, locals, stepping, heap, req, outcome>>

(* broadcast_round_end, or step_error after an exception; outside the lock.  *)
Announce(p) ==
    /\ pc[p] \in {"announce", "announce_error"}
    /\ outcome' = [outcome EXCEPT ![p] =
                     IF pc[p] = "announce" THEN "round_end" ELSE "step_error"]
    /\ Goto(p, IF Op(p) = "start_step" THEN "finished" ELSE "done")
    /\ UNCHANGED <<persistent, locals, lock, live, stepping, heap, req>>

(* Mutant: the callback forgets the experiment.                              *)
StepDoneForgets(p) ==
    /\ pc[p] = "finished"
    /\ Goto(p, "done")
    /\ UNCHANGED <<persistent, locals, lock, live, stepping, heap, req, outcome>>

(* _on_step_done, called by the loop once the task has ended.                *)
StepDone(p) ==
    /\ pc[p] = "finished"
    /\ stepping' = [stepping EXCEPT ![Exp(p)] = FALSE]
    /\ Goto(p, "done")
    /\ UNCHANGED <<persistent, locals, lock, live, heap, req, outcome>>

-----------------------------------------------------------------------------
(* Failures.                                                                 *)

(* Mutant: a failed round is saved as far as it got.                         *)
RoundFailsSaving(p) ==
    /\ pc[p] \in RoundPcs
    /\ Save(Exp(p), heap[ptr[p]])
    /\ FailRound(p)
    /\ UNCHANGED <<records, locals, stepping, heap, req, outcome>>

(* Any await of the round raises: the engine, or one of the three separate   *)
(* transactions that end it.                                                 *)
RoundFails(p) ==
    /\ pc[p] \in RoundPcs
    /\ FailRound(p)
    /\ UNCHANGED <<persistent, locals, stepping, heap, req, outcome>>

(* A database error or a failed revision ends any other handler with a 5xx.  *)
RequestFails(p) ==
    /\ pc[p] \in {"create", "save"} \cup RevisePcs \cup (PlanPcs \ {"generate"})
    /\ Return(p)
    /\ UNCHANGED <<persistent, locals, live, stepping, heap, req, outcome>>

(* The process dies and restarts: only the store survives.                   *)
Restart ==
    /\ \E p \in Requests : InFlight(p)
    /\ pc' = [p \in Requests |-> IF InFlight(p) THEN "done" ELSE pc[p]]
    /\ lock' = None
    /\ live' = [e \in Experiments |-> None]
    /\ stepping' = [e \in Experiments |-> FALSE]
    /\ UNCHANGED <<persistent, locals, heap, req, outcome>>

-----------------------------------------------------------------------------
Handler(p) ==
    \/ CreateExperiment(p) \/ MutateState(p) \/ SaveAndReturn(p)
    \/ ApproveFetch(p) \/ PlanLookup(p) \/ PlanGenerated(p) \/ PlanSave(p)
    \/ PlanReturned(p) \/ ReviseReload(p) \/ PlanRevised(p)
    \/ CheckStep(p) \/ SpawnStep(p) \/ LoadRound(p) \/ PlanPhase(p)
    \/ FinaliseRound(p) \/ SaveRound(p) \/ RecordRound(p) \/ LogRound(p)
    \/ Announce(p) \/ StepDone(p)

Next ==
    \/ \E p \in Requests :
         Call(p) \/ AcquireLock(p) \/ Handler(p) \/ RoundFails(p) \/ RequestFails(p)
    \/ Restart

Spec == Init /\ [][Next]_vars

(* Every await returns or raises, so a handler that can go on does; the lock  *)
(* is FIFO, so a request that waits for it is not overtaken for ever.        *)
FairSpec ==
    /\ Spec
    /\ \A p \in Requests : WF_vars(Handler(p)) /\ SF_vars(AcquireLock(p))

-----------------------------------------------------------------------------
(* Properties.                                                               *)

(* Type invariant of every variable of the runtime.                          *)
TypeOK ==
    /\ store \in [Experiments -> State]
    /\ appliedRows \in [Experiments -> SUBSET Nat]
    /\ records \in [Experiments ->
                      SUBSET ({"snapshot", "round_end"} \X Nat \X Requests)]
    /\ lock \in Requests \cup {None}
    /\ live \in [Experiments -> Cells \cup {None}]
    /\ stepping \in [Experiments -> BOOLEAN]
    /\ heap \in [Cells -> State]
    /\ pc \in [Requests -> Pcs]
    /\ req \in [Requests -> [op : AllOps \cup {"none"}, exp : Experiments \cup {None}]]
    /\ \A p \in Requests : pc[p] # "new" => req[p] \in [op : AllOps, exp : Experiments]
    /\ ptr \in [Requests -> Cells]
    /\ outer \in [Requests -> Cells]
    /\ plan \in [Requests -> PlanRecord]
    /\ cur \in [Requests -> Nat]
    /\ outcome \in [Requests -> {"none", "round_end", "step_error"}]

Task(p) == Op(p) = "start_step" /\ pc[p] \in {"want_lock", "announce",
                                   "announce_error", "finished"} \cup RoundPcs

(* The mutable object that get_state hands to every handler is visible only   *)
(* while the task it belongs to is inside its round and holds the lock: a     *)
(* finished, failed or refused step never leaves one behind                   *)
(* (runtime.py:255-259, 417-440).                                            *)
LiveStateIsLocked ==
    \A e \in Experiments : live[e] # None =>
        \E p \in Requests :
            /\ lock = p
            /\ Op(p) = "start_step" /\ Exp(p) = e
            /\ pc[p] \in RoundPcs \ {"load_round"}
            /\ live[e] = ptr[p]

(* Rounds, revisions and creations exclude one another over ALL experiments, *)
(* and an experiment has at most one background task, which is there exactly *)
(* while _steps_in_progress says so (runtime.py:404-417).                    *)
OneRoundAtATime ==
    /\ \A p \in Requests :
         pc[p] \in RoundPcs \cup RevisePcs \cup {"create"} => lock = p
    /\ \A e \in Experiments :
         stepping[e] <=> \E p \in Requests : Task(p) /\ Exp(p) = e
    /\ \A p, q \in Requests : Task(p) /\ Task(q) /\ Exp(p) = Exp(q) => p = q

(* Without auto_approve no round is ever played with a plan other than an     *)
(* applied one for exactly that round, whatever rounds are played and plans   *)
(* are generated or revised between the route's check and the lock           *)
(* (docs/API.md:32).                                                         *)
ApprovedPlanRuns ==
    \A p \in Requests :
        Op(p) \in {"step", "start_step"} /\ Exp(p) \notin AutoApprove =>
            /\ pc[p] # "plan_phase"
            /\ pc[p] \in {"run", "save_round", "record", "log"} =>
                   plan[p] = [round |-> cur[p], applied |-> TRUE]

(* What a task announces is what it did: round_end only for a round with its  *)
(* snapshot and its log, step_error only for a round without the log.        *)
AnnouncementIsBacked ==
    \A p \in Requests :
        LET done == {k \in {"snapshot", "round_end"} :
                       <<k, cur[p], p>> \in records[Exp(p)]}
        IN /\ outcome[p] = "round_end" => done = {"snapshot", "round_end"}
           /\ outcome[p] = "step_error" => "round_end" \notin done

(* The store never holds the effects of a round that has not finished: a step *)
(* that fails, and a handler that saves during a step, leave the experiment   *)
(* as the last complete round left it (test_runtime.py:186, core.py:66).     *)
NoPartialRound == \A e \in Experiments : ~store[e].dirty

(* "Applied GM plans cannot be revised": the newest plan, once applied, does  *)
(* not go back to pending (runtime.py:346-349).                              *)
AppliedPlanIsFinal ==
    [][\A e \in Experiments :
          /\ store[e].planApplied
          /\ store'[e].planRound = store[e].planRound
          => store'[e].planApplied]_store

(* The same promise, read where the code can break it: a revision never saves *)
(* a pending plan over one that was applied while the LLM was revising it     *)
(* (runtime.py:343-373).                                                     *)
AppliedPlanNotRevised ==
    [][\A p \in Requests :
          Op(p) = "revise" /\ pc[p] = "save" /\ SaveAndReturn(p) =>
              ~(store[Exp(p)].planApplied
                  /\ store[Exp(p)].planRound = plan[p].round)]_vars

(* Once the upcoming plan has been approved and applied, a step is admitted:  *)
(* its gm_plans row is the one that loading the state finds                  *)
(* (docs/GAME_RUNTIME.md:47).                                                *)
ApprovalAdmitsStep ==
    \A e \in Experiments :
        store[e].round + 1 \in appliedRows[e] => StepAllowed(e, store[e])

(* Clients that overlap only operations that hold the lock see the history    *)
(* RoundLedger promises, through failures and restarts: the rounds committed  *)
(* and their snapshots (store.py:144-161, runtime.py:461-463).               *)
Ledger == INSTANCE RoundLedger WITH
    Writers <- Requests,
    committed <- [e \in Experiments |-> store[e].round],
    snapshots <- [e \in Experiments |->
                   {<<t[2], t[3]>> : t \in {u \in records[e] : u[1] = "snapshot"}}]
LedgerSpec == Ledger!Spec

(* A started step ends, and with it the refusal of the next one.             *)
StepSettles == \A e \in Experiments : stepping[e] ~> ~stepping[e]

(* Whoever waits for the runtime's lock gets it, or is dropped by a restart. *)
LockIsServed == \A p \in Requests : pc[p] = "want_lock" ~> pc[p] # "want_lock"
=============================================================================
