------------------------ MODULE RuntimeLockedProofs ------------------------
(***************************************************************************)
(* Proofs about ExperimentRuntime when clients leave only operations in    *)
(* flight together that write under ExperimentRuntime.lock: for every set  *)
(* of requests and experiments and any number of rounds, the store holds   *)
(* complete rounds, one after the other, each with one snapshot; and, when *)
(* plans carry the round they are made for, what was approved stays so.    *)
(***************************************************************************)
EXTENDS ExperimentRuntimeProofs

(* What clients do, and what the model's plans carry.                        *)
LockedClients == Concurrent \subseteq LockedOps
TruePlans == StrayRounds = {}

-----------------------------------------------------------------------------
(* One request at a time works on states, and on copies of its own.          *)

Working(p) == InFlight(p) /\ (Op(p) \notin LockedOps \/ Holding(p))

Alone ==
    \A p, q \in Requests :
        InFlight(p) /\ InFlight(q) /\ p # q => {Op(p), Op(q)} \subseteq LockedOps

OwnCells == \A p \in Requests : ptr[p] = <<p, "own">> /\ outer[p] = <<p, "outer">>

Stored(p) == store[Exp(p)]
Own(p) == heap[<<p, "own">>]
Outer(p) == heap[<<p, "outer">>]

(* An experiment is absent until the one request that creates it has saved   *)
(* it, and only then asked for anything else.                                *)
Births ==
    /\ \A p \in Requests :
         pc[p] # "new" /\ Op(p) # "create" => Stored(p).status # "absent"
    /\ \A p \in Requests :
         Op(p) = "create" /\ pc[p] \in {"want_lock", "create"} =>
             Stored(p).status = "absent"
    /\ \A p, q \in Requests : Op(p) = "create" /\ req[p] = req[q] => p = q

(* Every stored state is that of a complete round, and no snapshot is ahead. *)
CompleteRounds ==
    \A e \in Experiments :
        /\ ~store[e].dirty
        /\ store[e].status = "absent" => store[e].round = 0
        /\ \A t \in records[e] : t[1] = "snapshot" => t[2] <= store[e].round

(* A copy x of the state d as a handler that plays no round may save it.      *)
Upholds(x, d) == x.round = d.round /\ ~x.dirty /\ x.status # "absent"

(* What the request has in memory, by where it is.                           *)
Copies(p) ==
    /\ pc[p] \in {"generate", "save_plan", "revising"} => Upholds(Own(p), Stored(p))
    /\ Op(p) = "approve" /\ pc[p] \in PlanPcs => Upholds(Outer(p), Stored(p))
    /\ pc[p] = "save" =>
         Upholds(IF Op(p) = "approve" THEN Outer(p) ELSE Own(p), Stored(p))
    /\ pc[p] \in {"plan_phase", "run", "save_round"} =>
         cur[p] = Stored(p).round + 1 /\ Own(p).status # "absent"
    /\ pc[p] = "save_round" => Own(p).round = cur[p] /\ ~Own(p).dirty
    /\ pc[p] = "record" =>
         /\ cur[p] = Stored(p).round /\ cur[p] > 0
         /\ \A t \in records[Exp(p)] : t[1] = "snapshot" => t[2] < cur[p]

LockedInv ==
    /\ Alone /\ OwnCells /\ Births /\ CompleteRounds
    /\ \A p \in Requests : Copies(p)

(* The plans in the store: one ahead of the rounds at most, and the newest    *)
(* row's status is what the state says of it.                                *)
NewestPlan ==
    \A e \in Experiments :
        /\ store[e].planRound <= store[e].round + 1
        /\ store[e].planRound = 0 => ~store[e].planApplied
        /\ \A n \in appliedRows[e] : n <= store[e].planRound
        /\ store[e].planApplied <=> store[e].planRound \in appliedRows[e]
        /\ store[e].status = "absent" => store[e].planRound = 0

(* Saving x over d keeps that, and takes no approval back.                   *)
Succeeds(x, d) ==
    /\ d.planRound <= x.planRound /\ x.planRound <= x.round + 1
    /\ x.planRound = 0 => ~x.planApplied
    /\ x.planRound = d.planRound /\ d.planApplied => x.planApplied

Upcoming(p) == cur[p] = Stored(p).round + 1

PlanCopies(p) ==
    /\ pc[p] = "generate" => Upcoming(p) /\ Stored(p).planRound # cur[p]
    /\ pc[p] = "save_plan" =>
         Upcoming(p) /\ plan[p].round = cur[p] /\ PlanOf(Own(p)) = plan[p]
    /\ pc[p] \in {"plan_saved", "reload", "revising"} =>
         Upcoming(p) /\ plan[p].round = cur[p] /\ PlanOf(Stored(p)) = plan[p]
    /\ pc[p] \in {"reload", "revising"} => ~plan[p].applied
    /\ pc[p] \in {"save_plan", "save_round"} => Succeeds(Own(p), Stored(p))
    /\ pc[p] = "save" =>
         Succeeds(IF Op(p) = "approve" THEN Outer(p) ELSE Own(p), Stored(p))
    /\ pc[p] \in {"run", "save_round"} => plan[p] = [round |-> cur[p], applied |-> TRUE]

PlanInv == NewestPlan /\ \A p \in Requests : PlanCopies(p)
-----------------------------------------------------------------------------
(* The one who works, and everybody else.                                    *)

LEMMA OnlyWorker ==
    ASSUME Discipline, Alone, NEW p \in Requests, Working(p)
    PROVE  \A q \in Requests \ {p} : ~Working(q)
<1>1. SUFFICES ASSUME NEW q \in Requests, q # p, Working(q) PROVE FALSE
  OBVIOUS
<1>2. Op(p) \in LockedOps /\ Op(q) \in LockedOps
  BY <1>1 DEF Working, Alone
<1>. QED BY <1>1, <1>2 DEF Working, Discipline, LockHeld

(* While a request fetches, no round is in flight, and it gets a copy.        *)
LEMMA FetchCopies ==
    ASSUME TypeOK, Discipline, Alone, NEW p \in Requests, Working(p),
           pc[p] \notin RoundPcs \ {"load_round"}, NEW c
    PROVE  /\ live[Exp(p)] = None
           /\ Fetched(p, c) = c
           /\ HeapWith(p, c) = [heap EXCEPT ![c] = Stored(p)]
<1>1. live[Exp(p)] = None
  <2>1. SUFFICES ASSUME live[Exp(p)] # None PROVE FALSE
    OBVIOUS
  <2>2. Exp(p) \in Experiments
    BY ReqType DEF Working, InFlight
  <2>3. PICK q \in Requests : lock = q /\ pc[q] \in RoundPcs \ {"load_round"}
    BY <2>1, <2>2 DEF Discipline, LiveStateIsLocked
  <2>4. Working(q)
    BY <2>3 DEF Working, InFlight, Holding, RoundPcs
  <2>. QED BY <2>3, <2>4, OnlyWorker
<1>. QED BY <1>1 DEF Fetched, HeapWith, Stored

(* What the handlers below do belongs to the one who works.                  *)
LEMMA WorkersWork ==
    ASSUME Discipline, NEW p \in Requests,
           pc[p] \in {"called", "create", "save"} \cup RoundPcs \cup RevisePcs \cup PlanPcs
    PROVE  (pc[p] = "called" /\ Op(p) \in LockedOps) \/ Working(p)
BY DEF Discipline, OpPcs, Working, InFlight, Holding, RoundPcs, RevisePcs,
       PlanPcs, LockedOps

(* Who does not work holds no copy.                                          *)
LEMMA IdleHoldsNothing ==
    ASSUME Discipline', NEW q \in Requests, ~Working(q)'
    PROVE  Copies(q)' /\ PlanCopies(q)'
<1>1. pc'[q] \notin {"create", "save"} \cup RoundPcs \cup RevisePcs \cup PlanPcs
  BY DEF Discipline, OpPcs, Working, InFlight, Holding, RoundPcs, RevisePcs,
         PlanPcs, LockedOps
<1>. QED BY <1>1 DEF Copies, PlanCopies, RoundPcs, RevisePcs, PlanPcs

(* A step of p alone, which neither starts nor restarts a request.           *)
StepOf(p) ==
    /\ UNCHANGED req
    /\ pc[p] # "new" /\ pc' = [pc EXCEPT ![p] = pc'[p]]
    /\ pc'[p] \in Pcs \ {"new", "want_lock", "create"}
    /\ \A e \in Experiments \ {Exp(p)} :
         UNCHANGED <<store[e], records[e], appliedRows[e]>>

LEMMA OthersIdle ==
    ASSUME TypeOK, Discipline, Discipline', Alone, NEW p \in Requests, Working(p),
           StepOf(p)
    PROVE  \A q \in Requests \ {p} : Copies(q)' /\ PlanCopies(q)'
<1>1. ASSUME NEW q \in Requests, q # p PROVE ~Working(q)'
  <2>1. ~Working(q)
    BY <1>1, OnlyWorker
  <2>2. pc'[q] = pc[q] /\ req'[q] = req[q]
    BY <1>1 DEF StepOf, TypeOK
  <2>. QED BY <2>1, <2>2 DEF Working, InFlight, Holding, Op
<1>. QED BY <1>1, IdleHoldsNothing

LEMMA AloneKept ==
    ASSUME TypeOK, Alone, NEW p \in Requests, StepOf(p), InFlight(p)
    PROVE  Alone'
<1>1. \A q \in Requests : InFlight(q)' => InFlight(q)
  BY DEF StepOf, InFlight, TypeOK
<1>. QED BY <1>1 DEF Alone, StepOf, Op

(* A step in p's own memory.                                                 *)
LEMMA MemoryStep ==
    ASSUME TypeOK, Discipline, Discipline', LockedInv, NEW p \in Requests, Working(p),
           StepOf(p), UNCHANGED <<store, records, ptr, outer>>, Copies(p)'
    PROVE  LockedInv'
<1>1. Alone'
  BY AloneKept DEF LockedInv, Working
<1>2. OwnCells' /\ CompleteRounds'
  BY DEF LockedInv, OwnCells, CompleteRounds
<1>3. Births'
  BY DEF LockedInv, Births, StepOf, Stored, Op, Exp, TypeOK
<1>4. \A q \in Requests : Copies(q)'
  BY OthersIdle DEF LockedInv
<1>. QED BY <1>1, <1>2, <1>3, <1>4 DEF LockedInv

(* What a save leaves of x, whatever became of its plan.                      *)
LEMMA SavedIs ==
    ASSUME TypeOK, NEW e \in Experiments, NEW x \in State, Save(e, x)
    PROVE  /\ store'[e].round = x.round /\ store'[e].status = x.status
           /\ store'[e].dirty = x.dirty
           /\ \A f \in Experiments \ {e} :
                store'[f] = store[f] /\ appliedRows'[f] = appliedRows[f]
<1>1. /\ Merged(store[e], x).round = x.round
      /\ Merged(store[e], x).status = x.status
      /\ Merged(store[e], x).dirty = x.dirty
  BY DEF Merged, SetPlan, State
<1>. QED BY <1>1 DEF Save, TypeOK

(* A step that saves x, the copy of a complete round.                         *)
LEMMA SaveStep ==
    ASSUME TypeOK, Discipline, Discipline', LockedInv, NEW p \in Requests, Working(p),
           NEW x \in State, Save(Exp(p), x),
           x.status # "absent", ~x.dirty, Stored(p).round <= x.round,
           StepOf(p), UNCHANGED <<records, ptr, outer>>, Copies(p)'
    PROVE  LockedInv'
<1>1. Exp(p) \in Experiments
  BY ReqType DEF StepOf
<1>2. /\ store'[Exp(p)].round = x.round
      /\ store'[Exp(p)].status = x.status
      /\ store'[Exp(p)].dirty = x.dirty
      /\ \A f \in Experiments \ {Exp(p)} : store'[f] = store[f]
  BY <1>1, SavedIs
<1>3. Alone' /\ OwnCells'
  BY AloneKept DEF LockedInv, Working, OwnCells
<1>4. CompleteRounds'
  <2>1. ASSUME NEW t \in records[Exp(p)], t[1] = "snapshot"
        PROVE  t[2] <= x.round
    <3>1. t[2] <= Stored(p).round /\ t[2] \in Nat /\ Stored(p).round \in Nat /\ x.round \in Nat
      BY <1>1, <2>1 DEF LockedInv, CompleteRounds, Stored, TypeOK, State
    <3>. QED BY <3>1
  <2>. QED BY <1>1, <1>2, <2>1 DEF LockedInv, CompleteRounds
<1>5. Births'
  <2>1. \A q \in Requests : pc'[q] # "new" => pc[q] # "new"
    BY DEF StepOf, TypeOK
  <2>2. ASSUME NEW q \in Requests, Op(q) = "create", pc'[q] \in {"want_lock", "create"}
        PROVE  Exp(q) # Exp(p) /\ Stored(q).status = "absent"
    <3>1. q # p /\ pc[q] = pc'[q]
      BY <2>2 DEF StepOf, TypeOK
    <3>2. Stored(q).status = "absent"
      BY <2>2, <3>1 DEF LockedInv, Births
    <3>3. CASE Op(p) = "create"
      <4>1. req[p] # req[q]
        BY <3>1, <3>3 DEF LockedInv, Births
      <4>2. pc[q] # "new"
        BY <2>2, <3>1
      <4>. QED BY <2>2, <3>2, <3>3, <4>1, <4>2 DEF Op, Exp, TypeOK, StepOf
    <3>4. CASE Op(p) # "create"
      <4>1. Stored(p).status # "absent"
        BY <3>4 DEF LockedInv, Births, StepOf
      <4>. QED BY <3>2, <4>1 DEF Stored
    <3>. QED BY <3>3, <3>4
  <2>3. ASSUME NEW q \in Requests, pc'[q] # "new", Op(q) # "create"
        PROVE  store'[Exp(q)].status # "absent"
    <3>1. Exp(q) \in Experiments /\ Stored(q).status # "absent"
      BY <2>1, <2>3, ReqType DEF LockedInv, Births
    <3>. QED BY <1>2, <3>1 DEF Stored
  <2>4. \A q \in Requests : pc'[q] # "new" => Exp(q) \in Experiments
    BY <2>1, ReqType
  <2>5. \A q \in Requests : Op(q)' = Op(q) /\ Exp(q)' = Exp(q) /\ req'[q] = req[q]
    BY DEF StepOf, Op, Exp
  <2>. QED BY <1>2, <2>2, <2>3, <2>4, <2>5 DEF LockedInv, Births, Stored
<1>6. \A q \in Requests : Copies(q)'
  BY OthersIdle DEF LockedInv
<1>. QED BY <1>3, <1>4, <1>5, <1>6 DEF LockedInv
-----------------------------------------------------------------------------
(* The handlers, one by one, with the copies they make.                      *)

(* What a request finds in the store is what a handler may save.             *)
LEMMA StoredUpholds ==
    ASSUME TypeOK, LockedInv, NEW p \in Requests, pc[p] # "new", Op(p) # "create"
    PROVE  Upholds(Stored(p), Stored(p)) /\ Stored(p) \in State /\ Exp(p) \in Experiments
<1>1. Exp(p) \in Experiments
  BY ReqType
<1>. QED BY <1>1 DEF LockedInv, CompleteRounds, Births, Upholds, Stored, TypeOK

LEMMA SetPlanIs ==
    ASSUME NEW s \in State, NEW pl \in PlanRecord
    PROVE  /\ SetPlan(s, pl) \in State
           /\ SetPlan(s, pl).round = s.round /\ SetPlan(s, pl).dirty = s.dirty
           /\ SetPlan(s, pl).status = s.status
           /\ SetPlan(s, pl).planRound = pl.round
           /\ SetPlan(s, pl).planApplied = pl.applied
BY DEF SetPlan, State, PlanRecord

LEMMA PlanUpholds ==
    ASSUME NEW s \in State, NEW pl \in PlanRecord, NEW d, Upholds(s, d)
    PROVE  Upholds(SetPlan(s, pl), d)
BY SetPlanIs DEF Upholds

LEMMA MutatedUpholds ==
    ASSUME NEW p \in Requests, NEW s \in State, Upholds(s, s)
    PROVE  /\ Upholds(Mutated(p, s), s)
           /\ Mutated(p, s).planRound = s.planRound
           /\ Mutated(p, s).planApplied = s.planApplied
BY DEF Upholds, Mutated, State

(* The two cells of a request.                                               *)
LEMMA TwoCells ==
    ASSUME NEW p \in Requests
    PROVE  /\ <<p, "own">> \in Cells /\ <<p, "outer">> \in Cells
           /\ <<p, "own">> # <<p, "outer">>
BY DEF Cells

LEMMA PtrIsOwn ==
    ASSUME TypeOK, LockedInv, NEW p \in Requests
    PROVE  [ptr EXCEPT ![p] = <<p, "own">>] = ptr
BY DEF LockedInv, OwnCells, TypeOK

LEMMA MutateKeeps ==
    ASSUME TypeOK, Discipline, Discipline', LockedInv, NEW p \in Requests, MutateState(p)
    PROVE  LockedInv' /\ Own(p)' = Mutated(p, Stored(p)) /\ StepOf(p) /\ Working(p)
<1>. DEFINE c == <<p, "own">>
<1>1. Working(p) /\ pc[p] # "new" /\ Op(p) # "create"
  BY WorkersWork DEF MutateState, LockedOps
<1>2. Fetched(p, c) = c /\ HeapWith(p, c) = [heap EXCEPT ![c] = Stored(p)]
  BY <1>1, FetchCopies DEF MutateState, RoundPcs, LockedInv
<1>3. UNCHANGED ptr
  BY <1>2 DEF MutateState, LockedInv, OwnCells, TypeOK
<1>4. heap' = [heap EXCEPT ![c] = Mutated(p, Stored(p))]
  BY <1>2, TwoCells DEF MutateState, TypeOK
<1>5. Own(p)' = Mutated(p, Stored(p))
  BY <1>4, TwoCells DEF Own, TypeOK
<1>6. Copies(p)'
  <2>1. Upholds(Own(p)', Stored(p))
    BY <1>1, <1>5, StoredUpholds, MutatedUpholds
  <2>2. pc'[p] = "save" /\ Op(p)' # "approve" /\ Stored(p)' = Stored(p)
    BY DEF MutateState, Goto, TypeOK, Op, Exp, Stored, persistent
  <2>. QED BY <2>1, <2>2 DEF Copies, Upholds, PlanPcs
<1>7. StepOf(p)
  BY DEF MutateState, Goto, StepOf, TypeOK, Pcs, persistent
<1>. QED BY <1>1, <1>3, <1>5, <1>6, <1>7, MemoryStep DEF MutateState, persistent

LEMMA ApproveFetchKeeps ==
    ASSUME TypeOK, Discipline, Discipline', LockedInv, NEW p \in Requests, ApproveFetch(p)
    PROVE  LockedInv' /\ pc'[p] = "plan_lookup" /\ StepOf(p) /\ Working(p)
<1>. DEFINE c == <<p, "outer">>
<1>1. Working(p) /\ pc[p] # "new" /\ Op(p) # "create"
  BY WorkersWork DEF ApproveFetch, LockedOps
<1>2. /\ live[Exp(p)] = None
      /\ Fetched(p, c) = c /\ HeapWith(p, c) = [heap EXCEPT ![c] = Stored(p)]
  BY <1>1, FetchCopies DEF ApproveFetch, RoundPcs, LockedInv
<1>3. UNCHANGED <<ptr, outer>>
  <2>1. outer' = [outer EXCEPT ![p] = c] /\ ptr' = ptr
    BY <1>2 DEF ApproveFetch
  <2>2. outer[p] = c
    BY DEF LockedInv, OwnCells
  <2>3. outer = [q \in Requests |-> outer[q]]
    BY DEF TypeOK
  <2>. HIDE DEF c
  <2>. QED BY <2>1, <2>2, <2>3
<1>4. Outer(p)' = Stored(p)
  BY <1>2, TwoCells DEF ApproveFetch, Outer, TypeOK
<1>5. pc' = [pc EXCEPT ![p] = "plan_lookup"] /\ pc'[p] = "plan_lookup"
  BY <1>2 DEF ApproveFetch, Goto, TypeOK
<1>6. Copies(p)'
  <2>1. Stored(p)' = Stored(p)
    BY DEF ApproveFetch, Exp, Stored, persistent
  <2>. QED BY <1>1, <1>4, <1>5, <2>1, StoredUpholds DEF Copies, Upholds
<1>7. StepOf(p)
  BY <1>1, <1>5 DEF ApproveFetch, StepOf, TypeOK, Pcs, PlanPcs, persistent
<1>. QED BY <1>1, <1>3, <1>5, <1>6, <1>7, MemoryStep DEF ApproveFetch, persistent

(* What the three callers of get_or_generate_gm_plan do with the plan.        *)
LEMMA WithPlanCopies ==
    ASSUME TypeOK, NEW p \in Requests, pc[p] # "new", NEW h \in [Cells -> State],
           NEW pl \in PlanRecord, WithPlan(p, h, <<p, "outer">>, pl),
           UNCHANGED <<store, records, req>>,
           Op(p) = "approve" => Upholds(h[<<p, "outer">>], Stored(p))
    PROVE  /\ Copies(p)'
           /\ pc' = [pc EXCEPT ![p] = pc'[p]] /\ pc'[p] \in {"done", "save", "reload"}
           /\ heap'[<<p, "own">>] = h[<<p, "own">>]
<1>1. Stored(p)' = Stored(p) /\ Op(p)' = Op(p)
  BY DEF Stored, Op, Exp
<1>2. CASE Op(p) = "plan" \/ Op(p) = "revise"
  <2>1. /\ pc' = [pc EXCEPT ![p] = pc'[p]] /\ pc'[p] \in {"done", "reload"}
        /\ heap' = h
    BY <1>2 DEF WithPlan, Return, Goto, TypeOK
  <2>. QED BY <2>1 DEF Copies, PlanPcs
<1>3. CASE Op(p) = "approve"
  <2>1. PICK r \in {pl.round} \cup StrayRounds :
          heap' = [h EXCEPT ![<<p, "outer">>] = SetPlan(@, [round |-> r, applied |-> TRUE])]
    BY <1>3 DEF WithPlan
  <2>2. [round |-> r, applied |-> TRUE] \in PlanRecord
    BY RuntimeAssumption DEF PlanRecord
  <2>3. pc' = [pc EXCEPT ![p] = "save"] /\ pc'[p] = "save"
    BY <1>3 DEF WithPlan, Goto, TypeOK
  <2>4. /\ Outer(p)' = SetPlan(h[<<p, "outer">>], [round |-> r, applied |-> TRUE])
        /\ heap'[<<p, "own">>] = h[<<p, "own">>]
    BY <2>1, TwoCells DEF Outer
  <2>5. Upholds(Outer(p)', Stored(p))
    BY <1>3, <2>2, <2>4, TwoCells, PlanUpholds
  <2>6. Copies(p)'
    BY <1>1, <1>3, <2>3, <2>5 DEF Copies, Upholds, PlanPcs
  <2>. QED BY <2>3, <2>4, <2>6
<1>. QED BY <1>2, <1>3 DEF WithPlan
LEMMA PlanLookupKeeps ==
    ASSUME TypeOK, Discipline, Discipline', LockedInv, NEW p \in Requests, PlanLookup(p)
    PROVE  /\ LockedInv' /\ StepOf(p) /\ Working(p)
           /\ LookupIn(p, [heap EXCEPT ![<<p, "own">>] = Stored(p)], <<p, "own">>, <<p, "outer">>)
           /\ cur'[p] = Stored(p).round + 1
           /\ Stored(p) \in State
           /\ pc'[p] \in {"generate", "done", "save", "reload"}
           /\ Own(p)' = Stored(p)
<1>. DEFINE c == <<p, "own">>
            h == [heap EXCEPT ![c] = Stored(p)]
<1>1. Working(p) /\ pc[p] # "new" /\ Op(p) # "create"
  BY WorkersWork DEF PlanLookup, PlanPcs, Discipline, OpPcs
<1>2. Fetched(p, c) = c /\ HeapWith(p, c) = h
  BY <1>1, FetchCopies DEF PlanLookup, RoundPcs, LockedInv
<1>3. LookupIn(p, h, c, <<p, "outer">>)
  BY <1>2 DEF PlanLookup, LockedInv, OwnCells
<1>4. /\ Stored(p) \in State /\ Upholds(Stored(p), Stored(p))
      /\ h \in [Cells -> State] /\ h[c] = Stored(p)
      /\ h[<<p, "outer">>] = Outer(p)
  BY <1>1, StoredUpholds, TwoCells DEF TypeOK, Outer
<1>5. UNCHANGED <<ptr, outer, store, appliedRows, records, req>>
  BY <1>3, PtrIsOwn DEF LookupIn, PlanLookup, persistent
<1>6. cur'[p] = Stored(p).round + 1
  BY <1>3, <1>4 DEF LookupIn, TypeOK
<1>. HIDE DEF h
<1>7. CASE Stored(p).planRound = Stored(p).round + 1
  <2>1. WithPlan(p, h, <<p, "outer">>, PlanOf(Stored(p)))
    BY <1>3, <1>4, <1>7 DEF LookupIn
  <2>2. Op(p) = "approve" => Upholds(h[<<p, "outer">>], Stored(p))
    BY <1>4 DEF PlanLookup, LockedInv, Copies, PlanPcs
  <2>3. /\ Copies(p)' /\ pc' = [pc EXCEPT ![p] = pc'[p]]
        /\ pc'[p] \in {"done", "save", "reload"} /\ heap'[c] = h[c]
    BY <1>1, <1>4, <1>5, <2>1, <2>2, PlanOfType, WithPlanCopies
  <2>4. StepOf(p)
    BY <1>1, <1>5, <2>3 DEF StepOf, Pcs, RevisePcs
  <2>5. LockedInv'
    BY <1>1, <1>5, <2>3, <2>4, MemoryStep
  <2>. QED BY <1>1, <1>3, <1>4, <1>6, <2>3, <2>4, <2>5 DEF Own, h
<1>8. CASE Stored(p).planRound # Stored(p).round + 1
  <2>1. heap' = h /\ pc' = [pc EXCEPT ![p] = "generate"] /\ pc'[p] = "generate"
    BY <1>3, <1>4, <1>8 DEF LookupIn, Goto, TypeOK
  <2>2. Own(p)' = Stored(p) /\ Outer(p)' = Outer(p)
    BY <1>4, <2>1 DEF Own, Outer
  <2>3. Copies(p)'
    <3>1. Op(p) = "approve" => Upholds(Outer(p), Stored(p))
      BY DEF PlanLookup, LockedInv, Copies, PlanPcs
    <3>2. Stored(p)' = Stored(p) /\ Op(p)' = Op(p)
      BY <1>5 DEF Stored, Op, Exp
    <3>. QED BY <1>4, <2>1, <2>2, <3>1, <3>2 DEF Copies, Upholds
  <2>4. StepOf(p)
    BY <1>1, <1>5, <2>1 DEF StepOf, Pcs, PlanPcs
  <2>5. LockedInv'
    BY <1>1, <1>5, <2>3, <2>4, MemoryStep
  <2>. QED BY <1>1, <1>3, <1>4, <1>6, <2>1, <2>2, <2>4, <2>5 DEF h
<1>. QED BY <1>7, <1>8

LEMMA PlanGeneratedKeeps ==
    ASSUME TypeOK, Discipline, Discipline', LockedInv, NEW p \in Requests, PlanGenerated(p)
    PROVE  LockedInv' /\ StepOf(p) /\ Working(p)
<1>1. Working(p) /\ pc[p] # "new"
  BY WorkersWork DEF PlanGenerated, PlanPcs
<1>2. PICK r \in {cur[p]} \cup StrayRounds :
        heap' = [heap EXCEPT ![<<p, "own">>] =
                   SetPlan(@, [round |-> r, applied |-> Exp(p) \in AutoApprove])]
  BY DEF PlanGenerated, LockedInv, OwnCells
<1>3. [round |-> r, applied |-> Exp(p) \in AutoApprove] \in PlanRecord
  <2>1. cur[p] \in Nat
    BY DEF TypeOK
  <2>2. r \in Nat
    BY <1>2, <2>1, RuntimeAssumption
  <2>. QED BY <2>2 DEF PlanRecord
<1>4. /\ Own(p)' = SetPlan(Own(p), [round |-> r, applied |-> Exp(p) \in AutoApprove])
      /\ Outer(p)' = Outer(p)
  BY <1>2, TwoCells DEF Own, Outer, TypeOK
<1>5. Upholds(Own(p)', Stored(p))
  <2>1. Upholds(Own(p), Stored(p)) /\ Own(p) \in State
    BY TwoCells DEF PlanGenerated, LockedInv, Copies, TypeOK, Own
  <2>. QED BY <1>3, <1>4, <2>1, PlanUpholds
<1>6. /\ pc' = [pc EXCEPT ![p] = "save_plan"] /\ pc'[p] = "save_plan"
      /\ Stored(p)' = Stored(p) /\ Op(p)' = Op(p)
  BY DEF PlanGenerated, Goto, TypeOK, Stored, Op, Exp, persistent
<1>7. Copies(p)'
  <2>1. Op(p) = "approve" => Upholds(Outer(p), Stored(p))
    BY DEF PlanGenerated, LockedInv, Copies, PlanPcs
  <2>. QED BY <1>4, <1>5, <1>6, <2>1 DEF Copies, Upholds
<1>8. StepOf(p)
  BY <1>1, <1>6 DEF PlanGenerated, StepOf, Pcs, PlanPcs, persistent
<1>. QED BY <1>1, <1>7, <1>8, MemoryStep DEF PlanGenerated, persistent

LEMMA PlanSaveKeeps ==
    ASSUME TypeOK, Discipline, Discipline', LockedInv, NEW p \in Requests, PlanSave(p)
    PROVE  /\ LockedInv' /\ StepOf(p) /\ Working(p)
           /\ Save(Exp(p), Own(p)) /\ Own(p) \in State /\ Upholds(Own(p), Stored(p))
<1>1. Working(p) /\ pc[p] # "new" /\ Exp(p) \in Experiments
  BY WorkersWork, ReqType DEF PlanSave, PlanPcs
<1>2. Save(Exp(p), Own(p)) /\ Own(p) \in State
  BY TwoCells DEF PlanSave, LockedInv, OwnCells, Own, TypeOK
<1>3. Upholds(Own(p), Stored(p)) /\ (Op(p) = "approve" => Upholds(Outer(p), Stored(p)))
  BY DEF PlanSave, LockedInv, Copies, PlanPcs
<1>4. /\ store'[Exp(p)].round = Stored(p).round
      /\ \A f \in Experiments \ {Exp(p)} :
           store'[f] = store[f] /\ appliedRows'[f] = appliedRows[f]
  BY <1>1, <1>2, <1>3, SavedIs DEF Upholds
<1>5. pc' = [pc EXCEPT ![p] = "plan_saved"] /\ pc'[p] = "plan_saved"
  BY DEF PlanSave, Goto, TypeOK
<1>6. StepOf(p)
  BY <1>1, <1>4, <1>5 DEF PlanSave, StepOf, Pcs, PlanPcs
<1>7. Copies(p)'
  <2>1. Outer(p)' = Outer(p) /\ Op(p)' = Op(p) /\ Stored(p)'.round = Stored(p).round
    BY <1>4 DEF PlanSave, Outer, Op, Exp, Stored
  <2>. QED BY <1>3, <1>5, <2>1 DEF Copies, Upholds
<1>8. Stored(p).round <= Own(p).round
  BY <1>1, <1>2, <1>3 DEF Upholds, State, Stored, TypeOK
<1>9. LockedInv'
  BY <1>1, <1>2, <1>3, <1>6, <1>7, <1>8, SaveStep DEF PlanSave, locals, Upholds
<1>. QED BY <1>1, <1>2, <1>3, <1>6, <1>9

LEMMA PlanReturnedKeeps ==
    ASSUME TypeOK, Discipline, Discipline', LockedInv, NEW p \in Requests, PlanReturned(p)
    PROVE  LockedInv' /\ StepOf(p) /\ Working(p) /\ pc'[p] \in {"done", "save", "reload"}
<1>1. Working(p) /\ pc[p] # "new"
  BY WorkersWork DEF PlanReturned, PlanPcs
<1>2. WithPlan(p, heap, <<p, "outer">>, plan[p])
  BY DEF PlanReturned, LockedInv, OwnCells
<1>3. Op(p) = "approve" => Upholds(heap[<<p, "outer">>], Stored(p))
  BY DEF PlanReturned, LockedInv, Copies, PlanPcs, Outer
<1>4. /\ Copies(p)' /\ pc' = [pc EXCEPT ![p] = pc'[p]]
      /\ pc'[p] \in {"done", "save", "reload"}
  BY <1>1, <1>2, <1>3, WithPlanCopies DEF PlanReturned, persistent, TypeOK
<1>5. StepOf(p)
  BY <1>1, <1>4 DEF PlanReturned, StepOf, Pcs, RevisePcs, persistent
<1>. QED BY <1>1, <1>4, <1>5, MemoryStep DEF PlanReturned, persistent, locals

LEMMA ReviseReloadKeeps ==
    ASSUME TypeOK, Discipline, Discipline', LockedInv, NEW p \in Requests, ReviseReload(p)
    PROVE  LockedInv' /\ StepOf(p) /\ Working(p) /\ Own(p)' = Stored(p)
<1>. DEFINE c == <<p, "own">>
<1>1. Working(p) /\ pc[p] # "new" /\ Op(p) = "revise"
  BY WorkersWork DEF ReviseReload, RevisePcs, Discipline, OpPcs
<1>2. Fetched(p, c) = c /\ HeapWith(p, c) = [heap EXCEPT ![c] = Stored(p)]
  BY <1>1, FetchCopies DEF ReviseReload, RoundPcs, LockedInv
<1>3. UNCHANGED ptr
  BY <1>2, PtrIsOwn DEF ReviseReload
<1>4. Own(p)' = Stored(p)
  BY <1>2, TwoCells DEF ReviseReload, Own, TypeOK
<1>5. Upholds(Own(p)', Stored(p))
  BY <1>1, <1>4, StoredUpholds
<1>6. /\ pc' = [pc EXCEPT ![p] = "revising"] /\ pc'[p] = "revising"
      /\ Stored(p)' = Stored(p) /\ Op(p)' = Op(p)
  BY DEF ReviseReload, Goto, TypeOK, Stored, Op, Exp, persistent
<1>7. Copies(p)'
  BY <1>1, <1>5, <1>6 DEF Copies, Upholds
<1>8. StepOf(p)
  BY <1>1, <1>6 DEF ReviseReload, StepOf, Pcs, RevisePcs, persistent
<1>. QED BY <1>1, <1>3, <1>4, <1>7, <1>8, MemoryStep DEF ReviseReload, persistent

LEMMA PlanRevisedKeeps ==
    ASSUME TypeOK, Discipline, Discipline', LockedInv, NEW p \in Requests, PlanRevised(p)
    PROVE  /\ LockedInv' /\ StepOf(p) /\ Working(p) /\ Own(p) \in State
           /\ Own(p)' = SetPlan(Own(p), [round |-> plan[p].round, applied |-> FALSE])
<1>. DEFINE pl == [round |-> plan[p].round, applied |-> FALSE]
<1>1. Working(p) /\ pc[p] # "new" /\ Op(p) = "revise"
  BY WorkersWork DEF PlanRevised, RevisePcs, Discipline, OpPcs
<1>2. Own(p)' = SetPlan(Own(p), pl)
  BY TwoCells DEF PlanRevised, LockedInv, OwnCells, Own, TypeOK
<1>3. pl \in PlanRecord /\ Upholds(Own(p), Stored(p)) /\ Own(p) \in State
  BY TwoCells DEF PlanRevised, LockedInv, Copies, PlanRecord, TypeOK, Own
<1>4. Upholds(Own(p)', Stored(p))
  BY <1>2, <1>3, PlanUpholds
<1>5. /\ pc' = [pc EXCEPT ![p] = "save"] /\ pc'[p] = "save"
      /\ Stored(p)' = Stored(p) /\ Op(p)' = Op(p)
  BY DEF PlanRevised, Goto, TypeOK, Stored, Op, Exp, persistent
<1>6. Copies(p)'
  BY <1>1, <1>4, <1>5 DEF Copies, Upholds, PlanPcs
<1>7. StepOf(p)
  BY <1>1, <1>5 DEF PlanRevised, StepOf, Pcs, persistent
<1>. QED BY <1>1, <1>2, <1>3, <1>6, <1>7, MemoryStep DEF PlanRevised, persistent, locals
(* The object a handler saves at its end.                                    *)
LastCopy(p) == IF Op(p) = "approve" THEN Outer(p) ELSE Own(p)

LEMMA SaveAndReturnKeeps ==
    ASSUME TypeOK, Discipline, Discipline', LockedInv, NEW p \in Requests, SaveAndReturn(p)
    PROVE  /\ LockedInv' /\ StepOf(p) /\ Working(p) /\ pc'[p] = "done"
           /\ Save(Exp(p), LastCopy(p)) /\ LastCopy(p) \in State
           /\ Upholds(LastCopy(p), Stored(p))
<1>1. Working(p) /\ pc[p] # "new" /\ Exp(p) \in Experiments
  BY WorkersWork, ReqType DEF SaveAndReturn
<1>2. Save(Exp(p), LastCopy(p)) /\ LastCopy(p) \in State
  BY TwoCells DEF SaveAndReturn, LockedInv, OwnCells, Own, Outer, LastCopy, TypeOK
<1>3. Upholds(LastCopy(p), Stored(p))
  BY DEF SaveAndReturn, LockedInv, Copies, LastCopy
<1>4. pc' = [pc EXCEPT ![p] = "done"] /\ pc'[p] = "done"
  BY DEF SaveAndReturn, Return, Goto, TypeOK
<1>5. StepOf(p)
  BY <1>1, <1>2, <1>4, SavedIs DEF SaveAndReturn, StepOf, Pcs
<1>6. Copies(p)'
  BY <1>4 DEF Copies, PlanPcs
<1>7. Stored(p).round <= LastCopy(p).round
  BY <1>1, <1>2, <1>3 DEF Upholds, State, Stored, TypeOK
<1>8. LockedInv'
  BY <1>1, <1>2, <1>3, <1>5, <1>6, <1>7, SaveStep DEF SaveAndReturn, locals, Upholds
<1>. QED BY <1>1, <1>2, <1>3, <1>4, <1>5, <1>8

LEMMA CreateKeeps ==
    ASSUME TypeOK, Discipline, Discipline', LockedInv, NEW p \in Requests, CreateExperiment(p)
    PROVE  /\ LockedInv' /\ StepOf(p) /\ Working(p) /\ pc'[p] = "done"
           /\ Stored(p).status = "absent" /\ Stored(p).round = 0
           /\ Save(Exp(p), NewState("setup")) /\ NewState("setup") \in State
<1>1. Working(p) /\ pc[p] # "new" /\ Exp(p) \in Experiments
  BY WorkersWork, ReqType DEF CreateExperiment
<1>2. NewState("setup") \in State /\ Save(Exp(p), NewState("setup"))
  BY NewStateType DEF CreateExperiment, Statuses
<1>3. Stored(p).status = "absent" /\ Stored(p).round = 0
  <2>1. Stored(p).status = "absent"
    BY DEF CreateExperiment, LockedInv, Births, Discipline, OpPcs
  <2>. QED BY <1>1, <2>1 DEF LockedInv, CompleteRounds, Stored
<1>4. pc' = [pc EXCEPT ![p] = "done"] /\ pc'[p] = "done"
  BY DEF CreateExperiment, Return, Goto, TypeOK
<1>5. StepOf(p)
  BY <1>1, <1>2, <1>4, SavedIs DEF CreateExperiment, StepOf, Pcs
<1>6. Copies(p)'
  BY <1>4 DEF Copies, PlanPcs
<1>7. LockedInv'
  BY <1>1, <1>2, <1>3, <1>5, <1>6, SaveStep
     DEF CreateExperiment, locals, NewState
<1>. QED BY <1>1, <1>2, <1>3, <1>4, <1>5, <1>7

LEMMA LoadRoundKeeps ==
    ASSUME TypeOK, Discipline, Discipline', LockedInv, NEW p \in Requests, LoadRound(p)
    PROVE  /\ LockedInv' /\ StepOf(p) /\ Working(p)
           /\ pc'[p] \in {"run", "plan_phase", "announce_error", "done"}
           /\ pc'[p] = "run" => plan'[p] = [round |-> cur'[p], applied |-> TRUE]
<1>. DEFINE c == <<p, "own">>
            h == [heap EXCEPT ![c] = Stored(p)]
            s == [Stored(p) EXCEPT !.status = IF @ = "setup" THEN "running" ELSE @]
            ready == s.planRound = s.round + 1 /\ s.planApplied
<1>1. Working(p) /\ pc[p] # "new" /\ Op(p) # "create"
  BY WorkersWork DEF LoadRound, RoundPcs, Discipline, OpPcs
<1>2. Fetched(p, c) = c /\ HeapWith(p, c) = h
  BY <1>1, FetchCopies DEF LoadRound, RoundPcs, LockedInv
<1>3. h[c] = Stored(p) /\ h \in [Cells -> State] /\ Stored(p) \in State
      /\ Stored(p).status # "absent"
  BY <1>1, StoredUpholds, TwoCells DEF TypeOK, Upholds
<1>4. /\ s \in State /\ s.round = Stored(p).round /\ s.status # "absent"
      /\ s.planRound = Stored(p).planRound /\ s.planApplied = Stored(p).planApplied
      /\ [s EXCEPT !.dirty = TRUE].status = s.status
  BY <1>3 DEF State, Statuses
<1>5. /\ UNCHANGED <<ptr, outer, store, appliedRows, records, req>>
      /\ cur' = [cur EXCEPT ![p] = s.round + 1]
  BY <1>2, <1>3, PtrIsOwn DEF LoadRound, persistent
<1>6. CASE StepAllowed(Exp(p), s)
  <2>1. /\ heap' = [h EXCEPT ![c] = [s EXCEPT !.dirty = TRUE]]
        /\ plan' = [plan EXCEPT ![p] = IF ready THEN PlanOf(s) ELSE NoPlan]
        /\ Goto(p, IF ready THEN "run" ELSE "plan_phase")
    BY <1>2, <1>3, <1>6 DEF LoadRound
  <2>. HIDE DEF s, h
  <2>2. Own(p)'.status # "absent"
    BY <1>3, <1>4, <2>1, TwoCells DEF Own
  <2>3. /\ pc' = [pc EXCEPT ![p] = pc'[p]] /\ pc'[p] \in {"run", "plan_phase"}
        /\ pc'[p] = "run" => ready
    BY <2>1 DEF Goto, TypeOK
  <2>4. cur'[p] = Stored(p).round + 1
    BY <1>4, <1>5 DEF TypeOK
  <2>5. Copies(p)'
    <3>1. Stored(p)' = Stored(p)
      BY <1>5 DEF Stored, Exp
    <3>. QED BY <2>2, <2>3, <2>4, <3>1 DEF Copies, PlanPcs
  <2>6. StepOf(p)
    BY <1>1, <1>5, <2>3 DEF StepOf, Pcs, RoundPcs
  <2>7. pc'[p] = "run" => plan'[p] = [round |-> cur'[p], applied |-> TRUE]
    <3>1. s.planApplied \in BOOLEAN
      BY <1>4 DEF State
    <3>. QED BY <1>4, <2>1, <2>3, <2>4, <3>1 DEF TypeOK, PlanOf
  <2>. QED BY <1>1, <1>5, <2>3, <2>5, <2>6, <2>7, MemoryStep
<1>7. CASE ~StepAllowed(Exp(p), s)
  <2>1. FailRound(p)
    BY <1>2, <1>3, <1>7 DEF LoadRound
  <2>2. pc' = [pc EXCEPT ![p] = pc'[p]] /\ pc'[p] \in {"announce_error", "done"}
    BY <2>1 DEF FailRound, Goto, TypeOK
  <2>3. Copies(p)' /\ StepOf(p)
    BY <1>1, <1>5, <2>2 DEF StepOf, Copies, Pcs, PlanPcs
  <2>. QED BY <1>1, <1>5, <2>2, <2>3, MemoryStep
<1>. QED BY <1>6, <1>7

LEMMA PlanPhaseKeeps ==
    ASSUME TypeOK, Discipline, Discipline', LockedInv, NEW p \in Requests, PlanPhase(p)
    PROVE  LockedInv' /\ StepOf(p) /\ Working(p)
<1>1. Working(p) /\ pc[p] # "new"
  BY WorkersWork DEF PlanPhase, RoundPcs
<1>2. PICK r \in {cur[p]} \cup StrayRounds :
        heap' = [heap EXCEPT ![<<p, "own">>] = SetPlan(@, [round |-> r, applied |-> TRUE])]
  BY DEF PlanPhase, LockedInv, OwnCells
<1>3. [round |-> r, applied |-> TRUE] \in PlanRecord
  <2>1. cur[p] \in Nat
    BY DEF TypeOK
  <2>2. r \in Nat
    BY <1>2, <2>1, RuntimeAssumption
  <2>. QED BY <2>2 DEF PlanRecord
<1>4. Own(p)'.status = Own(p).status
  <2>1. Own(p) \in State /\ Own(p)' = SetPlan(Own(p), [round |-> r, applied |-> TRUE])
    BY <1>2, TwoCells DEF Own, TypeOK
  <2>. QED BY <1>3, <2>1, SetPlanIs
<1>5. /\ pc' = [pc EXCEPT ![p] = "run"] /\ pc'[p] = "run"
      /\ Stored(p)' = Stored(p) /\ cur' = cur
  BY DEF PlanPhase, Goto, TypeOK, Stored, Exp, persistent
<1>6. Copies(p)'
  BY <1>4, <1>5 DEF PlanPhase, LockedInv, Copies, PlanPcs
<1>7. StepOf(p)
  BY <1>1, <1>5 DEF PlanPhase, StepOf, Pcs, RoundPcs, persistent
<1>. QED BY <1>1, <1>6, <1>7, MemoryStep DEF PlanPhase, persistent

LEMMA FinalisedIs ==
    ASSUME TypeOK, NEW p \in Requests, NEW s \in State, NEW collapsed \in BOOLEAN
    PROVE  /\ Finalised(s, p, collapsed).round = cur[p]
           /\ ~Finalised(s, p, collapsed).dirty
           /\ s.status # "absent" => Finalised(s, p, collapsed).status # "absent"
           /\ Finalised(s, p, collapsed).planRound = plan[p].round
           /\ Finalised(s, p, collapsed).planApplied = plan[p].applied
<1>1. SetPlan(s, plan[p]) \in State /\ plan[p] \in PlanRecord
  BY SetPlanType DEF TypeOK
<1>. QED BY <1>1, SetPlanIs DEF Finalised, State

LEMMA FinaliseKeeps ==
    ASSUME TypeOK, Discipline, Discipline', LockedInv, NEW p \in Requests, FinaliseRound(p)
    PROVE  /\ LockedInv' /\ StepOf(p) /\ Working(p)
           /\ Own(p)'.planRound = plan[p].round /\ Own(p)'.planApplied = plan[p].applied
           /\ Own(p)'.round = cur[p]
<1>1. Working(p) /\ pc[p] # "new"
  BY WorkersWork DEF FinaliseRound, RoundPcs
<1>2. PICK collapsed \in BOOLEAN :
        heap' = [heap EXCEPT ![<<p, "own">>] = Finalised(@, p, collapsed)]
  BY DEF FinaliseRound, LockedInv, OwnCells
<1>3. /\ Own(p)' = Finalised(Own(p), p, collapsed) /\ Own(p) \in State
      /\ collapsed \in BOOLEAN
  BY <1>2, TwoCells DEF Own, TypeOK
<1>4. /\ Own(p)'.round = cur[p] /\ ~Own(p)'.dirty
      /\ Own(p).status # "absent" => Own(p)'.status # "absent"
      /\ Own(p)'.planRound = plan[p].round /\ Own(p)'.planApplied = plan[p].applied
  BY <1>3, FinalisedIs
<1>5. /\ pc' = [pc EXCEPT ![p] = "save_round"] /\ pc'[p] = "save_round"
      /\ Stored(p)' = Stored(p) /\ cur' = cur
  BY DEF FinaliseRound, Goto, TypeOK, Stored, Exp, persistent, locals
<1>6. Copies(p)'
  <2>1. Own(p).status # "absent" /\ cur[p] = Stored(p).round + 1
    BY DEF FinaliseRound, LockedInv, Copies
  <2>. QED BY <1>4, <1>5, <2>1 DEF Copies, PlanPcs
<1>7. StepOf(p)
  BY <1>1, <1>5 DEF FinaliseRound, StepOf, Pcs, RoundPcs, persistent
<1>8. LockedInv'
  BY <1>1, <1>6, <1>7, MemoryStep DEF FinaliseRound, persistent, locals
<1>. QED BY <1>1, <1>7, <1>8, <1>4

LEMMA SaveRoundKeeps ==
    ASSUME TypeOK, Discipline, Discipline', LockedInv, NEW p \in Requests, SaveRound(p)
    PROVE  /\ LockedInv' /\ StepOf(p) /\ Working(p)
           /\ Save(Exp(p), Own(p)) /\ Own(p) \in State
           /\ Own(p).round = Stored(p).round + 1 /\ Exp(p) \in Experiments
<1>1. Working(p) /\ pc[p] # "new" /\ Exp(p) \in Experiments
  BY WorkersWork, ReqType DEF SaveRound, RoundPcs
<1>2. Save(Exp(p), Own(p)) /\ Own(p) \in State
  BY TwoCells DEF SaveRound, LockedInv, OwnCells, Own, TypeOK
<1>3. /\ Own(p).round = cur[p] /\ ~Own(p).dirty /\ Own(p).status # "absent"
      /\ cur[p] = Stored(p).round + 1 /\ Stored(p).round \in Nat
  BY <1>1 DEF SaveRound, LockedInv, Copies, TypeOK, State, Stored
<1>4. store'[Exp(p)].round = cur[p]
  BY <1>1, <1>2, <1>3, SavedIs
<1>5. pc' = [pc EXCEPT ![p] = "record"] /\ pc'[p] = "record"
  BY DEF SaveRound, Goto, TypeOK
<1>6. StepOf(p)
  BY <1>1, <1>2, <1>5, SavedIs DEF SaveRound, StepOf, Pcs, RoundPcs
<1>7. Copies(p)'
  <2>1. \A t \in records[Exp(p)] : t[1] = "snapshot" => t[2] < cur[p]
    <3>1. \A t \in records[Exp(p)] : t[1] = "snapshot" => t[2] <= Stored(p).round /\ t[2] \in Nat
      BY <1>1 DEF LockedInv, CompleteRounds, Stored, TypeOK
    <3>. QED BY <1>3, <3>1
  <2>2. Exp(p)' = Exp(p) /\ records' = records /\ cur' = cur
    BY DEF SaveRound, Exp, locals
  <2>3. Stored(p)'.round = cur[p]
    BY <1>4, <2>2 DEF Stored
  <2>. QED BY <1>3, <1>5, <2>1, <2>2, <2>3 DEF Copies, PlanPcs
<1>8. LockedInv'
  BY <1>1, <1>2, <1>3, <1>6, <1>7, SaveStep DEF SaveRound, locals
<1>. QED BY <1>1, <1>2, <1>3, <1>6, <1>8
LEMMA RecordRoundKeeps ==
    ASSUME TypeOK, Discipline, Discipline', LockedInv, NEW p \in Requests,
           RecordRound(p) \/ LogRound(p)
    PROVE  LockedInv' /\ StepOf(p) /\ Working(p)
<1>1. /\ Working(p) /\ pc[p] # "new" /\ Exp(p) \in Experiments
      /\ UNCHANGED <<req, store, appliedRows, heap, ptr, outer, cur>>
  BY WorkersWork, ReqType DEF RecordRound, LogRound, RoundPcs, locals
<1>2. /\ pc' = [pc EXCEPT ![p] = pc'[p]] /\ pc'[p] \in {"log", "announce"}
  BY DEF RecordRound, LogRound, Goto, TypeOK
<1>3. \A e \in Experiments \ {Exp(p)} : records'[e] = records[e]
  BY <1>1 DEF RecordRound, LogRound, Record, TypeOK
<1>4. StepOf(p)
  BY <1>1, <1>2, <1>3 DEF StepOf, Pcs, RoundPcs
<1>5. \A t \in records'[Exp(p)] : t[1] = "snapshot" => t[2] <= store[Exp(p)].round
  <2>1. CASE RecordRound(p)
    <3>1. records'[Exp(p)] = records[Exp(p)] \cup {<<"snapshot", cur[p], p>>}
      BY <1>1, <2>1 DEF RecordRound, Record, TypeOK
    <3>2. cur[p] = store[Exp(p)].round /\ cur[p] \in Nat
      BY <2>1 DEF RecordRound, LockedInv, Copies, Stored, TypeOK
    <3>. QED BY <1>1, <3>1, <3>2 DEF LockedInv, CompleteRounds
  <2>2. CASE LogRound(p)
    <3>1. records'[Exp(p)] = records[Exp(p)] \cup {<<"round_end", cur[p], p>>}
      BY <1>1, <2>2 DEF LogRound, Record, TypeOK
    <3>. QED BY <1>1, <3>1 DEF LockedInv, CompleteRounds
  <2>. QED BY <2>1, <2>2
<1>6. CompleteRounds'
  BY <1>1, <1>3, <1>5 DEF LockedInv, CompleteRounds
<1>7. Alone' /\ OwnCells'
  BY <1>1, <1>4, AloneKept DEF LockedInv, Working, OwnCells
<1>8. Births'
  BY <1>1, <1>4 DEF LockedInv, Births, StepOf, Stored, Op, Exp, TypeOK
<1>9. \A q \in Requests : Copies(q)'
  <2>1. Copies(p)'
    BY <1>2 DEF Copies, PlanPcs
  <2>. QED BY <1>1, <1>4, <2>1, OthersIdle DEF LockedInv
<1>. QED BY <1>1, <1>4, <1>6, <1>7, <1>8, <1>9 DEF LockedInv

LEMMA FailureKeeps ==
    ASSUME TypeOK, Discipline, Discipline', LockedInv, NEW p \in Requests,
           RoundFails(p) \/ RequestFails(p)
    PROVE  /\ LockedInv' /\ StepOf(p) /\ Working(p)
           /\ pc'[p] \in {"announce_error", "done"}
           /\ UNCHANGED <<store, appliedRows, records>>
<1>1. /\ Working(p) /\ pc[p] # "new"
      /\ UNCHANGED <<req, store, appliedRows, records, heap, ptr, outer>>
  BY WorkersWork
     DEF RoundFails, RequestFails, RoundPcs, RevisePcs, PlanPcs, persistent, locals
<1>2. pc' = [pc EXCEPT ![p] = pc'[p]] /\ pc'[p] \in {"announce_error", "done"}
  BY DEF RoundFails, RequestFails, FailRound, Return, Goto, TypeOK, Pcs, RoundPcs,
         RevisePcs, PlanPcs
<1>3. Copies(p)' /\ StepOf(p)
  BY <1>1, <1>2 DEF StepOf, Copies, Pcs, PlanPcs
<1>. QED BY <1>1, <1>2, <1>3, MemoryStep

-----------------------------------------------------------------------------
(* Steps that neither read a state nor write one.                            *)

Quiet(p) ==
    /\ UNCHANGED <<store, appliedRows, records, heap, ptr, outer, plan, cur>>
    /\ pc' = [pc EXCEPT ![p] = pc'[p]]
    /\ \A q \in Requests \ {p} : req'[q] = req[q]

(* Where a request holds no copy.                                            *)
EmptyPcs == {"new", "called", "check", "start_step", "want_lock", "create",
             "load_round", "announce", "announce_error", "finished", "done"}

LEMMA QuietCopies ==
    ASSUME TypeOK, LockedInv, NEW p \in Requests, Quiet(p),
           pc'[p] \in EmptyPcs \/ (pc'[p] = "plan_lookup" /\ Op(p)' # "approve")
    PROVE  OwnCells' /\ CompleteRounds' /\ \A q \in Requests : Copies(q)'
<1>1. OwnCells' /\ CompleteRounds'
  BY DEF Quiet, LockedInv, OwnCells, CompleteRounds
<1>2. Copies(p)'
  BY DEF Copies, EmptyPcs, PlanPcs
<1>3. ASSUME NEW q \in Requests, q # p PROVE Copies(q)'
  <2>1. pc'[q] = pc[q] /\ req'[q] = req[q]
    BY <1>3 DEF Quiet, TypeOK
  <2>2. /\ Own(q)' = Own(q) /\ Outer(q)' = Outer(q) /\ Stored(q)' = Stored(q)
        /\ Op(q)' = Op(q) /\ Exp(q)' = Exp(q) /\ cur' = cur /\ records' = records
    BY <2>1 DEF Quiet, Own, Outer, Stored, Op, Exp
  <2>3. Copies(q)
    BY DEF LockedInv
  <2>. QED BY <2>1, <2>2, <2>3 DEF Copies, Upholds
<1>. QED BY <1>1, <1>2, <1>3

(* A request that is under way moves on, without touching anything.          *)
LEMMA QuietStep ==
    ASSUME TypeOK, LockedInv, NEW p \in Requests, Quiet(p), UNCHANGED req,
           InFlight(p), pc'[p] \in EmptyPcs \/ (pc'[p] = "plan_lookup" /\ Op(p) # "approve"),
           pc'[p] # "new",
           pc'[p] \in {"want_lock", "create"} => Op(p) # "create" \/ pc[p] = "want_lock"
    PROVE  LockedInv'
<1>1. OwnCells' /\ CompleteRounds' /\ \A q \in Requests : Copies(q)'
  BY QuietCopies DEF Op
<1>2. Alone'
  BY DEF LockedInv, Alone, Quiet, InFlight, Op, TypeOK
<1>3. Births'
  BY DEF LockedInv, Births, Quiet, InFlight, Stored, Op, Exp, TypeOK
<1>. QED BY <1>1, <1>2, <1>3 DEF LockedInv

LEMMA QuietShapes ==
    ASSUME TypeOK, Discipline, NEW p \in Requests,
           AcquireLock(p) \/ CheckStep(p) \/ SpawnStep(p) \/ Announce(p) \/ StepDone(p)
    PROVE  /\ Quiet(p) /\ UNCHANGED req /\ InFlight(p) /\ pc'[p] # "new"
           /\ pc'[p] \in EmptyPcs \/ (pc'[p] = "plan_lookup" /\ Op(p) # "approve")
           /\ pc'[p] \in {"want_lock", "create"} => Op(p) # "create" \/ pc[p] = "want_lock"
<1>1. CASE AcquireLock(p)
  BY <1>1 DEF AcquireLock, Quiet, InFlight, EmptyPcs, Goto, TypeOK, persistent, locals
<1>2. CASE CheckStep(p) \/ SpawnStep(p)
  <2>1. /\ Op(p) = "start_step" /\ InFlight(p)
        /\ \E l \in {"done", "start_step", "want_lock"} : pc' = [pc EXCEPT ![p] = l]
    BY <1>2 DEF CheckStep, SpawnStep, StartStep, Goto, InFlight, Discipline, OpPcs
  <2>2. UNCHANGED <<req, store, appliedRows, records, heap, ptr, outer, plan, cur>>
    BY <1>2 DEF CheckStep, SpawnStep, persistent, locals
  <2>. QED BY <2>1, <2>2 DEF Quiet, EmptyPcs, TypeOK
<1>3. CASE Announce(p) \/ StepDone(p)
  BY <1>3 DEF Announce, StepDone, Quiet, InFlight, EmptyPcs, Goto, TypeOK, persistent, locals
<1>. QED BY <1>1, <1>2, <1>3

LEMMA CallKeeps ==
    ASSUME TypeOK, LockedInv, LockedClients, NEW p \in Requests, Call(p)
    PROVE  LockedInv' /\ Quiet(p) /\ pc'[p] \in EmptyPcs \cup {"plan_lookup"}
<1>1. PICK o \in Ops, e \in Experiments :
        /\ \A q \in Requests : InFlight(q) => {o, Op(q)} \subseteq Concurrent
        /\ IF o = "create"
           THEN /\ store[e].status = "absent"
                /\ \A q \in Requests : req[q] # [op |-> "create", exp |-> e]
           ELSE store[e].status # "absent"
        /\ req' = [req EXCEPT ![p] = [op |-> o, exp |-> e]]
        /\ Goto(p, FirstPc(o))
  BY DEF Call
<1>2. /\ Quiet(p) /\ req'[p] = [op |-> o, exp |-> e] /\ pc'[p] = FirstPc(o)
      /\ pc[p] = "new" /\ \A q \in Requests \ {p} : req'[q] = req[q] /\ pc'[q] = pc[q]
  BY <1>1 DEF Call, Quiet, Goto, TypeOK, persistent, locals
<1>3. pc'[p] \in EmptyPcs \/ (pc'[p] = "plan_lookup" /\ Op(p)' # "approve")
  BY <1>2 DEF FirstPc, EmptyPcs, Op
<1>4. Op(p)' = o /\ Exp(p)' = e
  BY <1>2 DEF Op, Exp
<1>5. Alone'
  <2>1. \A q \in Requests \ {p} : InFlight(q)' => {o, Op(q)} \subseteq LockedOps
    BY <1>1, <1>2 DEF InFlight, LockedClients
  <2>. QED BY <1>2, <1>4, <2>1 DEF LockedInv, Alone, InFlight, Op
<1>6. Births'
  <2>1. store' = store
    BY <1>2 DEF Quiet
  <2>2. \A q \in Requests \ {p} : Op(q)' = Op(q) /\ Exp(q)' = Exp(q)
    BY <1>2 DEF Op, Exp
  <2>3. ASSUME NEW q \in Requests, pc'[q] # "new", Op(q)' # "create"
        PROVE  store[Exp(q)'].status # "absent"
    BY <1>1, <1>2, <1>4, <2>2, <2>3 DEF LockedInv, Births, Stored
  <2>4. ASSUME NEW q \in Requests, Op(q)' = "create", pc'[q] \in {"want_lock", "create"}
        PROVE  store[Exp(q)'].status = "absent"
    BY <1>1, <1>2, <1>4, <2>2, <2>4 DEF LockedInv, Births, Stored
  <2>5. ASSUME NEW q \in Requests, NEW r \in Requests, Op(q)' = "create", req'[q] = req'[r]
        PROVE  q = r
    <3>1. CASE q = p \/ r = p
      BY <1>1, <1>2, <2>5, <3>1 DEF Op
    <3>2. CASE q # p /\ r # p
      BY <1>2, <2>2, <2>5, <3>2 DEF LockedInv, Births
    <3>. QED BY <3>1, <3>2
  <2>. QED BY <2>1, <2>3, <2>4, <2>5 DEF Births, Stored
<1>. QED BY <1>2, <1>3, <1>5, <1>6, QuietCopies DEF LockedInv

(* After a restart nobody is left to hold a copy.                            *)
LEMMA RestartKeeps ==
    ASSUME TypeOK, LockedInv, Restart
    PROVE  LockedInv' /\ \A q \in Requests : pc'[q] \in {"new", "done"}
<1>1. \A q \in Requests : pc'[q] \in {"new", "done"} /\ (pc'[q] # "new" => pc[q] # "new")
  BY DEF Restart, InFlight, TypeOK
<1>2. UNCHANGED <<store, records, ptr, outer, req>>
  BY DEF Restart, persistent, locals
<1>3. Alone' /\ OwnCells' /\ CompleteRounds'
  BY <1>1, <1>2 DEF LockedInv, Alone, InFlight, OwnCells, CompleteRounds
<1>4. Births'
  BY <1>1, <1>2 DEF LockedInv, Births, Stored, Op, Exp
<1>5. \A q \in Requests : Copies(q)'
  BY <1>1 DEF Copies, PlanPcs
<1>. QED BY <1>1, <1>3, <1>4, <1>5 DEF LockedInv
-----------------------------------------------------------------------------
(* Complete rounds.                                                          *)

LEMMA LockedInit == Init => LockedInv
<1>. SUFFICES ASSUME Init PROVE LockedInv
  OBVIOUS
<1>1. Alone /\ OwnCells /\ \A p \in Requests : Copies(p)
  BY DEF Init, Alone, InFlight, OwnCells, Copies, PlanPcs
<1>2. Births
  BY DEF Init, Births, Op
<1>3. CompleteRounds
  BY DEF Init, CompleteRounds, NewState
<1>. QED BY <1>1, <1>2, <1>3 DEF LockedInv

LEMMA LockedStep ==
    ASSUME LockedClients, TypeOK, Discipline, Discipline', LockedInv, [Next]_vars
    PROVE  LockedInv'
<1>1. ASSUME NEW p \in Requests, Call(p) PROVE LockedInv'
  BY <1>1, CallKeeps
<1>2. ASSUME NEW p \in Requests,
             AcquireLock(p) \/ CheckStep(p) \/ SpawnStep(p) \/ Announce(p) \/ StepDone(p)
      PROVE  LockedInv'
  BY <1>2, QuietShapes, QuietStep
<1>3. ASSUME NEW p \in Requests, Handler(p) PROVE LockedInv'
  BY <1>2, <1>3, CreateKeeps, MutateKeeps, SaveAndReturnKeeps, ApproveFetchKeeps,
     PlanLookupKeeps, PlanGeneratedKeeps, PlanSaveKeeps, PlanReturnedKeeps,
     ReviseReloadKeeps, PlanRevisedKeeps, LoadRoundKeeps, PlanPhaseKeeps,
     FinaliseKeeps, SaveRoundKeeps, RecordRoundKeeps
  DEF Handler
<1>4. ASSUME NEW p \in Requests, RoundFails(p) \/ RequestFails(p) PROVE LockedInv'
  BY <1>4, FailureKeeps
<1>5. CASE Restart
  BY <1>5, RestartKeeps
<1>6. CASE UNCHANGED vars
  <2>1. UNCHANGED <<store, records, heap, pc, req, ptr, outer, cur>>
    BY <1>6 DEF vars
  <2>. QED BY <2>1
       DEF LockedInv, Alone, InFlight, OwnCells, Births, CompleteRounds, Copies,
           Upholds, Own, Outer, Stored, Op, Exp
<1>. QED BY <1>1, <1>2, <1>3, <1>4, <1>5, <1>6 DEF Next

LEMMA LockedHolds == LockedClients => (Spec => []LockedInv)
<1>. SUFFICES ASSUME LockedClients PROVE Spec => []LockedInv
  OBVIOUS
<1>1. TypeOK /\ Discipline /\ Discipline' /\ LockedInv /\ [Next]_vars => LockedInv'
  BY LockedStep
<1>. QED BY <1>1, LockedInit, TypeCorrect, DisciplineHolds, PTL DEF Spec

(* Failures, restarts and handlers that overlap a round leave the store at    *)
(* the last complete round (test_runtime.py:186).                            *)
THEOREM RoundsAreComplete ==
    ASSUME LockedClients
    PROVE  Spec => []NoPartialRound
<1>1. LockedInv => NoPartialRound
  BY DEF LockedInv, CompleteRounds, NoPartialRound
<1>. QED BY <1>1, LockedHolds, PTL
-----------------------------------------------------------------------------
(* The history: one round after the other, one snapshot each.                *)

Rounds == [e \in Experiments |-> store[e].round]
SnapshotsOf(rows) == {<<t[2], t[3]>> : t \in {u \in rows : u[1] = "snapshot"}}
Snapshots == [e \in Experiments |-> SnapshotsOf(records[e])]

LEMMA CommitIs ==
    ASSUME NEW e \in Experiments, UNCHANGED Snapshots,
           Rounds' = [Rounds EXCEPT ![e] = @ + 1]
    PROVE  Ledger!Next
<1>1. Ledger!Commit(e)
  BY DEF Ledger!Commit, Rounds, Snapshots, SnapshotsOf
<1>. QED BY <1>1 DEF Ledger!Next

LEMMA SnapshotIs ==
    ASSUME NEW e \in Experiments, NEW w \in Requests,
           Rounds[e] > 0, \A t \in Snapshots[e] : t[1] < Rounds[e],
           Snapshots' = [Snapshots EXCEPT ![e] = @ \cup {<<Rounds[e], w>>}],
           UNCHANGED Rounds
    PROVE  Ledger!Next
<1>1. Ledger!Snapshot(e, w)
  BY DEF Ledger!Snapshot, Rounds, Snapshots, SnapshotsOf
<1>. QED BY <1>1 DEF Ledger!Next

LEMMA NoHistoryIs ==
    ASSUME UNCHANGED <<Rounds, Snapshots>>
    PROVE  UNCHANGED Ledger!ledger
BY DEF Ledger!ledger, Rounds, Snapshots, SnapshotsOf

LEMMA SameHistory ==
    ASSUME \A e \in Experiments : store'[e].round = store[e].round, UNCHANGED records
    PROVE  UNCHANGED Ledger!ledger
<1>1. UNCHANGED <<Rounds, Snapshots>>
  BY DEF Rounds, Snapshots
<1>. QED BY <1>1, NoHistoryIs

LEMMA SaveRoundCommits ==
    ASSUME TypeOK, Discipline, Discipline', LockedInv, NEW p \in Requests, SaveRound(p)
    PROVE  Ledger!Next
<1>1. /\ Exp(p) \in Experiments
      /\ store'[Exp(p)].round = store[Exp(p)].round + 1
      /\ \A e \in Experiments \ {Exp(p)} : store'[e] = store[e]
  BY SaveRoundKeeps, SavedIs DEF Stored
<1>2. UNCHANGED Snapshots
  BY DEF SaveRound, Snapshots
<1>3. Rounds' = [Rounds EXCEPT ![Exp(p)] = @ + 1]
  BY <1>1 DEF Rounds
<1>. QED BY <1>1, <1>2, <1>3, CommitIs

LEMMA RecordRoundSnapshots ==
    ASSUME TypeOK, LockedInv, NEW p \in Requests, RecordRound(p)
    PROVE  Ledger!Next
<1>1. Exp(p) \in Experiments
  BY ReqType DEF RecordRound
<1>2. /\ cur[p] = Rounds[Exp(p)] /\ cur[p] > 0
      /\ \A t \in records[Exp(p)] : t[1] = "snapshot" => t[2] < cur[p]
  BY <1>1 DEF RecordRound, LockedInv, Copies, Stored, Rounds
<1>3. \A t \in Snapshots[Exp(p)] : t[1] < Rounds[Exp(p)]
  BY <1>1, <1>2 DEF Snapshots, SnapshotsOf
<1>4. Snapshots' = [Snapshots EXCEPT ![Exp(p)] = @ \cup {<<Rounds[Exp(p)], p>>}]
  <2>1. records' = [records EXCEPT ![Exp(p)] = @ \cup {<<"snapshot", cur[p], p>>}]
    BY DEF RecordRound, Record
  <2>2. ASSUME NEW rows
        PROVE  SnapshotsOf(rows \cup {<<"snapshot", cur[p], p>>})
                 = SnapshotsOf(rows) \cup {<<cur[p], p>>}
    <3>. DEFINE t0 == <<"snapshot", cur[p], p>>
    <3>1. t0[1] = "snapshot" /\ <<t0[2], t0[3]>> = <<cur[p], p>>
      OBVIOUS
    <3>. HIDE DEF t0
    <3>2. SnapshotsOf(rows \cup {t0}) = SnapshotsOf(rows) \cup {<<t0[2], t0[3]>>}
      BY <3>1 DEF SnapshotsOf
    <3>. QED BY <3>1, <3>2 DEF t0
  <2>3. \A e \in Experiments : SnapshotsOf(records'[e]) =
          IF e = Exp(p) THEN SnapshotsOf(records[e]) \cup {<<cur[p], p>>}
          ELSE SnapshotsOf(records[e])
    BY <1>1, <2>1, <2>2 DEF TypeOK
  <2>. QED BY <1>1, <1>2, <2>3 DEF Snapshots
<1>5. UNCHANGED Rounds
  BY DEF RecordRound, Rounds
<1>. QED BY <1>1, <1>2, <1>3, <1>4, <1>5, SnapshotIs

LEMMA LogKeepsHistory ==
    ASSUME TypeOK, NEW p \in Requests, LogRound(p)
    PROVE  UNCHANGED Ledger!ledger
<1>1. records' = [records EXCEPT ![Exp(p)] = @ \cup {<<"round_end", cur[p], p>>}]
  BY DEF LogRound, Record
<1>2. ASSUME NEW rows
      PROVE  SnapshotsOf(rows \cup {<<"round_end", cur[p], p>>}) = SnapshotsOf(rows)
  BY DEF SnapshotsOf
<1>3. \A e \in Experiments : SnapshotsOf(records'[e]) = SnapshotsOf(records[e])
  BY <1>1, <1>2 DEF TypeOK
<1>4. UNCHANGED <<Rounds, Snapshots>>
  BY <1>3 DEF LogRound, Rounds, Snapshots
<1>. QED BY <1>4, NoHistoryIs

(* The saves that end no round keep the number of the round.                  *)
LEMMA SaveKeepsHistory ==
    ASSUME TypeOK, Discipline, Discipline', LockedInv, NEW p \in Requests,
           CreateExperiment(p) \/ SaveAndReturn(p) \/ PlanSave(p)
    PROVE  UNCHANGED Ledger!ledger
<1>1. PICK x \in State : Save(Exp(p), x) /\ x.round = Stored(p).round
  <2>1. CASE CreateExperiment(p)
    <3>1. NewState("setup").round = 0
      BY DEF NewState
    <3>. QED BY <2>1, <3>1, CreateKeeps
  <2>2. CASE SaveAndReturn(p)
    BY <2>2, SaveAndReturnKeeps DEF Upholds
  <2>3. CASE PlanSave(p)
    BY <2>3, PlanSaveKeeps DEF Upholds
  <2>. QED BY <2>1, <2>2, <2>3
<1>2. Exp(p) \in Experiments /\ UNCHANGED records
  BY ReqType DEF CreateExperiment, SaveAndReturn, PlanSave
<1>3. \A e \in Experiments : store'[e].round = store[e].round
  BY <1>1, <1>2, SavedIs DEF Stored
<1>. QED BY <1>2, <1>3, SameHistory

LEMMA LedgerStep ==
    ASSUME TypeOK, Discipline, Discipline', LockedInv, [Next]_vars
    PROVE  [Ledger!Next]_(Ledger!ledger)
<1>1. ASSUME NEW p \in Requests,
             CreateExperiment(p) \/ SaveAndReturn(p) \/ PlanSave(p)
      PROVE  UNCHANGED Ledger!ledger
  BY <1>1, SaveKeepsHistory
<1>2. ASSUME NEW p \in Requests, SaveRound(p) PROVE Ledger!Next
  BY <1>2, SaveRoundCommits
<1>3. ASSUME NEW p \in Requests, RecordRound(p) PROVE Ledger!Next
  BY <1>3, RecordRoundSnapshots
<1>4. ASSUME NEW p \in Requests, LogRound(p) PROVE UNCHANGED Ledger!ledger
  BY <1>4, LogKeepsHistory
<1>5. ASSUME UNCHANGED <<store, records>> PROVE UNCHANGED Ledger!ledger
  BY <1>5, SameHistory
<1>6. ASSUME NEW p \in Requests,
             \/ Call(p) \/ AcquireLock(p) \/ MutateState(p) \/ ApproveFetch(p)
             \/ PlanLookup(p) \/ PlanGenerated(p) \/ PlanReturned(p)
             \/ ReviseReload(p) \/ PlanRevised(p) \/ CheckStep(p) \/ SpawnStep(p)
             \/ LoadRound(p) \/ PlanPhase(p) \/ FinaliseRound(p) \/ Announce(p)
             \/ StepDone(p) \/ RoundFails(p) \/ RequestFails(p)
      PROVE  UNCHANGED <<store, records>>
  BY <1>6
  DEF Call, AcquireLock, MutateState, ApproveFetch, PlanLookup, PlanGenerated,
      PlanReturned, ReviseReload, PlanRevised, CheckStep, SpawnStep, LoadRound,
      PlanPhase, FinaliseRound, Announce, StepDone, RoundFails, RequestFails,
      persistent
<1>7. CASE Restart \/ UNCHANGED vars
  BY <1>5, <1>7 DEF Restart, vars, persistent
<1>. QED BY <1>1, <1>2, <1>3, <1>4, <1>5, <1>6, <1>7 DEF Next, Handler

(* The persisted history is RoundLedger's: rounds are committed one after the *)
(* other, none twice, none taken back, each with at most one snapshot, written *)
(* before the next is committed (runtime.py:404-463, store.py:144-161).      *)
THEOREM HistoryIsALedger ==
    ASSUME LockedClients
    PROVE  Spec => LedgerSpec
<1>1. Init => Ledger!Init
  <2>. SUFFICES ASSUME Init PROVE Ledger!Init
    OBVIOUS
  <2>1. Rounds = [e \in Experiments |-> 0]
    BY DEF Init, NewState, Rounds
  <2>2. Snapshots = [e \in Experiments |-> {}]
    BY DEF Init, Snapshots, SnapshotsOf
  <2>. QED BY <2>1, <2>2 DEF Ledger!Init, Rounds, Snapshots, SnapshotsOf
<1>2. TypeOK /\ Discipline /\ Discipline' /\ LockedInv /\ [Next]_vars
        => [Ledger!Next]_(Ledger!ledger)
  BY LedgerStep
<1>. QED BY <1>1, <1>2, TypeCorrect, DisciplineHolds, LockedHolds, PTL
     DEF Spec, LedgerSpec, Ledger!Spec
-----------------------------------------------------------------------------
(* The plans, when each carries the round it is made for.                    *)

LEMMA PlanOfIs ==
    ASSUME NEW s, NEW pl \in PlanRecord, PlanOf(s) = pl
    PROVE  s.planRound = pl.round /\ s.planApplied = pl.applied
BY DEF PlanOf, PlanRecord

LEMMA StateNumbers ==
    ASSUME NEW s \in State
    PROVE  s.round \in Nat /\ s.planRound \in Nat /\ s.planApplied \in BOOLEAN
BY DEF State

(* A save that succeeds the newest plan is the state the next load finds, and *)
(* keeps the plan rows in step with it.                                      *)
LEMMA SaveSucceeds ==
    ASSUME TypeOK, NewestPlan, NEW e \in Experiments, NEW x \in State,
           Save(e, x), Succeeds(x, store[e]), x.status # "absent"
    PROVE  NewestPlan' /\ store' = [store EXCEPT ![e] = x]
<1>. DEFINE d == store[e]
            rows == appliedRows[e]
<1>1. d \in State /\ rows \subseteq Nat
  BY DEF TypeOK
<1>2. /\ d.planRound \in Nat /\ x.planRound \in Nat /\ x.round \in Nat
      /\ x.planApplied \in BOOLEAN /\ d.planApplied \in BOOLEAN
  BY <1>1, StateNumbers
<1>3. Merged(d, x) = x
  BY <1>2 DEF Merged, Succeeds
<1>4. store' = [store EXCEPT ![e] = x] /\ store'[e] = x
  BY <1>3 DEF Save, TypeOK
<1>5. appliedRows'[e] = RowsAfter(rows, x)
  BY DEF Save, TypeOK
<1>6. /\ \A n \in rows : n <= d.planRound /\ n \in Nat
      /\ d.planApplied <=> d.planRound \in rows
      /\ d.planRound = 0 => ~d.planApplied
  BY <1>1 DEF NewestPlan
<1>7. \A n \in RowsAfter(rows, x) : n <= x.planRound
  <2>1. RowsAfter(rows, x) \subseteq rows \cup {x.planRound}
    BY DEF RowsAfter
  <2>2. \A n \in rows : n <= x.planRound
    BY <1>2, <1>6 DEF Succeeds
  <2>. QED BY <1>2, <2>1, <2>2
<1>8. x.planApplied <=> x.planRound \in RowsAfter(rows, x)
  <2>1. CASE x.planRound = 0
    <3>1. d.planRound = 0 /\ ~x.planApplied
      BY <1>2, <2>1 DEF Succeeds
    <3>. QED BY <1>6, <2>1, <3>1 DEF RowsAfter
  <2>2. CASE x.planRound # 0
    BY <2>2 DEF RowsAfter
  <2>. QED BY <2>1, <2>2
<1>9. \A f \in Experiments \ {e} : store'[f] = store[f] /\ appliedRows'[f] = appliedRows[f]
  BY SavedIs
<1>. QED BY <1>4, <1>5, <1>7, <1>8, <1>9 DEF NewestPlan, Succeeds

(* A step in p's own memory, or one of p's saves.                            *)
LEMMA PlanMemoryStep ==
    ASSUME TypeOK, Discipline, Discipline', LockedInv, PlanInv, NEW p \in Requests,
           Working(p), StepOf(p), UNCHANGED <<store, appliedRows>>, PlanCopies(p)'
    PROVE  PlanInv'
<1>1. NewestPlan'
  BY DEF PlanInv, NewestPlan
<1>. QED BY <1>1, OthersIdle DEF PlanInv, LockedInv

LEMMA PlanSaveStep ==
    ASSUME TypeOK, Discipline, Discipline', LockedInv, PlanInv, NEW p \in Requests,
           Working(p), StepOf(p), NEW x \in State, Save(Exp(p), x), x.status # "absent",
           Succeeds(x, Stored(p)), PlanCopies(p)'
    PROVE  PlanInv'
<1>1. Exp(p) \in Experiments
  BY ReqType DEF StepOf
<1>2. NewestPlan'
  BY <1>1, SaveSucceeds DEF PlanInv, Stored
<1>. QED BY <1>2, OthersIdle DEF PlanInv, LockedInv

(* What the store holds is succeeded by itself, and by a plan that is newer.  *)
LEMMA StoredSucceeds ==
    ASSUME TypeOK, NewestPlan, NEW e \in Experiments, NEW x,
           x.round = store[e].round, x.planRound = store[e].planRound,
           x.planApplied = store[e].planApplied
    PROVE  Succeeds(x, store[e])
<1>1. store[e].planRound \in Nat
  BY StateNumbers DEF TypeOK
<1>. QED BY <1>1 DEF NewestPlan, Succeeds

LEMMA UpcomingSucceeds ==
    ASSUME TypeOK, NewestPlan, NEW e \in Experiments, NEW x,
           x.planRound = store[e].round + 1, x.planRound <= x.round + 1,
           x.planApplied \/ store[e].planRound # x.planRound
    PROVE  Succeeds(x, store[e])
<1>1. store[e].planRound \in Nat /\ store[e].round \in Nat
  BY StateNumbers DEF TypeOK
<1>2. store[e].planRound <= x.planRound /\ x.planRound # 0
  BY <1>1 DEF NewestPlan
<1>. QED BY <1>2 DEF Succeeds

(* An approval writes the upcoming plan as applied; a revision goes on with a *)
(* plan that is not.                                                         *)
LEMMA WithPlanPlans ==
    ASSUME TypeOK, TruePlans, NewestPlan, NEW p \in Requests, pc[p] # "new",
           NEW h \in [Cells -> State], NEW pl \in PlanRecord,
           WithPlan(p, h, <<p, "outer">>, pl), UNCHANGED <<store, req>>,
           pl.round = Stored(p).round + 1,
           Op(p) = "approve" => Upholds(h[<<p, "outer">>], Stored(p))
    PROVE  /\ pc'[p] \in {"done", "save", "reload"}
           /\ pc'[p] = "save" =>
                Op(p) = "approve" /\ Succeeds(Outer(p)', Stored(p))
           /\ pc'[p] = "reload" => ~pl.applied
<1>1. CASE Op(p) # "approve"
  BY <1>1 DEF WithPlan, Return, Goto, TypeOK
<1>2. CASE Op(p) = "approve"
  <2>. DEFINE x == SetPlan(h[<<p, "outer">>], [round |-> pl.round, applied |-> TRUE])
  <2>1. heap' = [h EXCEPT ![<<p, "outer">>] = x] /\ pc'[p] = "save"
    BY <1>2 DEF WithPlan, TruePlans, Goto, TypeOK
  <2>2. Outer(p)' = x
    BY <2>1, TwoCells DEF Outer
  <2>3. [round |-> pl.round, applied |-> TRUE] \in PlanRecord
    BY DEF PlanRecord
  <2>4. h[<<p, "outer">>] \in State /\ h[<<p, "outer">>].round = Stored(p).round
    BY <1>2, TwoCells DEF Upholds
  <2>5. x.planRound = pl.round /\ x.planApplied /\ x.round = Stored(p).round
    BY <2>3, <2>4, SetPlanIs
  <2>. HIDE DEF x
  <2>6. Exp(p) \in Experiments /\ Stored(p).round \in Nat
    BY ReqType, StateNumbers DEF TypeOK, Stored
  <2>7. x.planRound <= x.round + 1
    BY <2>5, <2>6
  <2>8. Succeeds(x, Stored(p))
    BY <2>5, <2>6, <2>7, UpcomingSucceeds DEF Stored
  <2>. QED BY <1>2, <2>1, <2>2, <2>8
<1>. QED BY <1>1, <1>2
-----------------------------------------------------------------------------
(* The handlers again, with what they do to the plans.                       *)

LEMMA PlanLookupPlans ==
    ASSUME TypeOK, Discipline, Discipline', LockedInv, PlanInv, TruePlans,
           NEW p \in Requests, PlanLookup(p)
    PROVE  PlanInv'
<1>. DEFINE h == [heap EXCEPT ![<<p, "own">>] = Stored(p)]
<1>1. /\ StepOf(p) /\ Working(p) /\ pc[p] # "new"
      /\ LookupIn(p, h, <<p, "own">>, <<p, "outer">>)
      /\ cur'[p] = Stored(p).round + 1
      /\ Stored(p) \in State
      /\ UNCHANGED <<store, appliedRows, req>>
  BY PlanLookupKeeps DEF PlanLookup, persistent
<1>2. /\ h \in [Cells -> State] /\ h[<<p, "own">>] = Stored(p)
      /\ h[<<p, "outer">>] = Outer(p)
  BY <1>1, TwoCells DEF TypeOK, Outer
<1>3. Stored(p)' = Stored(p) /\ Op(p)' = Op(p)
  BY <1>1 DEF Stored, Op, Exp
<1>. HIDE DEF h
<1>4. CASE Stored(p).planRound = Stored(p).round + 1
  <2>. DEFINE pl == PlanOf(Stored(p))
  <2>1. WithPlan(p, h, <<p, "outer">>, pl) /\ plan'[p] = pl
    BY <1>1, <1>2, <1>4 DEF LookupIn, TypeOK
  <2>2. pl \in PlanRecord /\ pl.round = Stored(p).round + 1
    BY <1>1, <1>4, PlanOfType DEF PlanOf
  <2>3. Op(p) = "approve" => Upholds(h[<<p, "outer">>], Stored(p))
    BY <1>2 DEF PlanLookup, LockedInv, Copies, PlanPcs
  <2>. HIDE DEF pl
  <2>4. /\ pc'[p] \in {"done", "save", "reload"}
        /\ pc'[p] = "save" => Op(p) = "approve" /\ Succeeds(Outer(p)', Stored(p))
        /\ pc'[p] = "reload" => ~pl.applied
    BY <1>1, <1>2, <2>1, <2>2, <2>3, WithPlanPlans DEF PlanInv
  <2>5. PlanCopies(p)'
    BY <1>1, <1>3, <2>1, <2>2, <2>4 DEF PlanCopies, Upcoming, Succeeds, pl
  <2>. QED BY <1>1, <2>5, PlanMemoryStep
<1>5. CASE Stored(p).planRound # Stored(p).round + 1
  <2>1. pc'[p] = "generate"
    BY <1>1, <1>2, <1>5 DEF LookupIn, Goto, TypeOK
  <2>2. PlanCopies(p)'
    BY <1>1, <1>3, <1>5, <2>1 DEF PlanCopies, Upcoming
  <2>. QED BY <1>1, <2>2, PlanMemoryStep
<1>. QED BY <1>4, <1>5

LEMMA PlanGeneratedPlans ==
    ASSUME TypeOK, Discipline, Discipline', LockedInv, PlanInv, TruePlans,
           NEW p \in Requests, PlanGenerated(p)
    PROVE  PlanInv'
<1>. DEFINE pl == [round |-> cur[p], applied |-> Exp(p) \in AutoApprove]
<1>1. /\ StepOf(p) /\ Working(p) /\ UNCHANGED <<store, appliedRows, cur>>
      /\ pc'[p] = "save_plan" /\ pc[p] = "generate"
  BY PlanGeneratedKeeps DEF PlanGenerated, Goto, TypeOK, persistent
<1>2. /\ plan' = [plan EXCEPT ![p] = pl]
      /\ heap' = [heap EXCEPT ![<<p, "own">>] = SetPlan(@, pl)]
  BY DEF PlanGenerated, TruePlans, LockedInv, OwnCells
<1>3. pl \in PlanRecord /\ cur[p] \in Nat
  <2>1. cur[p] \in Nat
    BY DEF TypeOK
  <2>. QED BY <2>1 DEF PlanRecord
<1>4. Own(p)' = SetPlan(Own(p), pl) /\ Own(p) \in State /\ plan'[p] = pl
  BY <1>2, TwoCells DEF Own, TypeOK
<1>5. /\ Own(p)'.planRound = cur[p] /\ Own(p)'.planApplied = pl.applied
      /\ Own(p)'.round = Own(p).round
  BY <1>3, <1>4, SetPlanIs
<1>6. /\ cur[p] = Stored(p).round + 1 /\ Stored(p).planRound # cur[p]
      /\ Own(p).round = Stored(p).round
  BY <1>1 DEF PlanInv, PlanCopies, Upcoming, LockedInv, Copies, Upholds
<1>7. Exp(p) \in Experiments /\ Stored(p)' = Stored(p)
  BY <1>1, ReqType DEF Stored, StepOf, Exp
<1>8. Own(p)'.planRound <= Own(p)'.round + 1
  BY <1>3, <1>5, <1>6
<1>. HIDE DEF pl
<1>9. Succeeds(Own(p)', Stored(p))
  BY <1>5, <1>6, <1>7, <1>8, UpcomingSucceeds DEF PlanInv, Stored
<1>10. PlanOf(Own(p)') = pl /\ pl.round = cur[p]
  BY <1>5 DEF PlanOf, pl
<1>11. PlanCopies(p)'
  BY <1>1, <1>4, <1>6, <1>7, <1>9, <1>10 DEF PlanCopies, Upcoming, Succeeds, PlanOf
<1>. QED BY <1>1, <1>11, PlanMemoryStep

LEMMA PlanSavePlans ==
    ASSUME TypeOK, Discipline, Discipline', LockedInv, PlanInv,
           NEW p \in Requests, PlanSave(p)
    PROVE  PlanInv'
<1>1. /\ StepOf(p) /\ Working(p) /\ Save(Exp(p), Own(p)) /\ Own(p) \in State
      /\ Upholds(Own(p), Stored(p)) /\ Exp(p) \in Experiments
  BY PlanSaveKeeps, ReqType DEF StepOf
<1>2. /\ Succeeds(Own(p), Stored(p)) /\ Upcoming(p) /\ plan[p].round = cur[p]
      /\ PlanOf(Own(p)) = plan[p]
  BY DEF PlanSave, PlanInv, PlanCopies
<1>3. Stored(p)' = Own(p)
  <2>1. store' = [store EXCEPT ![Exp(p)] = Own(p)]
    BY <1>1, <1>2, SaveSucceeds DEF PlanInv, Stored, Upholds
  <2>. QED BY <1>1, <2>1 DEF StepOf, Stored, Exp, TypeOK
<1>4. pc'[p] = "plan_saved" /\ UNCHANGED <<cur, plan>>
  BY DEF PlanSave, Goto, TypeOK, locals
<1>5. PlanCopies(p)'
  BY <1>1, <1>2, <1>3, <1>4 DEF PlanCopies, Upcoming, Upholds
<1>. QED BY <1>1, <1>2, <1>5, PlanSaveStep DEF Upholds

LEMMA PlanReturnedPlans ==
    ASSUME TypeOK, Discipline, Discipline', LockedInv, PlanInv, TruePlans,
           NEW p \in Requests, PlanReturned(p)
    PROVE  PlanInv'
<1>1. /\ StepOf(p) /\ Working(p) /\ pc[p] # "new"
      /\ UNCHANGED <<store, appliedRows, req, cur, plan>>
  BY PlanReturnedKeeps DEF PlanReturned, persistent, locals
<1>2. /\ Upcoming(p) /\ plan[p].round = cur[p] /\ PlanOf(Stored(p)) = plan[p]
      /\ plan[p] \in PlanRecord
  BY DEF PlanReturned, PlanInv, PlanCopies, TypeOK
<1>3. WithPlan(p, heap, <<p, "outer">>, plan[p])
  BY DEF PlanReturned, LockedInv, OwnCells
<1>4. Op(p) = "approve" => Upholds(heap[<<p, "outer">>], Stored(p))
  BY DEF PlanReturned, LockedInv, Copies, PlanPcs, Outer
<1>5. /\ pc'[p] \in {"done", "save", "reload"}
      /\ pc'[p] = "save" => Op(p) = "approve" /\ Succeeds(Outer(p)', Stored(p))
      /\ pc'[p] = "reload" => ~plan[p].applied
  BY <1>1, <1>2, <1>3, <1>4, WithPlanPlans DEF PlanInv, Upcoming, TypeOK
<1>6. Stored(p)' = Stored(p) /\ Op(p)' = Op(p)
  BY <1>1 DEF Stored, Op, Exp
<1>7. PlanCopies(p)'
  BY <1>1, <1>2, <1>5, <1>6 DEF PlanCopies, Upcoming, Succeeds, PlanOf
<1>. QED BY <1>1, <1>7, PlanMemoryStep

LEMMA RevisePlans ==
    ASSUME TypeOK, Discipline, Discipline', LockedInv, PlanInv,
           NEW p \in Requests, ReviseReload(p) \/ PlanRevised(p)
    PROVE  PlanInv'
<1>1. /\ StepOf(p) /\ Working(p) /\ UNCHANGED <<store, appliedRows, req, cur, plan>>
      /\ Exp(p) \in Experiments /\ Op(p) = "revise"
  BY ReviseReloadKeeps, PlanRevisedKeeps, ReqType
  DEF ReviseReload, PlanRevised, StepOf, persistent, locals, Discipline, OpPcs, RevisePcs
<1>2. /\ Upcoming(p) /\ plan[p].round = cur[p] /\ PlanOf(Stored(p)) = plan[p]
      /\ ~plan[p].applied /\ plan[p] \in PlanRecord
  BY DEF ReviseReload, PlanRevised, PlanInv, PlanCopies, TypeOK
<1>3. Stored(p)' = Stored(p) /\ Op(p)' = Op(p)
  BY <1>1 DEF Stored, Op, Exp
<1>4. CASE ReviseReload(p)
  <2>1. pc'[p] = "revising"
    BY <1>4 DEF ReviseReload, Goto, TypeOK
  <2>2. PlanCopies(p)'
    BY <1>1, <1>2, <1>3, <2>1 DEF PlanCopies, Upcoming, PlanOf
  <2>. QED BY <1>1, <2>2, PlanMemoryStep
<1>5. CASE PlanRevised(p)
  <2>1. pc'[p] = "save"
    BY <1>5 DEF PlanRevised, Goto, TypeOK
  <2>2. [round |-> plan[p].round, applied |-> FALSE] \in PlanRecord
    BY <1>2 DEF PlanRecord
  <2>3. /\ Own(p)'.planRound = plan[p].round /\ ~Own(p)'.planApplied
        /\ Own(p)'.round = Own(p).round
    BY <1>5, <2>2, PlanRevisedKeeps, SetPlanIs
  <2>4. Own(p).round = Stored(p).round
    BY <1>5 DEF PlanRevised, LockedInv, Copies, Upholds
  <2>5. Stored(p).planRound = plan[p].round /\ Stored(p).planApplied = plan[p].applied
    BY <1>2, PlanOfIs
  <2>6. Stored(p).planApplied \in BOOLEAN /\ Stored(p).planApplied = FALSE
    BY <1>1, <1>2, <2>5, StateNumbers DEF PlanRecord, TypeOK, Stored
  <2>7. Succeeds(Own(p)', Stored(p))
    BY <1>1, <2>3, <2>4, <2>5, <2>6, StoredSucceeds DEF PlanInv, Stored, Succeeds, NewestPlan
  <2>8. PlanCopies(p)'
    BY <1>1, <1>3, <2>1, <2>7 DEF PlanCopies, Succeeds
  <2>. QED BY <1>1, <2>8, PlanMemoryStep
<1>. QED BY <1>4, <1>5

(* Where a request has no plan in hand.                                      *)
LEMMA NoPlanInHand ==
    ASSUME NEW p \in Requests,
           pc'[p] \in EmptyPcs \cup {"plan_lookup", "plan_phase", "record", "log"}
    PROVE  PlanCopies(p)'
BY DEF PlanCopies, EmptyPcs

(* start, pause, inject, update_arc: the plan is saved as it was found.       *)
LEMMA MutatePlans ==
    ASSUME TypeOK, Discipline, Discipline', LockedInv, PlanInv,
           NEW p \in Requests, MutateState(p)
    PROVE  PlanInv'
<1>1. /\ StepOf(p) /\ Working(p) /\ UNCHANGED <<store, appliedRows, req>>
      /\ Own(p)' = Mutated(p, Stored(p))
      /\ pc'[p] = "save" /\ pc[p] # "new" /\ Op(p) \notin {"approve", "create"}
  BY MutateKeeps DEF MutateState, Goto, TypeOK, persistent
<1>2. /\ Exp(p) \in Experiments /\ Stored(p)' = Stored(p) /\ Op(p)' = Op(p)
      /\ Stored(p) \in State /\ Upholds(Stored(p), Stored(p))
  BY <1>1, StoredUpholds DEF Stored, Op, Exp
<1>3. /\ Own(p)'.round = Stored(p).round /\ Own(p)'.planRound = Stored(p).planRound
      /\ Own(p)'.planApplied = Stored(p).planApplied
  BY <1>1, <1>2, MutatedUpholds DEF Upholds
<1>4. Succeeds(Own(p)', Stored(p))
  BY <1>2, <1>3, StoredSucceeds DEF PlanInv, Stored
<1>5. PlanCopies(p)'
  BY <1>1, <1>2, <1>4 DEF PlanCopies, Succeeds
<1>. QED BY <1>1, <1>5, PlanMemoryStep

LEMMA ApproveFetchPlans ==
    ASSUME TypeOK, Discipline, Discipline', LockedInv, PlanInv,
           NEW p \in Requests, ApproveFetch(p)
    PROVE  PlanInv'
<1>1. /\ StepOf(p) /\ Working(p) /\ UNCHANGED <<store, appliedRows>>
      /\ pc'[p] = "plan_lookup"
  BY ApproveFetchKeeps DEF ApproveFetch, persistent
<1>2. PlanCopies(p)'
  BY <1>1, NoPlanInHand
<1>. QED BY <1>1, <1>2, PlanMemoryStep

LEMMA SaveAndReturnPlans ==
    ASSUME TypeOK, Discipline, Discipline', LockedInv, PlanInv,
           NEW p \in Requests, SaveAndReturn(p)
    PROVE  PlanInv'
<1>1. /\ StepOf(p) /\ Working(p) /\ pc'[p] = "done" /\ pc[p] = "save"
      /\ Save(Exp(p), LastCopy(p)) /\ LastCopy(p) \in State
      /\ LastCopy(p).status # "absent"
  BY SaveAndReturnKeeps DEF SaveAndReturn, Upholds
<1>2. Succeeds(LastCopy(p), Stored(p))
  BY <1>1 DEF PlanInv, PlanCopies, LastCopy
<1>3. PlanCopies(p)'
  BY <1>1, NoPlanInHand DEF EmptyPcs
<1>. QED BY <1>1, <1>2, <1>3, PlanSaveStep

LEMMA CreatePlans ==
    ASSUME TypeOK, Discipline, Discipline', LockedInv, PlanInv,
           NEW p \in Requests, CreateExperiment(p)
    PROVE  PlanInv'
<1>. DEFINE x == NewState("setup")
<1>1. /\ StepOf(p) /\ Working(p) /\ pc'[p] = "done" /\ Exp(p) \in Experiments
      /\ Stored(p).status = "absent" /\ Stored(p).round = 0
      /\ Save(Exp(p), x) /\ x \in State
  BY CreateKeeps, ReqType DEF StepOf
<1>2. Stored(p).planRound = 0 /\ ~Stored(p).planApplied
  BY <1>1 DEF PlanInv, NewestPlan, Stored
<1>3. x.planRound = 0 /\ x.round = 0 /\ ~x.planApplied /\ x.status = "setup"
  BY DEF NewState
<1>. HIDE DEF x
<1>4. Succeeds(x, Stored(p))
  BY <1>2, <1>3 DEF Succeeds
<1>5. PlanCopies(p)'
  BY <1>1, NoPlanInHand DEF EmptyPcs
<1>. QED BY <1>1, <1>3, <1>4, <1>5, PlanSaveStep

LEMMA LoadRoundPlans ==
    ASSUME TypeOK, Discipline, Discipline', LockedInv, PlanInv,
           NEW p \in Requests, LoadRound(p)
    PROVE  PlanInv'
<1>1. /\ StepOf(p) /\ Working(p) /\ UNCHANGED <<store, appliedRows>>
      /\ pc'[p] \in {"run", "plan_phase", "announce_error", "done"}
      /\ pc'[p] = "run" => plan'[p] = [round |-> cur'[p], applied |-> TRUE]
  BY LoadRoundKeeps DEF LoadRound, persistent
<1>2. PlanCopies(p)'
  BY <1>1 DEF PlanCopies
<1>. QED BY <1>1, <1>2, PlanMemoryStep

LEMMA PlanPhasePlans ==
    ASSUME TypeOK, Discipline, Discipline', LockedInv, PlanInv, TruePlans,
           NEW p \in Requests, PlanPhase(p)
    PROVE  PlanInv'
<1>1. /\ StepOf(p) /\ Working(p) /\ UNCHANGED <<store, appliedRows, cur>>
      /\ pc'[p] = "run"
  BY PlanPhaseKeeps DEF PlanPhase, Goto, TypeOK, persistent
<1>2. plan'[p] = [round |-> cur[p], applied |-> TRUE]
  BY DEF PlanPhase, TruePlans, TypeOK
<1>3. PlanCopies(p)'
  BY <1>1, <1>2 DEF PlanCopies
<1>. QED BY <1>1, <1>3, PlanMemoryStep

(* The round finalised carries the plan it was played with.                   *)
LEMMA FinalisePlans ==
    ASSUME TypeOK, Discipline, Discipline', LockedInv, PlanInv,
           NEW p \in Requests, FinaliseRound(p)
    PROVE  PlanInv'
<1>1. /\ StepOf(p) /\ Working(p) /\ UNCHANGED <<store, appliedRows, req, cur, plan>>
      /\ pc'[p] = "save_round" /\ pc[p] = "run"
      /\ Own(p)'.planRound = plan[p].round /\ Own(p)'.planApplied = plan[p].applied
      /\ Own(p)'.round = cur[p]
  BY FinaliseKeeps DEF FinaliseRound, Goto, TypeOK, persistent, locals
<1>2. plan[p] = [round |-> cur[p], applied |-> TRUE] /\ cur[p] = Stored(p).round + 1
  BY <1>1 DEF PlanInv, PlanCopies, LockedInv, Copies
<1>3. Exp(p) \in Experiments /\ Stored(p)' = Stored(p) /\ cur[p] \in Nat
  <2>1. cur[p] \in Nat
    BY DEF TypeOK
  <2>. QED BY <1>1, <2>1, ReqType DEF Stored, Exp, StepOf
<1>4. /\ Own(p)'.planRound = Stored(p).round + 1 /\ Own(p)'.planApplied
      /\ Own(p)'.planRound <= Own(p)'.round + 1
  BY <1>1, <1>2, <1>3
<1>5. Succeeds(Own(p)', Stored(p))
  BY <1>3, <1>4, UpcomingSucceeds DEF PlanInv, Stored
<1>6. PlanCopies(p)'
  BY <1>1, <1>2, <1>3, <1>5 DEF PlanCopies, Succeeds
<1>. QED BY <1>1, <1>6, PlanMemoryStep

LEMMA SaveRoundPlans ==
    ASSUME TypeOK, Discipline, Discipline', LockedInv, PlanInv,
           NEW p \in Requests, SaveRound(p)
    PROVE  PlanInv'
<1>1. /\ StepOf(p) /\ Working(p) /\ Save(Exp(p), Own(p)) /\ Own(p) \in State
      /\ pc'[p] = "record" /\ pc[p] = "save_round"
  BY SaveRoundKeeps DEF SaveRound, Goto, TypeOK
<1>2. Succeeds(Own(p), Stored(p)) /\ Own(p).status # "absent"
  BY <1>1 DEF PlanInv, PlanCopies, LockedInv, Copies
<1>3. PlanCopies(p)'
  BY <1>1, NoPlanInHand
<1>. QED BY <1>1, <1>2, <1>3, PlanSaveStep

(* The rest of a round, and its failures, leave store and plans alone.        *)
LEMMA AfterRoundPlans ==
    ASSUME TypeOK, Discipline, Discipline', LockedInv, PlanInv, NEW p \in Requests,
           RecordRound(p) \/ LogRound(p) \/ RoundFails(p) \/ RequestFails(p)
    PROVE  PlanInv'
<1>1. StepOf(p) /\ Working(p) /\ UNCHANGED <<store, appliedRows>>
  BY RecordRoundKeeps, FailureKeeps DEF RecordRound, LogRound
<1>2. pc'[p] \in {"log", "announce", "announce_error", "done"}
  BY FailureKeeps DEF RecordRound, LogRound, Goto, TypeOK
<1>3. PlanCopies(p)'
  BY <1>2, NoPlanInHand DEF EmptyPcs
<1>. QED BY <1>1, <1>3, PlanMemoryStep

LEMMA QuietPlans ==
    ASSUME TypeOK, PlanInv, NEW p \in Requests, Quiet(p),
           pc'[p] \in EmptyPcs \cup {"plan_lookup"}
    PROVE  PlanInv'
<1>1. NewestPlan'
  BY DEF Quiet, PlanInv, NewestPlan
<1>2. PlanCopies(p)'
  BY NoPlanInHand
<1>3. ASSUME NEW q \in Requests, q # p PROVE PlanCopies(q)'
  <2>1. pc'[q] = pc[q] /\ req'[q] = req[q]
    BY <1>3 DEF Quiet, TypeOK
  <2>2. /\ Own(q)' = Own(q) /\ Outer(q)' = Outer(q) /\ Stored(q)' = Stored(q)
        /\ Op(q)' = Op(q) /\ cur' = cur /\ plan' = plan
    BY <2>1 DEF Quiet, Own, Outer, Stored, Op, Exp
  <2>3. PlanCopies(q)
    BY DEF PlanInv
  <2>. QED BY <2>1, <2>2, <2>3 DEF PlanCopies, Upcoming, Succeeds, PlanOf
<1>. QED BY <1>1, <1>2, <1>3 DEF PlanInv

-----------------------------------------------------------------------------
(* Approvals.                                                                *)

LEMMA PlanInit == Init => PlanInv
<1>. SUFFICES ASSUME Init PROVE PlanInv
  OBVIOUS
<1>1. \A p \in Requests : PlanCopies(p)
  BY DEF Init, PlanCopies
<1>2. NewestPlan
  BY DEF Init, NewestPlan, NewState
<1>. QED BY <1>1, <1>2 DEF PlanInv

LEMMA PlanStep ==
    ASSUME LockedClients, TruePlans, TypeOK, Discipline, Discipline', LockedInv,
           PlanInv, [Next]_vars
    PROVE  PlanInv'
<1>1. ASSUME NEW p \in Requests, Call(p) PROVE PlanInv'
  BY <1>1, CallKeeps, QuietPlans
<1>2. ASSUME NEW p \in Requests,
             AcquireLock(p) \/ CheckStep(p) \/ SpawnStep(p) \/ Announce(p) \/ StepDone(p)
      PROVE  PlanInv'
  BY <1>2, QuietShapes, QuietPlans
<1>3. ASSUME NEW p \in Requests, Handler(p) PROVE PlanInv'
  BY <1>2, <1>3, CreatePlans, MutatePlans, SaveAndReturnPlans, ApproveFetchPlans,
     PlanLookupPlans, PlanGeneratedPlans, PlanSavePlans, PlanReturnedPlans,
     RevisePlans, LoadRoundPlans, PlanPhasePlans, FinalisePlans, SaveRoundPlans,
     AfterRoundPlans
  DEF Handler
<1>4. ASSUME NEW p \in Requests, RoundFails(p) \/ RequestFails(p) PROVE PlanInv'
  BY <1>4, AfterRoundPlans
<1>5. CASE Restart
  <2>1. \A q \in Requests : pc'[q] \in {"new", "done"}
    BY <1>5, RestartKeeps
  <2>2. \A q \in Requests : PlanCopies(q)'
    BY <2>1 DEF PlanCopies
  <2>3. NewestPlan'
    BY <1>5 DEF Restart, persistent, PlanInv, NewestPlan
  <2>. QED BY <2>2, <2>3 DEF PlanInv
<1>6. CASE UNCHANGED vars
  <2>1. UNCHANGED <<store, appliedRows, heap, pc, req, plan, cur>>
    BY <1>6 DEF vars
  <2>. QED BY <2>1
       DEF PlanInv, NewestPlan, PlanCopies, Upcoming, Succeeds, PlanOf, Own, Outer,
           Stored, Op, Exp
<1>. QED BY <1>1, <1>2, <1>3, <1>4, <1>5, <1>6 DEF Next

LEMMA PlanHolds == LockedClients /\ TruePlans => (Spec => []PlanInv)
<1>. SUFFICES ASSUME LockedClients, TruePlans PROVE Spec => []PlanInv
  OBVIOUS
<1>1. TypeOK /\ Discipline /\ Discipline' /\ LockedInv /\ PlanInv /\ [Next]_vars
        => PlanInv'
  BY PlanStep
<1>. QED BY <1>1, PlanInit, TypeCorrect, DisciplineHolds, LockedHolds, PTL DEF Spec

(* A gm_plans row marked applied for the upcoming round is the newest row, so *)
(* the state that a load finds admits the step: no save and no failure        *)
(* between the approval and the step hides it (store.py:144-161,             *)
(* runtime.py:230-238).                                                      *)
THEOREM ApprovedIsAdmitted ==
    ASSUME LockedClients, TruePlans
    PROVE  Spec => []ApprovalAdmitsStep
<1>1. TypeOK /\ PlanInv => ApprovalAdmitsStep
  <2>1. SUFFICES ASSUME TypeOK, PlanInv, NEW e \in Experiments,
                        store[e].round + 1 \in appliedRows[e]
                 PROVE  StepAllowed(e, store[e])
    BY DEF ApprovalAdmitsStep
  <2>2. store[e].round \in Nat /\ store[e].planRound \in Nat
    BY <2>1, StateNumbers DEF TypeOK
  <2>3. store[e].planRound = store[e].round + 1
    <3>1. /\ store[e].round + 1 <= store[e].planRound
          /\ store[e].planRound <= store[e].round + 1
      BY <2>1 DEF PlanInv, NewestPlan
    <3>. QED BY <2>2, <3>1
  <2>4. store[e].planApplied
    BY <2>1, <2>3 DEF PlanInv, NewestPlan
  <2>. QED BY <2>3, <2>4 DEF StepAllowed
<1>. QED BY <1>1, TypeCorrect, PlanHolds, PTL

(* What a step does to the store: nothing, or the save of a state that        *)
(* succeeds the one stored.                                                  *)
LEMMA StoreMoves ==
    ASSUME LockedClients, TypeOK, Discipline, Discipline', LockedInv, PlanInv,
           [Next]_vars, store' # store
    PROVE  \E e \in Experiments, x \in State :
              Save(e, x) /\ Succeeds(x, store[e]) /\ x.status # "absent"
<1>1. PICK p \in Requests :
        CreateExperiment(p) \/ SaveAndReturn(p) \/ PlanSave(p) \/ SaveRound(p)
  <2>1. ASSUME NEW p \in Requests,
               \/ Call(p) \/ AcquireLock(p) \/ MutateState(p) \/ ApproveFetch(p)
               \/ PlanLookup(p) \/ PlanGenerated(p) \/ PlanReturned(p)
               \/ ReviseReload(p) \/ PlanRevised(p) \/ CheckStep(p) \/ SpawnStep(p)
               \/ LoadRound(p) \/ PlanPhase(p) \/ FinaliseRound(p) \/ RecordRound(p)
               \/ LogRound(p) \/ Announce(p) \/ StepDone(p) \/ RoundFails(p)
               \/ RequestFails(p)
        PROVE  UNCHANGED store
    BY <2>1
    DEF Call, AcquireLock, MutateState, ApproveFetch, PlanLookup, PlanGenerated,
        PlanReturned, ReviseReload, PlanRevised, CheckStep, SpawnStep, LoadRound,
        PlanPhase, FinaliseRound, RecordRound, LogRound, Announce, StepDone,
        RoundFails, RequestFails, persistent
  <2>2. Restart \/ UNCHANGED vars => UNCHANGED store
    BY DEF Restart, vars, persistent
  <2>. QED BY <2>1, <2>2 DEF Next, Handler
<1>2. CASE CreateExperiment(p)
  <2>. DEFINE x == NewState("setup")
  <2>1. /\ Exp(p) \in Experiments /\ Save(Exp(p), x) /\ x \in State
        /\ Stored(p).status = "absent" /\ Stored(p).round = 0
    BY <1>2, CreateKeeps, ReqType DEF StepOf
  <2>2. Stored(p).planRound = 0 /\ ~Stored(p).planApplied
    BY <2>1 DEF PlanInv, NewestPlan, Stored
  <2>3. x.planRound = 0 /\ x.round = 0 /\ ~x.planApplied /\ x.status = "setup"
    BY DEF NewState
  <2>. HIDE DEF x
  <2>4. Succeeds(x, Stored(p))
    BY <2>2, <2>3 DEF Succeeds
  <2>. QED BY <2>1, <2>3, <2>4 DEF Stored
<1>3. CASE SaveAndReturn(p)
  <2>1. /\ Exp(p) \in Experiments /\ Save(Exp(p), LastCopy(p)) /\ LastCopy(p) \in State
        /\ LastCopy(p).status # "absent"
    BY <1>3, SaveAndReturnKeeps, ReqType DEF StepOf, Upholds
  <2>2. Succeeds(LastCopy(p), Stored(p))
    BY <1>3 DEF SaveAndReturn, PlanInv, PlanCopies, LastCopy
  <2>. QED BY <2>1, <2>2 DEF Stored
<1>4. CASE PlanSave(p)
  <2>1. /\ Exp(p) \in Experiments /\ Save(Exp(p), Own(p)) /\ Own(p) \in State
        /\ Own(p).status # "absent"
    BY <1>4, PlanSaveKeeps, ReqType DEF StepOf, Upholds
  <2>2. Succeeds(Own(p), Stored(p))
    BY <1>4 DEF PlanSave, PlanInv, PlanCopies
  <2>. QED BY <2>1, <2>2 DEF Stored
<1>5. CASE SaveRound(p)
  <2>1. Exp(p) \in Experiments /\ Save(Exp(p), Own(p)) /\ Own(p) \in State
    BY <1>5, SaveRoundKeeps
  <2>2. Succeeds(Own(p), Stored(p)) /\ Own(p).status # "absent"
    BY <1>5 DEF SaveRound, PlanInv, PlanCopies, LockedInv, Copies
  <2>. QED BY <2>1, <2>2 DEF Stored
<1>. QED BY <1>1, <1>2, <1>3, <1>4, <1>5

(* An applied plan does not go back to pending: a revision looks at the plan  *)
(* and saves its own under one hold of the lock, and whatever else saves the  *)
(* experiment carries the stored plan on (runtime.py:343-373).                *)
THEOREM ApprovalsAreFinal ==
    ASSUME LockedClients, TruePlans
    PROVE  Spec => AppliedPlanIsFinal
<1>. DEFINE Final == \A e \in Experiments :
                        /\ store[e].planApplied
                        /\ store'[e].planRound = store[e].planRound
                        => store'[e].planApplied
<1>1. ASSUME TypeOK, Discipline, Discipline', LockedInv, PlanInv, [Next]_vars
      PROVE  [Final]_store
  <2>1. CASE store' = store
    BY <2>1
  <2>2. CASE store' # store
    <3>1. PICK e \in Experiments, x \in State :
            Save(e, x) /\ Succeeds(x, store[e]) /\ x.status # "absent"
      BY <1>1, <2>2, StoreMoves
    <3>2. store' = [store EXCEPT ![e] = x]
      BY <1>1, <3>1, SaveSucceeds DEF PlanInv
    <3>3. store'[e] = x /\ \A f \in Experiments \ {e} : store'[f] = store[f]
      BY <1>1, <3>1, <3>2 DEF TypeOK
    <3>4. Final
      BY <3>1, <3>3 DEF Succeeds
    <3>. QED BY <3>4
  <2>. QED BY <2>1, <2>2
<1>2. TypeOK /\ Discipline /\ Discipline' /\ LockedInv /\ PlanInv /\ [Next]_vars
        => [Final]_store
  BY <1>1
<1>. QED BY <1>2, TypeCorrect, DisciplineHolds, LockedHolds, PlanHolds, PTL
     DEF Spec, AppliedPlanIsFinal
=============================================================================
