--------------------------- MODULE TurnQueueProofs ---------------------------
(***************************************************************************)
(* Proofs about TurnQueue, for any number of turns, of whatever kinds, and *)
(* any handlers waiting for the queue to drain.                            *)
(***************************************************************************)
EXTENDS TurnQueue, SequenceTheorems, TLAPS

(* How many turns have been taken out of the queue.                          *)
Begun == counter - Len(queue)

(* A queue that holds the turns from b + 1 to n in the order of their ids.   *)
Consecutive(q, b, n) ==
    /\ Len(q) = n - b
    /\ \A i \in 1 .. Len(q) : q[i] = b + i

(* Ids are handed out in order and taken out in order, and nothing that      *)
(* happens to a turn is older than its beginning.                            *)
TurnsInOrder ==
    /\ Consecutive(queue, Begun, counter)
    /\ Begun >= 0
    /\ active \in {0, Begun}
    /\ \A c \in callbacks : c[2] <= Begun

(* What is owed to the active turn says which stage it is in: nothing else   *)
(* keeps a late arrival from starting an action twice.                       *)
StageOfCallback ==
    /\ phase # "idle" => active # 0
    /\ <<"move", active>> \in callbacks => phase = "moving"
    /\ <<"anim", active>> \in callbacks => phase = "acting"

TurnInv == TypeOK /\ TimersMatchPhase /\ TurnsInOrder /\ StageOfCallback

-----------------------------------------------------------------------------
(* What the functions of the store that call one another come to.            *)

(* The turn t is in one of its stages, with cs the callbacks owed before it. *)
Staged(q, t, cs) ==
    /\ queue' = q /\ active' = t /\ UNCHANGED drained
    /\ \/ /\ phase' = "thinking" /\ timers' = {"thought"}
          /\ callbacks' = cs \cup {<<"bubble", t>>, <<"audio", t>>}
       \/ /\ phase' = "moving" /\ timers' = {}
          /\ callbacks' = cs \cup {<<"move", t>>}
       \/ /\ phase' = "acting" /\ timers' = {"floor"}
          /\ callbacks' \in {cs, cs \cup {<<"anim", t>>}}
       \/ /\ phase' = "hud-only" /\ timers' = {"hud"}
          /\ callbacks' = cs

(* The turn t is over: the gap before the next one, or rest.                 *)
Ended(q, t, cs) ==
    \/ q = <<>> /\ Rest(q, cs)
    \/ q # <<>> /\ Stage(q, t, "idle", {"gap"}, cs) /\ UNCHANGED drained

LEMMA CompleteTurnStages ==
    ASSUME NEW q, NEW t, NEW cs, CompleteTurn(q, t, {}, cs)
    PROVE  Staged(q, t, cs) \/ Ended(q, t, cs)
BY DEF CompleteTurn, FinishTurn, Staged, Ended, Stage

LEMMA StartActionStages ==
    ASSUME NEW q, NEW t, NEW cs, StartAction(q, t, {}, cs)
    PROVE  Staged(q, t, cs) \/ Ended(q, t, cs)
<1>1. CASE kind[t].animated
  <2>1. PICK looping \in BOOLEAN :
          Stage(q, t, "acting", {"floor"},
                IF looping THEN cs ELSE cs \cup {<<"anim", t>>})
    BY <1>1 DEF StartAction
  <2>2. UNCHANGED drained
    BY <1>1 DEF StartAction
  <2>. QED BY <2>1, <2>2 DEF Staged, Stage
<1>2. CASE ~kind[t].animated
  BY <1>2, CompleteTurnStages DEF StartAction
<1>. QED BY <1>1, <1>2

LEMMA StartMovementStages ==
    ASSUME NEW q, NEW t, NEW cs, StartMovement(q, t, {}, cs)
    PROVE  Staged(q, t, cs) \/ Ended(q, t, cs)
<1>1. CASE kind[t].speechOnly
  BY <1>1, CompleteTurnStages DEF StartMovement
<1>2. CASE ~kind[t].speechOnly
  BY <1>2, StartActionStages DEF StartMovement, Staged, Stage
<1>. QED BY <1>1, <1>2

(* A turn that has just been taken out of the queue does not end in the same  *)
(* callback: without a thought it stands in the HUD.                         *)
LEMMA PlayStages ==
    ASSUME NEW q, NEW cs, Play(q, cs)
    PROVE  Staged(Tail(q), Head(q), cs)
<1>. DEFINE t == Head(q)
<1>1. CASE kind[t].thought
  BY <1>1 DEF Play, StartThought, Staged, Stage
<1>2. CASE ~kind[t].thought
  <2>1. StartMovement(Tail(q), t, {}, cs)
    BY <1>2 DEF Play
  <2>2. ASSUME CompleteTurn(Tail(q), t, {}, cs) PROVE Staged(Tail(q), t, cs)
    BY <1>2, <2>2 DEF CompleteTurn, Staged, Stage
  <2>3. ASSUME StartAction(Tail(q), t, {}, cs) PROVE Staged(Tail(q), t, cs)
    BY <2>2, <2>3 DEF StartAction, Staged, Stage
  <2>. QED BY <2>1, <2>2, <2>3 DEF StartMovement, Staged, Stage
<1>. QED BY <1>1, <1>2

-----------------------------------------------------------------------------
(* The shapes a step can have, and that each of them keeps the invariant.    *)

(* What a stage of the turn t finds: it is the last turn begun, q is what is  *)
(* behind it, and of t itself neither a path nor an animation is owed in cs. *)
StageContext(q, t, cs) ==
    /\ t \in TurnIds
    /\ q \in Seq(TurnIds)
    /\ cs \in SUBSET (Sources \X TurnIds)
    /\ Consecutive(q, t, counter')
    /\ \A c \in cs : c[2] <= t
    /\ <<"move", t>> \notin cs /\ <<"anim", t>> \notin cs

(* The variables a stage does not touch.                                     *)
Surroundings ==
    /\ counter' \in 0 .. MaxTurns
    /\ blocked' \in BOOLEAN
    /\ kind' \in [TurnIds -> Kinds]

LEMMA BegunIs ==
    ASSUME counter' \in 0 .. MaxTurns, NEW b \in Int, Len(queue') = counter' - b
    PROVE  Begun' = b
<1>1. ASSUME NEW c \in Int, NEW n \in Int, n = c - b PROVE c - n = b
  BY <1>1
<1>2. counter' \in Int /\ Len(queue') \in Int
  BY TurnAssumption
<1>. QED BY <1>1, <1>2 DEF Begun

LEMMA StagedKeepsInv ==
    ASSUME TypeOK, Surroundings, NEW q, NEW t, NEW cs,
           StageContext(q, t, cs), Staged(q, t, cs)
    PROVE  TurnInv'
<1>. USE TurnAssumption
<1>1. /\ queue' = q /\ active' = t /\ drained' = drained
      /\ Len(q) \in Nat /\ Len(q) = counter' - t /\ t \in Nat \ {0}
  BY DEF Staged, StageContext, Consecutive, TurnIds
<1>2. TypeOK'
  <2>1. callbacks' \subseteq Sources \X TurnIds
    BY DEF Staged, StageContext, Sources
  <2>2. timers' \subseteq Timers /\ phase' \in Phases
    BY DEF Staged, Timers, Phases
  <2>. QED BY <1>1, <2>1, <2>2 DEF TypeOK, Surroundings, StageContext, TurnIds
<1>3. TimersMatchPhase'
  BY <1>1 DEF Staged, TimersMatchPhase
<1>4. Begun' = t
  BY <1>1, BegunIs DEF Surroundings
<1>5. TurnsInOrder'
  <2>1. \A c \in callbacks' : c[2] <= t
    BY <1>1 DEF Staged, StageContext
  <2>2. Consecutive(queue', t, counter')
    BY <1>1 DEF StageContext
  <2>. QED BY <1>1, <1>4, <2>1, <2>2 DEF TurnsInOrder, Consecutive
<1>6. StageOfCallback'
  BY <1>1 DEF Staged, StageContext, StageOfCallback
<1>. QED BY <1>2, <1>3, <1>5, <1>6 DEF TurnInv

(* The queue rests, with b the last turn begun.                              *)
LEMMA RestKeepsInv ==
    ASSUME TypeOK, Surroundings, NEW q \in Seq(TurnIds), NEW b \in Nat,
           NEW cs \in SUBSET (Sources \X TurnIds),
           Consecutive(q, b, counter'), \A c \in cs : c[2] <= b, Rest(q, cs)
    PROVE  TurnInv'
<1>. USE TurnAssumption
<1>1. /\ queue' = q /\ active' = 0 /\ phase' = "idle" /\ timers' = {}
      /\ callbacks' = cs /\ drained' \subseteq Waiters
      /\ Len(q) \in Nat /\ Len(q) = counter' - b
  BY DEF Rest, Stage, Consecutive, TypeOK
<1>2. TypeOK'
  BY <1>1 DEF TypeOK, Surroundings, Phases
<1>3. TimersMatchPhase'
  BY <1>1 DEF TimersMatchPhase
<1>4. Begun' = b
  BY <1>1, BegunIs DEF Surroundings
<1>5. TurnsInOrder'
  BY <1>1, <1>4 DEF TurnsInOrder, Consecutive
<1>6. StageOfCallback'
  BY <1>1 DEF StageOfCallback, TurnIds
<1>. QED BY <1>2, <1>3, <1>5, <1>6 DEF TurnInv

LEMMA EndedKeepsInv ==
    ASSUME TypeOK, Surroundings, NEW q, NEW t, NEW cs,
           StageContext(q, t, cs), Ended(q, t, cs)
    PROVE  TurnInv'
<1>. USE TurnAssumption
<1>1. CASE Rest(q, cs)
  BY <1>1, RestKeepsInv DEF StageContext, TurnIds
<1>2. CASE q # <<>> /\ Stage(q, t, "idle", {"gap"}, cs) /\ UNCHANGED drained
  <2>1. /\ queue' = q /\ active' = t /\ phase' = "idle" /\ timers' = {"gap"}
        /\ callbacks' = cs /\ drained' = drained
        /\ Len(q) \in Nat /\ Len(q) = counter' - t /\ t \in Nat \ {0}
    BY <1>2 DEF Stage, StageContext, Consecutive, TurnIds
  <2>2. TypeOK'
    BY <2>1 DEF TypeOK, Surroundings, StageContext, Phases, Timers, TurnIds
  <2>3. TimersMatchPhase'
    BY <1>2, <2>1 DEF TimersMatchPhase
  <2>4. Begun' = t
    BY <2>1, BegunIs DEF Surroundings
  <2>5. TurnsInOrder'
    BY <2>1, <2>4 DEF TurnsInOrder, Consecutive, StageContext
  <2>6. StageOfCallback'
    BY <2>1 DEF StageOfCallback, StageContext
  <2>. QED BY <2>2, <2>3, <2>5, <2>6 DEF TurnInv
<1>. QED BY <1>1, <1>2 DEF Ended

LEMMA ConsecutiveTail ==
    ASSUME NEW S, NEW q \in Seq(S), q # <<>>, NEW b \in Nat, NEW n \in Nat,
           Consecutive(q, b, n)
    PROVE  Head(q) = b + 1 /\ Consecutive(Tail(q), b + 1, n)
<1>1. Len(q) \in Nat \ {0} /\ Head(q) = q[1]
  BY EmptySeq
<1>2. q[1] = b + 1
  BY <1>1 DEF Consecutive
<1>3. Len(Tail(q)) = Len(q) - 1 /\ \A i \in 1 .. Len(Tail(q)) : Tail(q)[i] = q[i + 1]
  BY HeadTailProperties
<1>4. Len(Tail(q)) = n - (b + 1)
  BY <1>1, <1>3 DEF Consecutive
<1>5. ASSUME NEW i \in 1 .. Len(Tail(q)) PROVE Tail(q)[i] = b + 1 + i
  <2>1. i + 1 \in 1 .. Len(q) /\ i \in Nat
    BY <1>1, <1>3
  <2>2. q[i + 1] = b + (i + 1)
    BY <2>1 DEF Consecutive
  <2>. QED BY <1>3, <2>1, <2>2
<1>. QED BY <1>1, <1>2, <1>4, <1>5 DEF Consecutive

LEMMA ConsecutiveAppend ==
    ASSUME NEW S, NEW q \in Seq(S), NEW b \in Nat, NEW n \in Nat,
           n + 1 \in S, Consecutive(q, b, n)
    PROVE  /\ Append(q, n + 1) \in Seq(S) /\ Append(q, n + 1) # <<>>
           /\ Consecutive(Append(q, n + 1), b, n + 1)
<1>. DEFINE r == Append(q, n + 1)
<1>1. /\ r \in Seq(S) /\ r # <<>> /\ Len(r) = Len(q) + 1
      /\ \A i \in 1 .. Len(q) : r[i] = q[i]
      /\ r[Len(q) + 1] = n + 1
  BY AppendProperties, EmptySeq
<1>2. Len(q) \in Nat /\ Len(q) = n - b
  BY DEF Consecutive
<1>3. ASSUME NEW i \in 1 .. Len(r) PROVE r[i] = b + i
  <2>1. CASE i \in 1 .. Len(q)
    BY <1>1, <2>1 DEF Consecutive
  <2>2. CASE i = Len(q) + 1
    BY <1>1, <1>2, <2>2
  <2>. QED BY <1>1, <1>2, <2>1, <2>2
<1>4. Len(r) = n + 1 - b
  BY <1>1, <1>2
<1>. QED BY <1>1, <1>3, <1>4 DEF Consecutive

(* The turn at the head of a queue has not begun before.                     *)
LEMMA HeadContext ==
    ASSUME TypeOK, Surroundings, NEW q \in Seq(TurnIds), q # <<>>,
           NEW b \in Nat, Consecutive(q, b, counter'),
           \A c \in callbacks : c[2] <= b
    PROVE  StageContext(Tail(q), Head(q), callbacks) /\ Head(q) = b + 1
<1>1. counter' \in Nat
  BY TurnAssumption DEF Surroundings
<1>2. Head(q) \in TurnIds /\ Tail(q) \in Seq(TurnIds)
  BY HeadTailProperties
<1>3. Head(q) = b + 1 /\ Consecutive(Tail(q), b + 1, counter')
  BY <1>1, ConsecutiveTail
<1>4. \A c \in callbacks : c[2] <= b + 1 /\ c[2] # b + 1
  BY TurnAssumption DEF TypeOK, TurnIds
<1>. QED
  BY <1>2, <1>3, <1>4 DEF StageContext, TypeOK, TurnIds

LEMMA PlayKeepsInv ==
    ASSUME TurnInv, Surroundings, NEW q \in Seq(TurnIds), q # <<>>,
           NEW b \in Nat, b = Begun, Consecutive(q, b, counter'),
           Play(q, callbacks)
    PROVE  TurnInv'
<1>1. \A c \in callbacks : c[2] <= b
  BY DEF TurnInv, TurnsInOrder
<1>2. TypeOK
  BY DEF TurnInv
<1>3. StageContext(Tail(q), Head(q), callbacks)
  BY <1>1, <1>2, HeadContext
<1>4. Staged(Tail(q), Head(q), callbacks)
  BY PlayStages
<1>. QED BY <1>2, <1>3, <1>4, StagedKeepsInv
-----------------------------------------------------------------------------
(* The shapes a step can have.                                               *)

(* The active turn leaves its stage, for the reason that ends this stage.    *)
Advances(cs) ==
    /\ active # 0 /\ phase # "idle"
    /\ Staged(queue, active, cs) \/ Ended(queue, active, cs)
    /\ UNCHANGED <<blocked, counter, kind>>
    /\ cs \subseteq callbacks
    /\ phase = "thinking" =>
         \/ cs = callbacks
         \/ \E source \in {"bubble", "audio"} :
              <<source, active>> \in callbacks /\ <<source, active>> \notin cs
    /\ phase = "moving" => <<"move", active>> \in callbacks
    /\ <<"move", active>> \notin cs
    /\ <<"anim", active>> \notin cs

(* Nothing but timers and callbacks that came for nothing.                    *)
Waits ==
    /\ UNCHANGED <<queue, active, phase, blocked, counter, kind, drained>>
    /\ callbacks' \subseteq callbacks
    /\ \/ timers' = timers
       \/ phase = "acting" /\ timers' = timers \ {"floor"}

(* No turn is played, and the one at the head of the queue comes next.        *)
Begins == phase = "idle" /\ queue # <<>> /\ Play(queue, callbacks)

LEMMA TimersOfPhase ==
    ASSUME TypeOK, TimersMatchPhase
    PROVE  /\ phase = "thinking" => timers = {"thought"}
           /\ phase = "moving" => timers = {}
           /\ phase = "acting" => timers \in {{}, {"floor"}}
           /\ phase = "hud-only" => timers = {"hud"}
           /\ phase = "idle" => timers \in {{}, {"gap"}}
BY DEF TypeOK, TimersMatchPhase, Timers, Phases

(* A thought ends by a callback of its bubble or, with cs untouched, by time. *)
LEMMA ThoughtShape ==
    ASSUME TurnInv, UNCHANGED <<blocked, counter, kind>>, NEW t, NEW cs,
           cs \subseteq callbacks, t = active \/ cs # callbacks,
           \/ cs = callbacks
           \/ \E source \in {"bubble", "audio"} :
                <<source, t>> \in callbacks /\ cs = callbacks \ {<<source, t>>},
           CompleteThought(t, cs)
    PROVE  Advances(cs) \/ Waits
<1>1. CASE phase = "thinking" /\ active = t
  <2>1. timers \ {"thought"} = {}
    BY <1>1, TimersOfPhase DEF TurnInv
  <2>2. Staged(queue, active, cs) \/ Ended(queue, active, cs)
    BY <1>1, <2>1, StartMovementStages DEF CompleteThought
  <2>3. <<"move", active>> \notin callbacks /\ <<"anim", active>> \notin callbacks
    BY <1>1 DEF TurnInv, StageOfCallback
  <2>4. active # 0
    BY <1>1 DEF TurnInv, StageOfCallback
  <2>. QED BY <1>1, <2>2, <2>3, <2>4 DEF Advances
<1>2. CASE ~(phase = "thinking" /\ active = t)
  BY <1>2 DEF CompleteThought, Waits
<1>. QED BY <1>1, <1>2

LEMMA ArrivedShape ==
    ASSUME TurnInv, NEW t \in TurnIds, Arrived(t)
    PROVE  (\E cs : Advances(cs)) \/ Waits
<1>. DEFINE cs == callbacks \ {<<"move", t>>}
<1>1. CASE active = t
  <2>1. phase = "moving" /\ timers = {} /\ active # 0
    BY <1>1, TimersOfPhase DEF Arrived, TurnInv, StageOfCallback
  <2>2. Staged(queue, active, cs) \/ Ended(queue, active, cs)
    BY <1>1, <2>1, StartActionStages DEF Arrived
  <2>3. <<"anim", active>> \notin callbacks
    BY <2>1 DEF TurnInv, StageOfCallback
  <2>4. Advances(cs)
    BY <1>1, <2>1, <2>2, <2>3 DEF Advances, Arrived
  <2>. QED BY <2>4
<1>2. CASE active # t
  BY <1>2 DEF Arrived, Waits
<1>. QED BY <1>1, <1>2

(* The action stage ends when both its floor and its animation have come.     *)
LEMMA ProceedShape ==
    ASSUME TurnInv, UNCHANGED <<blocked, counter, kind>>, NEW t, NEW cs,
           NEW ts, phase = "acting" => ts \in {timers, timers \ {"floor"}},
           phase # "acting" => ts = timers,
           cs \subseteq callbacks, active = t => phase = "acting",
           Proceed(t, ts, cs)
    PROVE  Advances(cs) \/ Waits
<1>1. CASE active = t /\ "floor" \notin ts /\ <<"anim", t>> \notin cs
  <2>1. phase = "acting" /\ ts = {}
    BY <1>1, TimersOfPhase DEF TurnInv
  <2>2. Staged(queue, active, cs) \/ Ended(queue, active, cs)
    BY <1>1, <2>1, CompleteTurnStages DEF Proceed
  <2>3. <<"move", active>> \notin callbacks /\ active # 0
    BY <2>1 DEF TurnInv, StageOfCallback
  <2>. QED BY <1>1, <2>1, <2>2, <2>3 DEF Advances
<1>2. CASE ~(active = t /\ "floor" \notin ts /\ <<"anim", t>> \notin cs)
  BY <1>2 DEF Proceed, Waits
<1>. QED BY <1>1, <1>2

LEMMA HudShape ==
    ASSUME TurnInv, HudElapsed
    PROVE  Advances(callbacks)
<1>1. phase = "hud-only" /\ timers \ {"hud"} = {}
  BY TimersOfPhase DEF HudElapsed, TurnInv, TimersMatchPhase
<1>2. FinishTurn(queue, active, {}, callbacks)
  BY <1>1 DEF HudElapsed
<1>3. Ended(queue, active, callbacks)
  BY <1>2 DEF FinishTurn, Ended
<1>4. active # 0 /\ <<"move", active>> \notin callbacks /\ <<"anim", active>> \notin callbacks
  BY <1>1 DEF TurnInv, StageOfCallback
<1>. QED BY <1>1, <1>3, <1>4 DEF Advances, HudElapsed

LEMMA ElapseShape ==
    ASSUME TurnInv, ThoughtTimeout \/ FloorElapsed \/ HudElapsed
    PROVE  (\E cs : Advances(cs)) \/ Waits
<1>1. CASE ThoughtTimeout
  BY <1>1, ThoughtShape DEF ThoughtTimeout
<1>2. CASE FloorElapsed
  <2>1. phase = "acting"
    BY <1>2 DEF FloorElapsed, TurnInv, TimersMatchPhase
  <2>. QED BY <1>2, <2>1, ProceedShape DEF FloorElapsed
<1>3. CASE HudElapsed
  BY <1>3, HudShape
<1>. QED BY <1>1, <1>2, <1>3

LEMMA EventShape ==
    ASSUME TurnInv, NEW t \in TurnIds,
           Arrived(t) \/ AnimationDone(t) \/ \E source \in Sources : BubbleEvent(source, t)
    PROVE  (\E cs : Advances(cs)) \/ Waits
<1>1. CASE Arrived(t)
  BY <1>1, ArrivedShape
<1>2. CASE AnimationDone(t)
  <2>1. active = t => phase = "acting"
    BY <1>2 DEF AnimationDone, TurnInv, StageOfCallback
  <2>. QED BY <1>2, <2>1, ProceedShape DEF AnimationDone
<1>3. ASSUME NEW source \in Sources, BubbleEvent(source, t)
      PROVE  (\E cs : Advances(cs)) \/ Waits
  <2>. DEFINE cs == callbacks \ {<<source, t>>}
  <2>1. /\ source \in {"bubble", "audio"} /\ <<source, t>> \in callbacks
        /\ CompleteThought(t, cs) /\ UNCHANGED <<blocked, counter, kind>>
    BY <1>3 DEF BubbleEvent
  <2>2. cs # callbacks /\ cs \subseteq callbacks
    BY <2>1
  <2>. QED BY <2>1, <2>2, ThoughtShape
<1>. QED BY <1>1, <1>2, <1>3
-----------------------------------------------------------------------------
(* The invariant.                                                            *)

LEMMA InvFacts ==
    ASSUME TurnInv
    PROVE  /\ TypeOK /\ counter \in Nat /\ Begun \in Nat /\ Len(queue) \in Nat
           /\ Consecutive(queue, Begun, counter)
           /\ \A c \in callbacks : c[2] <= Begun
           /\ active \in {0, Begun}
<1>1. counter \in Nat /\ Len(queue) \in Nat
  BY TurnAssumption DEF TurnInv, TypeOK
<1>. QED BY <1>1 DEF TurnInv, TurnsInOrder, Begun

LEMMA AdvancesKeepsInv ==
    ASSUME TurnInv, NEW cs, Advances(cs)
    PROVE  TurnInv'
<1>1. TypeOK /\ Surroundings
  BY DEF TurnInv, TypeOK, Advances, Surroundings
<1>2. StageContext(queue, active, cs)
  <2>1. active = Begun /\ counter' = counter
    BY InvFacts DEF Advances
  <2>2. active \in TurnIds
    BY <1>1 DEF Advances, TypeOK, TurnIds
  <2>3. \A c \in cs : c[2] <= active
    BY <2>1, InvFacts DEF Advances
  <2>4. Consecutive(queue, active, counter')
    BY <2>1, InvFacts
  <2>. QED BY <1>1, <2>2, <2>3, <2>4 DEF StageContext, Advances, TypeOK
<1>. QED BY <1>1, <1>2, StagedKeepsInv, EndedKeepsInv DEF Advances

LEMMA SameTurns ==
    ASSUME TurnInv, UNCHANGED <<queue, active, counter>>, callbacks' \subseteq callbacks
    PROVE  TurnsInOrder'
<1>1. Begun' = Begun
  BY DEF Begun
<1>. QED BY <1>1 DEF TurnInv, TurnsInOrder, Consecutive

LEMMA WaitsKeepsInv ==
    ASSUME TurnInv, Waits
    PROVE  TurnInv'
<1>1. TypeOK' /\ TimersMatchPhase'
  BY DEF TurnInv, Waits, TypeOK, TimersMatchPhase
<1>2. TurnsInOrder'
  BY SameTurns DEF Waits
<1>3. StageOfCallback'
  BY DEF TurnInv, Waits, StageOfCallback
<1>. QED BY <1>1, <1>2, <1>3 DEF TurnInv

LEMMA BeginsKeepsInv ==
    ASSUME TurnInv, Begins, UNCHANGED <<counter, kind>>, blocked' \in BOOLEAN
    PROVE  TurnInv'
<1>1. Surroundings /\ queue \in Seq(TurnIds)
  BY DEF TurnInv, TypeOK, Surroundings
<1>2. Consecutive(queue, Begun, counter') /\ Begun \in Nat
  BY InvFacts
<1>. QED BY <1>1, <1>2, PlayKeepsInv DEF Begins

LEMMA EnqueueKeepsInv ==
    ASSUME TurnInv, Enqueue
    PROVE  TurnInv'
<1>. DEFINE q == Append(queue, counter')
<1>1. TypeOK /\ Surroundings /\ counter' \in TurnIds /\ counter' = counter + 1
  BY TurnAssumption DEF TurnInv, TypeOK, Enqueue, Surroundings, TurnIds
<1>2. q \in Seq(TurnIds) /\ q # <<>> /\ Consecutive(q, Begun, counter')
  BY <1>1, InvFacts, ConsecutiveAppend DEF TypeOK
<1>3. CASE active = 0 /\ ~blocked
  <2>1. Play(q, callbacks)
    BY <1>2, <1>3 DEF Enqueue, ProcessNext
  <2>. QED BY <1>1, <1>2, <2>1, InvFacts, PlayKeepsInv
<1>4. CASE ~(active = 0 /\ ~blocked)
  <2>1. queue' = q /\ UNCHANGED <<active, phase, timers, callbacks, drained>>
    BY <1>4 DEF Enqueue
  <2>2. TypeOK'
    BY <1>1, <1>2, <2>1 DEF TypeOK, Surroundings
  <2>3. TimersMatchPhase' /\ StageOfCallback'
    BY <1>2, <2>1 DEF TurnInv, TimersMatchPhase, StageOfCallback
  <2>4. Begun' = Begun
    <3>1. Len(q) = counter' - Begun
      BY <1>2 DEF Consecutive
    <3>. QED BY <1>1, <2>1, <3>1, InvFacts, BegunIs DEF Surroundings
  <2>5. TurnsInOrder'
    BY <1>2, <2>1, <2>4 DEF TurnInv, TurnsInOrder, Consecutive
  <2>. QED BY <2>2, <2>3, <2>5 DEF TurnInv
<1>. QED BY <1>3, <1>4

(* The gap is over: the next turn, or nothing while the overlay is open.      *)
LEMMA GapShape ==
    ASSUME TurnInv, GapElapsed
    PROVE  /\ phase = "idle" /\ queue # <<>> /\ active # 0
           /\ UNCHANGED <<blocked, counter, kind>>
           /\ Begins \/ (blocked /\ Rest(queue, callbacks))
BY DEF TurnInv, TimersMatchPhase, GapElapsed, ProcessNext, Begins

LEMMA UnblockShape ==
    ASSUME TurnInv, Unblock
    PROVE  /\ blocked' = FALSE /\ UNCHANGED <<counter, kind>>
           /\ \/ Begins
              \/ UNCHANGED <<queue, active, phase, timers, callbacks, drained>>
BY DEF TurnInv, StageOfCallback, Unblock, Begins

LEMMA ResetKeepsInv ==
    ASSUME TurnInv, Reset
    PROVE  TurnInv'
<1>1. /\ queue' = <<>> /\ active' = 0 /\ phase' = "idle" /\ timers' = {}
      /\ callbacks' = {} /\ blocked' = FALSE /\ counter' = 0 /\ drained' = {}
      /\ kind' = kind
  BY DEF Reset, Stage
<1>2. TypeOK'
  <2>1. <<>> \in Seq(TurnIds)
    BY EmptySeq
  <2>2. 0 \in 0 .. MaxTurns
    BY TurnAssumption
  <2>. QED BY <1>1, <2>1, <2>2 DEF TurnInv, TypeOK, Phases
<1>3. TimersMatchPhase' /\ StageOfCallback'
  BY <1>1 DEF TimersMatchPhase, StageOfCallback
<1>4. Begun' = 0
  <2>1. Len(queue') = counter' - 0 /\ counter' \in 0 .. MaxTurns
    BY <1>1, TurnAssumption
  <2>. QED BY <2>1, BegunIs
<1>5. TurnsInOrder'
  BY <1>1, <1>4 DEF TurnsInOrder, Consecutive
<1>. QED BY <1>2, <1>3, <1>5 DEF TurnInv

LEMMA InvInit == Init => TurnInv
<1>. SUFFICES ASSUME Init PROVE TurnInv
  OBVIOUS
<1>1. TypeOK
  <2>1. <<>> \in Seq(TurnIds)
    BY EmptySeq
  <2>2. 0 \in 0 .. MaxTurns
    BY TurnAssumption
  <2>. QED BY <2>1, <2>2 DEF Init, TypeOK, Phases
<1>2. TimersMatchPhase /\ StageOfCallback
  BY DEF Init, TimersMatchPhase, StageOfCallback
<1>3. Begun = 0
  <2>1. counter = 0 /\ Len(queue) = 0
    BY DEF Init
  <2>2. 0 - 0 = 0
    OBVIOUS
  <2>. QED BY <2>1, <2>2 DEF Begun
<1>4. TurnsInOrder
  BY <1>3 DEF Init, TurnsInOrder, Consecutive
<1>. QED BY <1>1, <1>2, <1>4 DEF TurnInv

LEMMA InvStep == TurnInv /\ [Next]_vars => TurnInv'
<1>. SUFFICES ASSUME TurnInv, [Next]_vars PROVE TurnInv'
  OBVIOUS
<1>1. CASE Enqueue
  BY <1>1, EnqueueKeepsInv
<1>2. CASE ThoughtTimeout \/ FloorElapsed \/ HudElapsed
  BY <1>2, ElapseShape, AdvancesKeepsInv, WaitsKeepsInv
<1>3. CASE GapElapsed
  <2>1. CASE Begins
    BY <1>3, <2>1, GapShape, BeginsKeepsInv DEF TurnInv, TypeOK
  <2>2. CASE Rest(queue, callbacks)
    BY <1>3, <2>2, GapShape, InvFacts, RestKeepsInv DEF Surroundings, TypeOK
  <2>. QED BY <1>3, <2>1, <2>2, GapShape
<1>4. CASE Block
  <2>1. TypeOK' /\ TimersMatchPhase' /\ StageOfCallback'
    BY <1>4 DEF Block, TurnInv, TypeOK, TimersMatchPhase, StageOfCallback
  <2>. QED BY <1>4, <2>1, SameTurns DEF Block, TurnInv
<1>5. CASE Unblock
  <2>1. CASE Begins
    BY <1>5, <2>1, UnblockShape, BeginsKeepsInv
  <2>2. CASE UNCHANGED <<queue, active, phase, timers, callbacks, drained>>
    <3>1. TypeOK' /\ TimersMatchPhase' /\ StageOfCallback'
      BY <1>5, <2>2, UnblockShape
         DEF TurnInv, TypeOK, TimersMatchPhase, StageOfCallback
    <3>. QED BY <1>5, <2>2, <3>1, UnblockShape, SameTurns DEF TurnInv
  <2>. QED BY <1>5, <2>1, <2>2, UnblockShape
<1>6. CASE Reset
  BY <1>6, ResetKeepsInv
<1>7. ASSUME NEW w \in Waiters, OnDrained(w) PROVE TurnInv'
  <2>1. TypeOK' /\ TimersMatchPhase' /\ StageOfCallback'
    BY <1>7 DEF OnDrained, TurnInv, TypeOK, TimersMatchPhase, StageOfCallback
  <2>. QED BY <1>7, <2>1, SameTurns DEF OnDrained, TurnInv
<1>8. ASSUME NEW t \in TurnIds,
             Arrived(t) \/ AnimationDone(t) \/ \E source \in Sources : BubbleEvent(source, t)
      PROVE  TurnInv'
  BY <1>8, EventShape, AdvancesKeepsInv, WaitsKeepsInv
<1>9. CASE UNCHANGED vars
  <2>1. TypeOK' /\ TimersMatchPhase' /\ StageOfCallback'
    BY <1>9 DEF vars, TurnInv, TypeOK, TimersMatchPhase, StageOfCallback
  <2>. QED BY <1>9, <2>1, SameTurns DEF vars, TurnInv
<1>. QED
  BY <1>1, <1>2, <1>3, <1>4, <1>5, <1>6, <1>7, <1>8, <1>9 DEF Next, Elapse

LEMMA InvHolds == Spec => []TurnInv
BY InvInit, InvStep, PTL DEF Spec

(* The store keeps its types.                                                *)
THEOREM TypeCorrect == Spec => []TypeOK
<1>1. TurnInv => TypeOK
  BY DEF TurnInv
<1>. QED BY <1>1, InvHolds, PTL

(* A pending timer belongs to the stage the active turn is in (turn.ts:191).  *)
THEOREM TimersBelong == Spec => []TimersMatchPhase
<1>1. TurnInv => TimersMatchPhase
  BY DEF TurnInv
<1>. QED BY <1>1, InvHolds, PTL
-----------------------------------------------------------------------------
(* Steps.                                                                    *)

(* A turn that begins does so when the stage machine has let go of the last.  *)
LEMMA BeginIsOrderly ==
    ASSUME TurnInv, TurnInv', [Next]_vars, active' \notin {0, active}
    PROVE  phase = "idle"
<1>1. CASE Enqueue
  BY <1>1 DEF Enqueue, TurnInv, StageOfCallback
<1>2. ASSUME NEW cs, Advances(cs) PROVE FALSE
  <2>1. CASE Staged(queue, active, cs)
    BY <2>1 DEF Staged
  <2>2. CASE Ended(queue, active, cs)
    BY <2>2 DEF Ended, Rest, Stage
  <2>. QED BY <1>2, <2>1, <2>2 DEF Advances
<1>3. ASSUME Waits PROVE FALSE
  BY <1>3 DEF Waits
<1>4. CASE ThoughtTimeout \/ FloorElapsed \/ HudElapsed
  BY <1>2, <1>3, <1>4, ElapseShape
<1>5. CASE GapElapsed
  BY <1>5, GapShape
<1>6. CASE Block
  BY <1>6 DEF Block
<1>7. CASE Unblock
  BY <1>7, UnblockShape DEF Begins
<1>8. CASE Reset
  BY <1>8 DEF Reset, Stage
<1>9. ASSUME NEW w \in Waiters, OnDrained(w) PROVE FALSE
  BY <1>9 DEF OnDrained
<1>10. ASSUME NEW t \in TurnIds,
              Arrived(t) \/ AnimationDone(t) \/ \E source \in Sources : BubbleEvent(source, t)
       PROVE  FALSE
  BY <1>2, <1>3, <1>10, EventShape
<1>11. CASE UNCHANGED vars
  BY <1>11 DEF vars
<1>. QED
  BY <1>1, <1>4, <1>5, <1>6, <1>7, <1>8, <1>9, <1>10, <1>11 DEF Next, Elapse

(* Turns are played in the order they were enqueued, each once, and only when *)
(* the one before is over (turn.ts:455-474): what is taken out of the queue   *)
(* is the turn whose id is how many have been taken out.                      *)
THEOREM PlayedInOrder == Spec => InOrder
<1>1. ASSUME TurnInv, TurnInv', [Next]_vars
      PROVE  [active' \notin {0, active} =>
                /\ active' = counter' - Len(queue')
                /\ phase = "idle"]_vars
  <2>1. SUFFICES ASSUME active' \notin {0, active}
                 PROVE  active' = counter' - Len(queue') /\ phase = "idle"
    OBVIOUS
  <2>2. active' = Begun'
    BY <1>1, <2>1 DEF TurnInv, TurnsInOrder
  <2>. QED BY <1>1, <2>1, <2>2, BeginIsOrderly DEF Begun
<1>. QED BY <1>1, InvHolds, PTL DEF Spec, InOrder
(* A stage is left by an event of its own turn or by its own time, the action *)
(* stage by both (turn.ts:191-208, 255-330; docs/TURN_PIPELINE.md).           *)
LEMMA AdvanceIsOwed ==
    ASSUME TurnInv, NEW cs, Advances(cs), phase' # phase \/ active' # active
    PROVE  /\ phase = "thinking" =>
                \/ <<"bubble", active>> \in callbacks \ callbacks'
                \/ <<"audio", active>> \in callbacks \ callbacks'
                \/ callbacks \subseteq callbacks'
           /\ phase = "moving" => <<"move", active>> \in callbacks \ callbacks'
           /\ phase = "acting" =>
                <<"anim", active>> \notin callbacks' /\ "floor" \notin timers'
<1>1. CASE Staged(queue, active, cs)
  BY <1>1 DEF Advances, Staged
<1>2. CASE Ended(queue, active, cs)
  <2>1. callbacks' = cs /\ "floor" \notin timers'
    BY <1>2 DEF Ended, Rest, Stage
  <2>. QED BY <2>1 DEF Advances
<1>. QED BY <1>1, <1>2 DEF Advances

LEMMA IdleIsFree ==
    ASSUME TurnInv, Enqueue \/ GapElapsed \/ Unblock,
           phase' # phase \/ active' # active
    PROVE  phase = "idle"
BY GapShape, UnblockShape DEF Enqueue, Begins, TurnInv, StageOfCallback

THEOREM StagesHold == Spec => StagesPlayOut
<1>. DEFINE left == phase' # phase \/ active' # active
            came(c) == <<c, active>> \in callbacks /\ <<c, active>> \notin callbacks'
            owed == /\ phase = "thinking" /\ left /\ counter' # 0 =>
                         came("bubble") \/ came("audio") \/ callbacks \subseteq callbacks'
                    /\ phase = "moving" /\ left /\ counter' # 0 => came("move")
                    /\ phase = "acting" /\ left /\ counter' # 0 =>
                         <<"anim", active>> \notin callbacks' /\ "floor" \notin timers'
<1>1. ASSUME TurnInv, [Next]_vars PROVE [owed]_vars
  <2>1. SUFFICES ASSUME left, phase # "idle", counter' # 0 PROVE owed
    OBVIOUS
  <2>2. ASSUME NEW cs, Advances(cs) PROVE owed
    BY <1>1, <2>1, <2>2, AdvanceIsOwed
  <2>3. CASE Waits
    BY <2>1, <2>3 DEF Waits
  <2>4. CASE Enqueue \/ GapElapsed \/ Unblock
    BY <1>1, <2>1, <2>4, IdleIsFree
  <2>5. CASE ThoughtTimeout \/ FloorElapsed \/ HudElapsed
    BY <1>1, <2>2, <2>3, <2>5, ElapseShape
  <2>6. CASE Block
    BY <2>1, <2>6 DEF Block
  <2>7. CASE Reset
    BY <2>1, <2>7 DEF Reset
  <2>8. ASSUME NEW w \in Waiters, OnDrained(w) PROVE owed
    BY <2>1, <2>8 DEF OnDrained
  <2>9. ASSUME NEW t \in TurnIds,
               Arrived(t) \/ AnimationDone(t) \/ \E source \in Sources : BubbleEvent(source, t)
        PROVE  owed
    BY <1>1, <2>2, <2>3, <2>9, EventShape
  <2>10. CASE UNCHANGED vars
    BY <2>1, <2>10 DEF vars
  <2>. QED
    BY <1>1, <2>4, <2>5, <2>6, <2>7, <2>8, <2>9, <2>10 DEF Next, Elapse
<1>. QED BY <1>1, InvHolds, PTL DEF Spec, StagesPlayOut

-----------------------------------------------------------------------------
(* The queue keeps the promise of TurnDrain.                                 *)

(* While turns are played nobody who waits is forgotten or called early.      *)
LEMMA BusyStutters ==
    ASSUME IsProcessing, IsProcessing', UNCHANGED <<blocked, drained>>
    PROVE  UNCHANGED Drain!drainVars
<1>1. IsProcessing = IsProcessing'
  BY ZenonT(20) DEF IsProcessing
<1>. QED BY <1>1 DEF Drain!drainVars

LEMMA BeginIsBusy ==
    ASSUME Begins
    PROVE  IsProcessing /\ (TurnInv' => IsProcessing') /\ UNCHANGED drained
BY PlayStages DEF Begins, IsProcessing, Staged, TurnInv, StageOfCallback

LEMMA AdvanceIsDrain ==
    ASSUME NEW cs, Advances(cs)
    PROVE  [Drain!DrainNext]_(Drain!drainVars)
<1>1. IsProcessing /\ blocked' = blocked
  BY DEF Advances, IsProcessing
<1>2. CASE IsProcessing' /\ UNCHANGED drained
  BY <1>1, <1>2, BusyStutters
<1>3. CASE Rest(queue, cs) /\ queue = <<>>
  <2>1. IsProcessing' = FALSE
    BY <1>3 DEF Rest, Stage, IsProcessing
  <2>2. CASE blocked
    BY <1>1, <1>3, <2>1, <2>2 DEF Rest, Drain!DrainsUnheard, Drain!DrainNext
  <2>3. CASE ~blocked
    BY <1>1, <1>3, <2>1, <2>3 DEF Rest, Drain!Drains, Drain!DrainNext
  <2>. QED BY <2>2, <2>3
<1>4. CASE Staged(queue, active, cs)
  BY <1>2, <1>4 DEF Staged, Advances, IsProcessing
<1>5. CASE queue # <<>> /\ Stage(queue, active, "idle", {"gap"}, cs) /\ UNCHANGED drained
  BY <1>2, <1>5 DEF Stage, Advances, IsProcessing
<1>. QED BY <1>3, <1>4, <1>5 DEF Advances, Ended
LEMMA DrainStep ==
    ASSUME TurnInv, TurnInv', [Next]_vars
    PROVE  [Drain!DrainNext]_(Drain!drainVars)
<1>1. ASSUME Waits PROVE UNCHANGED Drain!drainVars
  BY <1>1 DEF Waits, IsProcessing, Drain!drainVars
<1>2. CASE Enqueue
  <2>1. ASSUME queue' # <<>>, UNCHANGED <<blocked, drained>> PROVE Drain!TurnArrives
    BY <2>1 DEF IsProcessing, Drain!TurnArrives
  <2>2. CASE active = 0 /\ ~blocked
    <3>. DEFINE q == Append(queue, counter')
    <3>1. q # <<>>
      BY InvFacts, EmptySeq, TurnAssumption, AppendProperties DEF TypeOK
    <3>2. Play(q, callbacks) /\ blocked' = blocked
      BY <1>2, <2>2, <3>1 DEF Enqueue, ProcessNext
    <3>3. Staged(Tail(q), Head(q), callbacks)
      BY <3>2, PlayStages
    <3>4. UNCHANGED drained /\ IsProcessing'
      BY <3>3 DEF Staged, TurnInv, StageOfCallback, IsProcessing
    <3>. QED BY <3>2, <3>4 DEF Drain!TurnArrives, Drain!DrainNext
  <2>3. CASE ~(active = 0 /\ ~blocked)
    <3>1. queue' = Append(queue, counter') /\ UNCHANGED <<blocked, drained>>
      BY <1>2, <2>3 DEF Enqueue
    <3>2. queue' # <<>>
      BY <3>1, InvFacts, EmptySeq, AppendProperties DEF TypeOK
    <3>. QED BY <2>1, <3>1, <3>2 DEF Drain!DrainNext
  <2>. QED BY <2>2, <2>3
<1>3. CASE ThoughtTimeout \/ FloorElapsed \/ HudElapsed
  BY <1>1, <1>3, ElapseShape, AdvanceIsDrain
<1>4. CASE GapElapsed
  <2>1. CASE Begins
    BY <1>4, <2>1, GapShape, BeginIsBusy, BusyStutters
  <2>2. CASE blocked /\ Rest(queue, callbacks)
    <3>1. IsProcessing /\ IsProcessing' /\ UNCHANGED <<blocked, drained>>
      BY <1>4, <2>2, GapShape DEF Rest, Stage, IsProcessing
    <3>. QED BY <3>1, BusyStutters
  <2>. QED BY <1>4, <2>1, <2>2, GapShape
<1>5. CASE Block
  BY <1>5 DEF Block, IsProcessing, Drain!Covers, Drain!DrainNext
<1>6. CASE Unblock
  <2>1. blocked = TRUE /\ blocked' = FALSE
    BY <1>6, UnblockShape DEF Unblock, TurnInv, TypeOK
  <2>2. IsProcessing' = IsProcessing /\ UNCHANGED drained
    <3>1. CASE Begins
      <4>1. IsProcessing /\ IsProcessing' /\ UNCHANGED drained
        BY <3>1, BeginIsBusy
      <4>. QED BY <4>1, ZenonT(20) DEF IsProcessing
    <3>2. CASE UNCHANGED <<queue, active, phase, timers, callbacks, drained>>
      BY <3>2 DEF IsProcessing
    <3>. QED BY <1>6, <3>1, <3>2, UnblockShape
  <2>. QED BY <2>1, <2>2 DEF Drain!Covers, Drain!DrainNext
<1>7. CASE Reset
  <2>1. IsProcessing' = FALSE /\ blocked' = FALSE /\ drained' = {}
    BY <1>7 DEF Reset, Stage, IsProcessing
  <2>. QED BY <2>1 DEF Drain!Leaves, Drain!DrainNext
<1>8. ASSUME NEW w \in Waiters, OnDrained(w) PROVE Drain!Registers(w)
  BY <1>8 DEF OnDrained, IsProcessing, Drain!Registers
<1>9. ASSUME NEW t \in TurnIds,
             Arrived(t) \/ AnimationDone(t) \/ \E source \in Sources : BubbleEvent(source, t)
      PROVE  [Drain!DrainNext]_(Drain!drainVars)
  BY <1>1, <1>9, EventShape, AdvanceIsDrain
<1>10. CASE UNCHANGED vars
  BY <1>10 DEF vars, IsProcessing, Drain!drainVars
<1>. QED
  BY <1>2, <1>3, <1>4, <1>5, <1>6, <1>7, <1>8, <1>9, <1>10
     DEF Next, Elapse, Drain!DrainNext

(* The queue implements TurnDrain: who registers while turns are played is    *)
(* called when the last one is over, not before, and is passed over only      *)
(* while the narration overlay is open (turn.ts:112-133, 476-513).           *)
THEOREM QueueDrains == Spec => DrainSpec
<1>1. Init => Drain!DrainInit
  BY DEF Init, IsProcessing, Drain!DrainInit
<1>2. TurnInv /\ TurnInv' /\ [Next]_vars => [Drain!DrainNext]_(Drain!drainVars)
  BY DrainStep
<1>. QED BY <1>1, <1>2, InvHolds, PTL DEF Spec, DrainSpec, Drain!DrainSpec
=============================================================================
