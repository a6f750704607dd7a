----------------------------- MODULE TurnQueue -----------------------------
(***************************************************************************)
(* The turn pipeline of the browser, frontend/src/stores/turn.ts: agent    *)
(* actions that arrive over the WebSocket are queued and played one at a   *)
(* time, each through thinking, moving, acting and hud-only as it needs.   *)
(*                                                                         *)
(* JavaScript runs every handler to its end, so a step is one callback:    *)
(* an enqueue, a timer, an event of the speech bubble, a completion from   *)
(* the game world, the narration overlay opening or closing.  Callbacks    *)
(* may come late, after the turn they belong to has been left behind.      *)
(***************************************************************************)
EXTENDS Naturals, Sequences

CONSTANTS
    Waiters,       (* one-shot callbacks given to onDrained                  *)
    MaxTurns,      (* bound on the turns of one visit to the page            *)
    BlockMidTurn   (* may the narration overlay open while a turn is active  *)

ASSUME TurnAssumption == MaxTurns \in Nat /\ BlockMidTurn \in BOOLEAN

VARIABLES
    queue,       (* queue: ids of the turns to play                          *)
    active,      (* activeTurn's id, 0 for null                              *)
    phase,       (* phase                                                    *)
    blocked,     (* blocked: the narration overlay is open                   *)
    counter,     (* turnCounter                                              *)
    kind,        (* what each turn is made of                                *)
    timers,      (* the store's pending timers                               *)
    callbacks,   (* events still to come from the bubble and the game world  *)
    drained      (* drainedHandlers                                          *)

vars == <<queue, active, phase, blocked, counter, kind, timers, callbacks,
          drained>>

Phases == {"idle", "thinking", "moving", "acting", "hud-only"}
Timers == {"thought", "floor", "hud", "gap"}
Sources == {"bubble", "audio", "move", "anim"}
TurnIds == 1 .. MaxTurns
Kinds == [thought : BOOLEAN, speechOnly : BOOLEAN, animated : BOOLEAN]

IsProcessing == active # 0 \/ queue # <<>>

Init ==
    /\ queue = <<>>
    /\ active = 0
    /\ phase = "idle"
    /\ blocked = FALSE
    /\ counter = 0
    /\ kind \in [TurnIds -> Kinds]
    /\ timers = {}
    /\ callbacks = {}
    /\ drained = {}

-----------------------------------------------------------------------------
(* The stages of a turn t, with q the queue behind it, ts the timers and cs  *)
(* the callbacks still to come.                                              *)

Stage(q, t, ph, ts, cs) ==
    /\ queue' = q
    /\ active' = t
    /\ phase' = ph
    /\ timers' = ts
    /\ callbacks' = cs

(* Mutant: the handlers of a drained queue are not called.                   *)
RestSilent(q, cs) == Stage(q, 0, "idle", {}, cs) /\ UNCHANGED drained

(* processNext when it plays nothing: blocked, or drained.                   *)
Rest(q, cs) ==
    /\ Stage(q, 0, "idle", {}, cs)
    /\ drained' = IF blocked THEN drained ELSE {}

(* finishTurn and scheduleNext: during the gap the old turn stays active.    *)
FinishTurn(q, t, ts, cs) ==
    IF q = <<>> THEN Rest(q, cs)
    ELSE Stage(q, t, "idle", ts \cup {"gap"}, cs) /\ UNCHANGED drained

(* Mutant: a phase no view knows.                                            *)
CompleteTurnHud(q, t, ts, cs) ==
    IF kind[t].thought THEN FinishTurn(q, t, ts, cs)
    ELSE Stage(q, t, "hud", ts \cup {"hud"}, cs) /\ UNCHANGED drained

(* completeTurnPhase: without a thought the turn still stands in the HUD.    *)
CompleteTurn(q, t, ts, cs) ==
    IF kind[t].thought THEN FinishTurn(q, t, ts, cs)
    ELSE Stage(q, t, "hud-only", ts \cup {"hud"}, cs) /\ UNCHANGED drained

(* A looping animation, or an agent the world does not know, completes at    *)
(* once, before the floor timer is set.                                      *)
StartAction(q, t, ts, cs) ==
    IF ~kind[t].animated THEN CompleteTurn(q, t, ts, cs)
    ELSE /\ \E looping \in BOOLEAN :
              Stage(q, t, "acting", ts \cup {"floor"},
                    IF looping THEN cs ELSE cs \cup {<<"anim", t>>})
         /\ UNCHANGED drained

(* Whether the agent has to walk depends on where it is.                     *)
StartMovement(q, t, ts, cs) ==
    IF kind[t].speechOnly THEN CompleteTurn(q, t, ts, cs)
    ELSE \/ /\ Stage(q, t, "moving", ts, cs \cup {<<"move", t>>})
            /\ UNCHANGED drained
         \/ StartAction(q, t, ts, cs)

StartThought(q, t, cs) ==
    /\ Stage(q, t, "thinking", {"thought"},
             cs \cup {<<"bubble", t>>, <<"audio", t>>})
    /\ UNCHANGED drained

Play(q, cs) ==
    IF kind[Head(q)].thought THEN StartThought(Tail(q), Head(q), cs)
    ELSE StartMovement(Tail(q), Head(q), {}, cs)

ProcessNext(q, cs) == IF blocked \/ q = <<>> THEN Rest(q, cs) ELSE Play(q, cs)

-----------------------------------------------------------------------------
(* Mutant: the newest turn first.                                            *)
EnqueueFront ==
    /\ counter < MaxTurns
    /\ counter' = counter + 1
    /\ IF active = 0 /\ ~blocked
       THEN ProcessNext(<<counter'>> \o queue, callbacks)
       ELSE /\ queue' = <<counter'>> \o queue
            /\ UNCHANGED <<active, phase, timers, callbacks, drained>>
    /\ UNCHANGED <<blocked, kind>>

(* enqueue, for every agent_action, meeting speech and vote that arrives.    *)
Enqueue ==
    /\ counter < MaxTurns
    /\ counter' = counter + 1
    /\ IF active = 0 /\ ~blocked
       THEN ProcessNext(Append(queue, counter'), callbacks)
       ELSE /\ queue' = Append(queue, counter')
            /\ UNCHANGED <<active, phase, timers, callbacks, drained>>
    /\ UNCHANGED <<blocked, kind>>

(* onDrained, as waitForReady uses it: only while turns are being processed. *)
OnDrained(w) ==
    /\ IsProcessing
    /\ drained' = drained \cup {w}
    /\ UNCHANGED <<queue, active, phase, blocked, counter, kind, timers, callbacks>>

(* Mutant: the thought's timer lives on.                                      *)
CompleteThoughtTimer(t, cs) ==
    IF phase = "thinking" /\ active = t
    THEN StartMovement(queue, t, timers, cs)
    ELSE /\ callbacks' = cs
         /\ UNCHANGED <<queue, active, phase, timers, drained>>

CompleteThought(t, cs) ==
    IF phase = "thinking" /\ active = t
    THEN StartMovement(queue, t, timers \ {"thought"}, cs)
    ELSE /\ callbacks' = cs
         /\ UNCHANGED <<queue, active, phase, timers, drained>>

(* onBubbleDismissed and notifyAudioComplete, both for one bubble.           *)
BubbleEvent(source, t) ==
    /\ source \in {"bubble", "audio"}
    /\ <<source, t>> \in callbacks
    /\ CompleteThought(t, callbacks \ {<<source, t>>})
    /\ UNCHANGED <<blocked, counter, kind>>

ThoughtTimeout ==
    /\ "thought" \in timers
    /\ CompleteThought(active, callbacks)
    /\ UNCHANGED <<blocked, counter, kind>>

(* The agent has arrived.                                                    *)
Arrived(t) ==
    /\ <<"move", t>> \in callbacks
    /\ LET cs == callbacks \ {<<"move", t>>} IN
         IF active = t THEN StartAction(queue, t, timers, cs)
         ELSE /\ callbacks' = cs
              /\ UNCHANGED <<queue, active, phase, timers, drained>>
    /\ UNCHANGED <<blocked, counter, kind>>

(* Mutant: the floor timer alone decides.                                    *)
ProceedEarly(t, ts, cs) ==
    IF active = t /\ phase = "acting" /\ "floor" \notin ts
    THEN CompleteTurn(queue, t, ts, cs)
    ELSE /\ timers' = ts /\ callbacks' = cs
         /\ UNCHANGED <<queue, active, phase, drained>>

(* proceed: the animation's callback and the floor timer, whichever is last. *)
Proceed(t, ts, cs) ==
    IF active = t /\ "floor" \notin ts /\ <<"anim", t>> \notin cs
    THEN CompleteTurn(queue, t, ts, cs)
    ELSE /\ timers' = ts /\ callbacks' = cs
         /\ UNCHANGED <<queue, active, phase, drained>>

AnimationDone(t) ==
    /\ <<"anim", t>> \in callbacks
    /\ Proceed(t, timers, callbacks \ {<<"anim", t>>})
    /\ UNCHANGED <<blocked, counter, kind>>

FloorElapsed ==
    /\ "floor" \in timers
    /\ Proceed(active, timers \ {"floor"}, callbacks)
    /\ UNCHANGED <<blocked, counter, kind>>

HudElapsed ==
    /\ "hud" \in timers
    /\ FinishTurn(queue, active, timers \ {"hud"}, callbacks)
    /\ UNCHANGED <<blocked, counter, kind>>

GapElapsed ==
    /\ "gap" \in timers
    /\ ProcessNext(queue, callbacks)
    /\ UNCHANGED <<blocked, counter, kind>>

(* setBlocked, as the narration overlay opens and closes.                    *)
Block ==
    /\ ~blocked
    /\ active = 0 \/ BlockMidTurn
    /\ blocked' = TRUE
    /\ UNCHANGED <<queue, active, phase, counter, kind, timers, callbacks, drained>>

(* Mutant: closing the overlay leaves the queue where it is.                 *)
UnblockIdle ==
    /\ blocked
    /\ blocked' = FALSE
    /\ UNCHANGED <<queue, active, phase, counter, kind, timers, callbacks, drained>>

Unblock ==
    /\ blocked
    /\ blocked' = FALSE
    /\ IF active = 0 /\ queue # <<>>
       THEN Play(queue, callbacks)
       ELSE UNCHANGED <<queue, active, phase, timers, callbacks, drained>>
    /\ UNCHANGED <<counter, kind>>

(* $reset, when the page is left.  The game session and the bubble go with    *)
(* it, and so do their callbacks; ids start again from 1.                    *)
Reset ==
    /\ Stage(<<>>, 0, "idle", {}, {})
    /\ blocked' = FALSE
    /\ counter' = 0
    /\ drained' = {}
    /\ UNCHANGED kind

-----------------------------------------------------------------------------
Elapse == ThoughtTimeout \/ FloorElapsed \/ HudElapsed \/ GapElapsed

Next ==
    \/ Enqueue \/ Elapse \/ Block \/ Unblock \/ Reset
    \/ \E w \in Waiters : OnDrained(w)
    \/ \E t \in TurnIds :
         \/ Arrived(t) \/ AnimationDone(t)
         \/ \E source \in Sources : BubbleEvent(source, t)

Spec == Init /\ [][Next]_vars

(* Timers fire, the game world completes what it started, the reader closes   *)
(* the overlay.  The bubble and the audio owe nothing: their timer is there. *)
FairSpec ==
    /\ Spec
    /\ WF_vars(ThoughtTimeout) /\ WF_vars(FloorElapsed)
    /\ WF_vars(HudElapsed) /\ WF_vars(GapElapsed)
    /\ WF_vars(Unblock)
    /\ \A t \in TurnIds : WF_vars(Arrived(t)) /\ WF_vars(AnimationDone(t))

-----------------------------------------------------------------------------
(* Type invariant of the store.                                              *)
TypeOK ==
    /\ queue \in Seq(TurnIds)
    /\ active \in 0 .. MaxTurns
    /\ phase \in Phases
    /\ blocked \in BOOLEAN
    /\ counter \in 0 .. MaxTurns
    /\ kind \in [TurnIds -> Kinds]
    /\ timers \subseteq Timers
    /\ callbacks \subseteq Sources \X TurnIds
    /\ drained \subseteq Waiters

(* A pending timer belongs to the stage the active turn is in.  Neither the   *)
(* hud nor the gap timer looks whose turn it ends, so one left over from an   *)
(* earlier stage would cut a later turn short (turn.ts:191-208, 441-452).    *)
TimersMatchPhase ==
    /\ "thought" \in timers <=> phase = "thinking"
    /\ "hud" \in timers <=> phase = "hud-only"
    /\ "floor" \in timers => phase = "acting"
    /\ "gap" \in timers <=> phase = "idle" /\ active # 0
    /\ "gap" \in timers => queue # <<>>

(* "prevent stale completions from advancing the wrong turn"                 *)
(* (docs/TURN_PIPELINE.md): a stage is left only by an event of its own turn; *)
(* the action stage only after both its animation and its floor timer.  A    *)
(* thought that ends while no callback is consumed is its timeout.           *)
StagesPlayOut ==
    [][LET left == phase' # phase \/ active' # active
           came(c) == <<c, active>> \in callbacks /\ <<c, active>> \notin callbacks'
       IN /\ phase = "thinking" /\ left /\ counter' # 0 =>
                came("bubble") \/ came("audio") \/ callbacks \subseteq callbacks'
          /\ phase = "moving" /\ left /\ counter' # 0 => came("move")
          /\ phase = "acting" /\ left /\ counter' # 0 =>
                <<"anim", active>> \notin callbacks' /\ "floor" \notin timers']_vars

(* Turns are played in the order they were enqueued, each once, and the next  *)
(* one starts only when the stage machine has let go of the one before.      *)
InOrder ==
    [][active' \notin {0, active} =>
          /\ active' = counter' - Len(queue')
          /\ phase = "idle"]_vars

(* Every turn that is queued is played while the page stays open.            *)
TurnsPlayed == queue # <<>> ~> queue = <<>>

(* "When the queue empties, all registered drainedHandlers fire"             *)
(* (docs/ROUND_FLOW.md:280): the end of a round, which waits for them, comes. *)
DrainedFires == \A w \in Waiters : w \in drained ~> w \notin drained

(* They do, unless the narration overlay is open when the last turn ends.     *)
DrainedUnlessCovered ==
    \A w \in Waiters :
        w \in drained /\ IsProcessing ~>
            w \notin drained \/ (blocked /\ ~IsProcessing)

(* All that the round's end relies on: the queue implements TurnDrain.        *)
Drain == INSTANCE TurnDrain WITH busy <- IsProcessing, covered <- blocked
DrainSpec == Drain!DrainSpec
=============================================================================
