# Formal models of The Experiment

The Experiment is a social simulation: a FastAPI backend plays a town of LLM
agents round by round, persists every round, and streams it over a WebSocket to
a browser that plays the round back turn by turn, with narrated and spoken
audio. This directory holds TLA+ models of the parts of it whose correctness
depends on the order in which things happen, the TLC configurations that check
them on small instances, and proofs, checked by TLAPS, of what holds for
instances of every size.

    tlc -config runtime_live.cfg MCRuntime          # model-check one run
    tlapm ExperimentRuntimeProofs.tla               # check the proofs

## 1. The system

Paths are relative to the repository. Each part is listed with the state it
keeps, what it does, and what would make it correct.

**Runtime request handlers** (`backend/app/api/runtime.py`, routes under
`backend/app/api/routes/experiments/`). State: one `asyncio.Lock` for the whole
process, `_steps_in_progress`, `_current_tasks`, `_live_states`. Operations:
create, start, pause, inject an observer event, change the arc, get (generate)
the next GM plan, revise it, approve it, step. `POST /step` checks, sets a flag
and spawns a background task that takes the lock, publishes its mutable state
object in `_live_states`, plays the round, saves, records, logs, releases and
broadcasts. Steps, revisions and creations take the lock; everything else is an
unlocked fetch, mutate and save of the whole state. Correct: no two rounds at
once, one task per experiment, the live object gone with its round, the approved
plan played, nothing half-played in the store, no update lost, a step always
settles.

**Experiment store** (`backend/app/api/store.py`, `backend/app/db/models.py`).
State: experiments with agents, arc and GM plans; rounds, events, snapshots.
`save_state` overwrites one experiment in a transaction; plan rows are kept per
round and the largest is loaded; round rows and snapshots are only inserted.
Correct: rounds committed one by one, one snapshot for each.

**GM plans** (`backend/app/gm/`). generate, revise, approve, apply: a record
`pending -> approved -> applied`; when no model writes a plan, rules choose the
crisis from threat, stocks, arc and plotlines. Correct: an applied plan is
final.

**Round engine** (`backend/app/engine/service.py`), with the **action catalog**
(`backend/app/actions/`), **world** (`backend/app/world/`), **town meeting and
votes** (`backend/app/social/`) and **agents** (`backend/app/agents/`).
`run_round` goes through gm_plan, dawn, morning, midday, afternoon and night on
one mutable state: agents decide one after the other, their actions are then
resolved in groups, a meeting votes and may exile, and everybody remembers at
night. Correct: the dead and the exiled take no part, factions consist of those
who are there, levels stay in range, what is announced is what was counted, no
memory is lost behind the cursor of consolidation.

**LLM client** (`backend/app/llm/`). One corrective retry on a structured answer
that does not parse; usage and traces are recorded for each attempt.

**Audio cache** (`backend/app/tts/service.py`). State: an LRU cache with a time
to live, a table of in-flight entries. The first request for a key generates and
streams through, the others wait for its event. Correct: one generation per
key, everybody answered, the bound kept.

**Round audio** (`backend/app/api/services/audio.py`). Prewarms the narration
of a round (under the runtime's lock, from the round's first hook; and again
from a task when a plan is approved) and, one utterance at a time, the agents'
speech, in the agent's voice or in the default one. Correct: browsers are told
how each of them ended.

**Round streaming and connections** (`backend/app/api/services/streaming.py`,
`backend/app/api/ws_manager.py`, `frontend/src/composables/useWebSocket.ts`).
Hooks of the engine become messages; a broadcast awaits socket after socket;
the browser reconnects with a back-off. Nothing is replayed after a reconnect.

**Turn pipeline** (`frontend/src/stores/turn.ts`). State: a queue, the active
turn, its phase, four timers, one-shot drained handlers, the block flag of the
narration overlay. Correct: turns play in order, each stage to its end, timers
never outlive their stage, the queue never rests with work in it, the drained
handlers fire.

**Browser round state** (`frontend/src/stores/experiment.ts`, `ui.ts`,
`social.ts`, `gm.ts`, `frontend/src/views/SimulationView.vue`). Rounds, phases,
meetings, narration, stepping and auto-play; the end of a round waits for the
turn pipeline to drain. **Game session** (`frontend/src/game/GameSession.ts`)
keeps one pending completion per agent for paths and animations.

**Headless runner**, **analytics**, **highlights**, **rendering**: sequential
callers, read-only aggregation and drawing.

How they interact: the browser calls the routes; the routes call the runtime;
the runtime calls store, GM, engine, event log and audio inside or outside of
its lock; the engine calls back the streaming hook, which broadcasts and
prewarms; the browser's router hands messages to its stores, which enqueue
turns; the turn pipeline calls the game session and is called back by it, by
the speech bubble and by timers; the narration overlay blocks the pipeline.

### What is hard

- *Interleaving at awaits.* A handler holds a copy of the state, or the live
  object itself, across LLM calls and database calls of others.
- *Checks that go stale.* The step's approval check runs before the lock is
  obtained, the revision's status check before its LLM call.
- *Three transactions.* A round ends with save, record and log, each of which
  can fail; the process can die between any two.
- *Ownership of a wait.* The waiters of the audio cache depend on somebody
  else's generator being driven to its end by somebody else's client.
- *Late callbacks.* Bubble, audio, animation, path and timer events may come
  after the turn they were meant for.
- *Waiting for an edge.* The end of a round in the browser waits for the moment
  the queue drains, and the overlay can be open at that moment.
- *Order inside a round.* Agents decide together and act one group after the
  other; between the decision and the action they may have been moved, exiled
  or sacrificed. Four lists of "who is there" are made at different moments.
- *Several writers of one status.* The narration of a round is announced by the
  round and by the task of its approval; speech statuses by a hook and by its
  batches; each of them awaits socket after socket.
- *Watchers of watchers.* Auto-play is four watchers and a plain variable, and
  depends on the order in which they run.

`PROJECT.json` lists these as hazards, each at its line, with the properties
that watch them or the reason why none does yet.

## 2. The modules

| module | models | checked with |
| --- | --- | --- |
| `ExperimentRuntime` | the request handlers over the store, the lock, the flags and the live states | `MCRuntime` |
| `RoundLedger` | abstract: what the persisted history of rounds promises | property of `ExperimentRuntime` |
| `ExperimentRuntimeProofs` | theorems about `ExperimentRuntime` | tlapm |
| `RuntimeLockedProofs` | theorems about it under a restriction on the clients | tlapm |
| `ActionCatalog` | the table of actions | `MCTown` |
| `TownWorld` | places, steps, resources, threat | `MCTown` |
| `CrisisPlan` | the plan the rules write | `MCTown` |
| `TownSociety` | factions, conversations, votes, exile | `MCTown` |
| `TownRound` | a round of the engine, composing the four above | `MCTown` |
| `TownPopulation` | abstract: who is left, and the records of departures | property of `TownRound` |
| `TownRoundProofs` | theorems about `TownRound` and the modules it composes | tlapm |
| `NarrationTTS` | the audio cache and its callers | itself, `MCStream` |
| `NarrationProofs` | theorems about `NarrationTTS` | tlapm |
| `RoundStream` | hook, prewarm tasks and connection manager, over `NarrationTTS` | `MCStream` |
| `RoundStreamProofs` | theorems about `RoundStream`: types, cache, utterances | tlapm |
| `SpeechAudioProofs` | theorems about `RoundStream`: the order of statuses | tlapm |
| `TurnQueue` | the turn pipeline of the browser | itself |
| `TurnQueueProofs` | theorems about `TurnQueue` | tlapm |
| `TurnDrain` | abstract: what the pipeline promises to those who wait for it | property of `TurnQueue`, part of `RoundClient` |
| `RoundClient` | buttons, auto-play, round end, meeting, overlay and connection of the page | itself |
| `RoundClientProofs` | theorems about `RoundClient` | tlapm |

### ExperimentRuntime

`Requests` are one-shot HTTP calls, each its own handler with a program counter
`pc` whose values are the awaits: one action is the code from one await to the
next. `store` is the database, a record per experiment reduced to the round
number, the status, the newest plan (its round and whether it is applied), the
observer events, and `dirty`: whether the object shows a round that has begun
and is not finalised. `appliedRows` are the rounds whose `gm_plans` row is
applied, `records` the snapshot and the log of each finished round, tagged with
the request that wrote them.

State objects live in `heap`, in cells; `ptr[p]` is the object a handler works
on. `get_state` (`Fetched`, `HeapWith`) yields the cell of the round in flight
if there is one and otherwise fills the handler's own cell from the store:
aliasing, and its absence, are what the race properties are about.
`approve_gm_plan` fetches twice, so it has a second cell, `outer`.

| action | code |
| --- | --- |
| `Call` | a client's request; `Concurrent` says which operations clients overlap |
| `AcquireLock`, `Release` | `async with self.lock` |
| `MutateState`, `SaveAndReturn` | start, pause, inject_observer_event, update_arc |
| `PlanLookup`, `PlanGenerated`, `PlanSave`, `PlanReturned` | get_or_generate_gm_plan and what its caller does with the result (`WithPlan`) |
| `ApproveFetch` | approve_gm_plan's own fetch |
| `ReviseReload`, `PlanRevised` | the rest of revise_gm_plan |
| `CheckStep`, `SpawnStep`, `StepDone` | the step route, start_step, _on_step_done |
| `LoadRound`, `PlanPhase`, `FinaliseRound` | _run_round_locked and run_round |
| `SaveRound`, `RecordRound`, `LogRound`, `Announce` | the end of a step |
| `RoundFails`, `RequestFails`, `Restart` | an exception at any await; the process dies |

Abstractions. The phases of a round between its plan and its end are one await
(`run`), with the state object marked dirty; what they compute is not modelled.
`save_state` is one atomic transaction. The log row and the audio preparation
that follow a save in plan, revise and approve change nothing that is modelled,
and are merged with the save (for a revision, so is the release of the lock).
404 answers, GET requests and `set_llm_mode`, which swaps the LLM client under
the lock, are left out. A plan's round comes from the LLM or from the client:
it is the upcoming one or a member of `StrayRounds`.

### RoundLedger

Commits of one round at a time and at most one snapshot for each, written before
the next commit. `Ledger` in `ExperimentRuntime` instantiates it with the
store's round numbers and the snapshot records.

### NarrationTTS

A request asks for one key, as the HTTP route or as `prewarm()`. `inflight`
names the owner of each key's entry, `result` how an entry ended, `awaits` whose
event a waiter sleeps on. `_cache_lock` is never held across a suspension, so
its critical sections are parts of steps. The point is where the owner's
generator is: `opened` (returned to a `StreamingResponse` that has not asked for
a chunk: nothing of its body, and no `finally`, will run if nobody asks),
`streaming`, `dropped` (suspended at a yield, to be finalised by the event
loop), `gone`. `Disconnects` says when clients leave. Any cached entry may
expire at any time. Client back-pressure is not modelled.

### RoundStream

One experiment and one round, whose failed attempts are played again, over the
whole of `NarrationTTS`. `hook` is where `StreamingHook` is, `plan` where the
task of an approved plan is, `batches` the speech prewarm tasks and `semaphore`
the one that `AudioService` shares among them. A task's broadcasts are `out`,
and `left` the sockets of `broadcast`'s copied set that its loop has not reached
(in any order, since it is a set): each send is a step, in which other tasks,
sockets and requests run. `sockets` and `connections` are the two views of a
connection, of the browser and of the manager, which a send or the endpoint
brings together. `narration` and `audio` are what a browser has last been told.

| action | code |
| --- | --- |
| `RoundStarts`, `NarrationPrewarm`, `HookResumed` | `on_round_start` with `resolve_narration_audio_snapshot_for_plan(prewarm=True)` |
| `PhaseStarts`, `PhaseCompletes`, `SpeechPrewarmScheduled` | `on_phase_start`, `on_phase_complete`, `prepare_agent_speech_audio` |
| `Acquire`, `Fallback`, `Release`, `BatchResumed` | `_prewarm_one` under the semaphore, `_prewarm_all` |
| `PlanPrepared`, `PlanPrewarm`, `PlanResumed` | `prepare_narration_audio` |
| `RoundEnds`, `RoundFails` | `broadcast_round_end`, `step_error` |
| `Send`, `Connect`, `Closes`, `Disconnect` | `ConnectionManager`, the endpoint |
| `Listen`, `Ended`, `Failed`, `Gone`, `Passes` | the audio routes and prewarms in the cache |

A prewarm that ends resumes its caller without a suspension, so that the two are
one step (`Resumed`). `docs/AUDIO_NARRATION.md:281` speaks of speech prewarmed
in parallel; the code takes one utterance at a time over all batches, and so
does the model. An utterance rebuilt from the database after a restart
(`audio.py:548`) is left out.

### TownRound

The engine awaits the writer of the plan, the mind of each agent, the streaming
hook and, at night, the memory of everybody. `phase`, `at`, `todo`, `slots` and
`prepared` say where it is. At an await (`at # "resolving"`) an observer event
may reach the same state object; `_resolve_actions` never suspends (its
observations are registered without a classifier), so that `at = "resolving"`
only breaks one uninterrupted stretch into a step per group.

| action | code |
| --- | --- |
| `StartRound`, `PlanArrives`, `Dawn` | `run_round` up to `_dawn_phase` |
| `BeginActions`, `Decide`, `MindFails`, `TurnStreamed` | `_action_phase`: `decide` or its fallback, `_prepare_action`, `on_agent_action` |
| `Converse`, `Clash`, `Sacrifice`, `Act`, `EndActions` | `_resolve_actions`, one group (or one action) a step |
| `Midday` | `_midday_phase`, of one piece |
| `NightFalls`, `Reflect`, `Finalise` | `_night_phase` and the end of `run_round` |
| `Inject`, `PlanApproved` | the runtime's observer event and approved plan |

Data are reduced to what the rules look at. Suspicion is an integer (all its
increments are); trust is in half points, threat, resources and influence in
hundredths, with Python's half-to-even rounding where the code rounds. The map
is a corridor of tiles: distance and breadth-first steps keep their meaning. A
memory is the sequence of the rounds of its events, which is what its limit and
the cursor of consolidation depend on. Key memories, relationship notes,
summaries, observations and emotional charge feed prompts only. `sorted` is
`Sorted`: the element at position n is the one with n - 1 elements before it.
Agents are numbered by their place in the list of the state, and where the code
leaves equals in the order of that list the place decides: between cult leaders
of equal influence, partners of equal suspicion and name, and targets at one
distance with one name. The leader of an alliance is the first of its most
influential members that the depth-first walk over the bonds meets
(`DepthFirst`). A target is asked for by id or by a name that several may bear
(`Targets`). Two things are idealised: influence is counted exactly, where
floating point could tell apart in its last bit two scores that are equal, and
the list keeps its order from round to round, which a load from the database
(`db/models.py:96`, no `order_by`) does not promise. The actions left over are
kept in the order in which their groups are resolved (`Grouped`), and the next
group is a prefix of them. What a town may be like before a round is `IsTown`.
Two behaviours a reader may be surprised by are in the model as they are in the
code: an agent whose two morning actions fall into one group talks or collides
with itself, and a bystander is hit when the target asked for is out of range.

### TownPopulation

Departures: recorded once, in the step in which they happen, and final; at most
one exile in a round, of somebody who leaves two others behind. `TownRound`
implements it with its set of active agents and its two histories.

### TurnQueue and TurnDrain

One action of `TurnQueue` per JavaScript callback. `callbacks` are the
completions the game world and the bubble still owe, tagged with their turn, so
that they can come late; `timers` are the store's pending timers. `Stage` is the
assignment a stage makes, and `FinishTurn`, `CompleteTurn`, `StartAction`,
`StartMovement`, `StartThought` and `ProcessNext` chain as the functions of the
store call one another within one callback. What a turn consists of (`kind`) is
fixed at `Init` as the content of the messages to come. `Reset` is leaving the
page.

`TurnDrain` is what the rest of the page knows of the pipeline: it is busy or
not, covered or not, and calls the registered handlers when it drains, unless it
is covered at that moment. `TurnQueue` implements it, and `RoundClient` uses it
in the pipeline's place.

### RoundClient

`page` is the record of the refs of the stores and the view. A handler changes
it to a new value, and `Flush` applies the watchers of the view to the
difference, in the order in which the stores change their sources, as Vue does
before the next callback; `Becomes` is the two together, with the step requests
that were made. `inbox` are the messages on their way, in order; a lost
connection loses those in it and those sent until it is back. The server is what
the page sees of it: it takes a step or refuses it, tells of turns and of a
meeting, ends or fails the round. A meeting is `staged` when its turns are in the
queue and `active` when its scene is open, which is polled by an interval.
Once the page has gone to the report nothing more happens.

## 3. The runs

| run | instance | shows |
| --- | --- | --- |
| `runtime_locked` | 4 requests, 1 experiment, all operations; only the locked ones overlap | `TypeOK`, `NoPartialRound`, `ApprovalAdmitsStep`, `ApprovedPlanRuns`, `AppliedPlanIsFinal`, and `RoundLedger` is implemented |
| `runtime_live` | 2 requests, 2 experiments (one auto-approved), all operations, all overlapping, fair | `LiveStateIsLocked`, `OneRoundAtATime`, `AnnouncementIsBacked`, `StepSettles`, `LockIsServed` under any overlap, failure and restart |
| `narration` | six kinds of round (two agents in a phase; one agent in two phases; a listener; a second attempt; an approval meanwhile, with a listener or with two browsers), 7 keys, 2 entries, everybody leaves at any time, fair | one generation per key and a bounded recent cache (`SingleFlight`, `InflightHasOwner`, `CacheKeepsRecent`); an utterance's name, voice and status (`IndexNamesUtterance`, `ReadyWasSpoken`, `AudioMovesForward`); everybody is answered (`AnsweredUnlessUnread`, `SpeechSettles`, `NarrationSettles`) |
| `turns` | 3 turns of every kind, overlay at any time, fair | `TimersMatchPhase`, `StagesPlayOut`, `InOrder`, `TurnsPlayed`, `DrainedUnlessCovered`, `TurnDrain` is implemented, no deadlock |
| `town_round` | 3 agents, 6 tiles, 3 kinds of town, 6 decisions | `FactionsAreOfActives`, `DepartedAreGone`, `CollapseNeedsShortage`, `MeetingIsTold`, `SuspicionFallsOnlyToARace`, `FactionsShieldTheirOwn`, `EventsAheadOfCursor`, `TownPopulation` is implemented |
| `round_client` | 2 rounds, 4 clicks, a failed round, a lost connection, fair | `WaitsForAStep`, `StallsOnlyOnFailure`, `StepSettles` |

Six runs end in a counterexample: places where the code does not do what its
documentation, its messages or its tests say of it.

| run | statement | what happens |
| --- | --- | --- |
| `runtime_pause_mid_round` | `core.py:66`: pausing does not mutate the current round state | a pause during a step saves the live object, half-played; if the step then fails the store keeps it |
| `runtime_revise_race` | `runtime.py:348`: applied plans cannot be revised | an approval saved while the LLM revises is overwritten by the pending revision |
| `runtime_stray_plan` | `docs/GAME_RUNTIME.md:47`: a step is refused until the plan is approved | after a plan with a later round was saved, the approved plan of the upcoming round is never loaded again |
| `narration_unread_body` | `test_tts_service.py:154`: a cancelled stream clears the in-flight entry | a client gone before the first chunk leaves the entry; later requests for it wait for ever |
| `turns_lost_drain` | `docs/ROUND_FLOW.md:280`: an emptied queue fires its drained handlers | an overlay that opens during the last turn swallows the moment |
| `client_no_report` | `docs/FRONTEND_STATE.md:378`: on experiment_end the page goes to the report | under auto-play, when the last turns still play as experiment_end arrives, neither watcher pushes the report |

The passing runs next to them show what is left of each statement. For the
first three it is a restriction on the clients, stated by the constants of
`runtime_locked` (no unlocked operation overlaps another one). For the others it
is part of the property: `AnsweredUnlessUnread` excepts a client that left
before the body, `DrainedUnlessCovered` a queue that drained under the overlay,
and `StallsOnlyOnFailure` names the three things after which auto-play waits for
nothing. One of them, the refused or failed step, is why the comment at
`SimulationView.vue:450`, which has auto-play recover, is true only of the flag
and not of the loop.

**Bounds.** Of overlapping requests, a holder of the lock and a waiter or an
unlocked handler, on one experiment or on two (`runtime_live`); four in sequence
for plan, approve, step and one more operation (`runtime_locked`). Four are also what
`ApprovedPlanRuns` needs: an approval, a step that passes its first check, and
before it gets the lock another round, and a revision that writes the plan of the
next one. `TotalRounds = 1` lets both the last and a
further round happen. Two experiments show that the lock is shared and the flags
are not. All but the liveness is proved for any number of requests (section 4).
A request is one-shot; a client that retries is another request.

`narration` plays one of its six rounds at a time, each the smallest in which
its interleaving happens: two speakers with and without a voice of their own;
one speaker in two phases (indexes, two batches at the semaphore); an
attempt that fails and is played again; a listener beside the prewarm; an
approval that overlaps the round's own narration, with two browsers. Three keys
and more over two entries force evictions; `MaxEntries` is 16 in the code, which
matters in one way: an entry outlives the tick in which its waiters wake, so
`NoneAwaitedLeaves` keeps the small cache from doing what the real one does not.
`Ageing` lets the narration expire at any other time. `MaxSpeech` and `Attempts`
bound the utterances (a phase completes only while its lines fit) and attempts.

Three turns give a turn before, an active one and one behind; the page may be
reset and start again at any time. `MaxTurns` caps `counter`.

Three agents are the fewest that can exile, ally and stand by at once; two of
them are of equal influence, so that the order of the list decides. The
towns of `MCTowns` are an experiment's first day with a free choice of a
decision, a day with an alliance and suspects, and a day after an exile with
empty stores; `MaxAnswers` decisions are free, all others are what a failing
mind falls back on, and `MaxInjections` bounds observer events. The six
decisions reach every branch of the resolution. `RecentLimit`, `HistoryLimit`
and `PlotlineLimit` are the code's.

`round_client`: two rounds, so that one follows another and one is the last;
four clicks reach step, play, pause and play again; one failure and one lost
connection, at any moment. Past the last round the server refuses, which bounds
the model (the code plays on, see the hazard at `runtime.py:261`).

**Symmetry** is used in the safety runs of the runtime only, over requests, which
no definition tells apart.

**Deadlock** is checked for `TurnQueue`, where new turns or a reset are always
possible. The other models come to their end: one-shot requests are used up, a
town reaches its last round, the page is left for the report.

**Fairness.** `ExperimentRuntime`: weak fairness of each handler, since every
await is a database, LLM or provider call with a timeout that returns or raises;
strong fairness of `AcquireLock`, since `asyncio.Lock` is FIFO. No fairness of
failures, restarts or calls. `NarrationTTS`: weak fairness of a request's
progress (the provider's client has a timeout, abandoned generators are
finalised by the loop); none of clients, in particular not of reading the body.
`RoundStream`: one weak fairness of its `Work`, the sends (a socket's own
timeouts end them), the scheduled tasks and the provider's progress; since all
of it is bounded this stands for one fairness per task. None of the round's own
progress, of clients, browsers or failures. `TurnQueue`: timers fire, the game
world completes what it started, a reader closes the overlay; none for bubble
and audio, which are why the thought has a timer. `RoundClient`: timers,
messages, answers, rounds and the socket's reconnection come, turns play out, and
the user closes overlay and meeting; nobody has to press a button. `TownRound`
has no liveness property: what could stop it is an await that never ends, which
belongs to the modules around it.

## 4. What is proved

Every theorem is of the specification a run checks, for every value of the
constants that the named assumptions allow, without a bound on requests, keys,
sockets, turns, agents or rounds.

### Runtime (`ExperimentRuntimeProofs`, from `RuntimeAssumption`)

- `TypeCorrect`: `TypeOK` is inductive.
- `DisciplineHolds`: `Discipline` is inductive together with `TypeOK`. Neither
  `OneRoundAtATime` nor `LiveStateIsLocked` is inductive by itself: that a round
  holds the lock must be known for *every* position inside `async with` (a
  revision is inside it while it generates a plan, where an ordinary plan
  request is not), which needs `OpPcs` (what a position says about the
  operation) and the equivalence `LockHeld` between position and holder;
  that a flag is cleared with its task needs the one-to-one correspondence
  `TaskFlags`. The proof goes action by action and, under each, part by part.
- `RoundsExclude` and `LiveStateLocked`: the two properties, from `Discipline`.
- `RoundsFollowApprovedPlan`: `ApprovedPlanRuns` is inductive: the check under
  the lock and the choice of the plan look at one and the same object.
- `AnnouncementsHold`: `AnnouncementIsBacked`, through `RecordsWritten` (the
  rows of a step appear in the order of its positions).

### Runtime with clients that take turns (`RuntimeLockedProofs`)

`LockedClients` (only operations that take the lock overlap) is a hypothesis of
these four, and `TruePlans` (a plan is for the upcoming round) of the last two.
They are restrictions on the environment, those of `runtime_locked`, and not on
the code; `runtime_pause_mid_round`, `runtime_revise_race` and
`runtime_stray_plan` show what happens without them.

- `RoundsAreComplete`: `NoPartialRound`. The inductive `LockedInv` says that one
  handler at a time *works*, that whoever works has an object of its own or the
  live one, and that an object that shows a round half-played belongs to the
  round that plays it.
- `HistoryIsALedger`: the refinement of `RoundLedger`, from `LockedInv`: a commit
  is of the round after the stored one, and its snapshot comes before the next.
- `ApprovedIsAdmitted` and `ApprovalsAreFinal`: `ApprovalAdmitsStep` and
  `AppliedPlanIsFinal`, through `PlanInv`: the newest row is at most one round
  ahead and agrees with what every copy of the state says of it.

### Audio (`NarrationProofs`, `RoundStreamProofs`, `SpeechAudioProofs`)

From `NarrationAssumption`, and `StreamAssumption` for the round around it.

- `ServiceType`, `OneStreamPerKey`, `OldestLeaves`: the cache alone.
  `SingleFlight` is not inductive; it follows from `InflightHasOwner` with what a
  position says about the key asked for (`FlightInv`). What leaves the cache is
  found by its position in the sequence (`CacheOK`).
- `StreamTypeCorrect`, `StreamSharesGenerations`, `StreamEvictsOldest`: the same
  with the prewarms as callers. The lemmas about the cache are about what a step
  does to it, not about who takes the step, so that they serve both.
- `OneUtterancePerIndex`: `IndexNamesUtterance`, through `IndexOK`: an index is
  the number of utterances of its agent before it, in the whole log, failed
  attempts included.
- `ReadyMeansSpoken`: `ReadyWasSpoken`. A screen shows what a message said, a
  message says what a batch found, a batch finds what was cached when its
  prewarm ended, and the entry may be evicted at any time after; `HeardOK` has
  one part for each link and remembers what was once spoken.
- `StatusesMoveForward`: `AudioMovesForward`. A status is told by the hook, by
  the batch, and in the order in which each browser's socket is reached;
  `AudioOK` says that each message on its way is ahead of what the screen shows
  (`ScreensBehind`, `QueuesRise`) and that an utterance has one teller.

### Turn pipeline and page (`TurnQueueProofs`, `RoundClientProofs`)

- `TypeCorrect`, `TimersBelong`, `PlayedInOrder`, `StagesHold`, `QueueDrains`
  (from `TurnAssumption`): `TypeOK`, `TimersMatchPhase`, `InOrder`,
  `StagesPlayOut` and the refinement of `TurnDrain`. The callbacks of the world
  may come for turns long gone; the proofs need only that each says which turn
  it was for.
- `AutoPlayWaitsForItsStep`, `AutoPlayStallsOnlyOnFailure` (from
  `ClientAssumption`): `WaitsForAStep` and `StallsOnlyOnFailure`. The inductive
  `ClientOK` adds that the watchers leave nothing asked for behind (`PageOK`) and
  that rounds and messages of the server agree (`TrafficOK`); the lemmas say of
  each watcher which flags it may change.

### Town (`TownRoundProofs`)

From `SocietyAssumption`, `WorldAssumption`, `TownAssumption` and those of the
catalogue, which ask for agents numbered from 1, axes from 0 to 100 and no more:
names may repeat and influence may tie. The two theorems about departures also assume `RosterFits`: that
`exile_history` and `sacrifice_history`, which keep twelve entries, are as long
as the roster. The project's README speaks of 6 to 12 agents; creation does not
enforce it, and a larger town would forget its first departures.

The inductive invariant is `TownOK`: phases and awaits (`RoundOK`), the turns
still to be given out (`TurnsOK`), people and places in range (`PeopleOK`,
`PlacesOK`), and what has been decided on (`DeedsOK`: a sacrifice is made by
somebody who is there and who decides on nothing more). The others come on top.

- `SuspicionLosesOnlyTheRace`: `SuspicionFallsOnlyToARace`, action by action.
- `NoEventIsSkipped`: `EventsAheadOfCursor`, from `MemoryOK`: the cursor is a day
  behind until the night's memory is written.
- `NoCollapseWithoutShortage`: `CollapseNeedsShortage`. A threat of 100 at night
  needs two short stocks, by arithmetic over the weights, the largest crisis and
  the lowest cooperation (`TwoShortages`); the status keeps it (`WorldOK`).
- `FactionsFollowThePeople`: `FactionsAreOfActives`. Cults are recruited by a
  fold over the leaders, and each recruits from those who are free; alliances
  are components of a symmetric relation. `FactionsOK` allows for the stretch
  between a sacrifice and the refresh that it asks for.
- `FactionsProtect`: `FactionsShieldTheirOwn`. A faction of at least half of those
  present is not outvoted: each of its members votes against the exile of one of
  them, unless the suspicion is high enough for everybody (`ShieldIs`), so that
  the tally has no majority for it, in a town of any size.
- `MeetingsAreTold`: `MeetingIsTold`, from `NewsOK`.
- `RoundsKeepThePopulation`: the refinement of `TownPopulation`, with `HistoryOK`:
  the histories hold who has left, once each.
- `NobodyHauntsAPlace`: `DepartedAreGone`. A sacrifice is decided on last
  (`TheirLast`); groups are put in the order of their first actions, so that an
  earlier action of the same agent comes after it only when somebody else's
  sacrifice opened the group (`Foreseen`), which is then in the history when the
  agent follows.
- `TypeCorrect`: `TypeOK`, with trust moved by conversations and votes inside
  `Bonds`, again through folds.

Two kinds of operators needed lemmas of their own. `Sorted` is given by counting;
that every position is taken and taken once is `RanksAreTaken` and `SortedIs`.
`FoldLeft` is defined by a CHOOSE of a function over the subsets of indexes;
`FoldExists` shows by a least counterexample that there is such a function, and
`FoldStays` that a fold whose step keeps a set stays in it. They speak of what a
fold *preserves*, without induction over data; what it computes stays with TLC.

### Only model-checked

Liveness (`StepSettles`, `LockIsServed`, `AnsweredUnlessUnread`, `SpeechSettles`,
`NarrationSettles`, `TurnsPlayed`, `DrainedUnlessCovered`, and `StepSettles` of
the page) needs fairness and ENABLED, which are outside of this prover's reach.
The six counterexamples are TLC's. Everything else that the passing runs check is
stated by a theorem.


## 5. What is not modelled

- The **LLM client** retries once in sequence and records usage; for the models
  around it an LLM call is an await that returns anything or raises.
- The **game session** and its table of completions per agent. The fairness of
  `TurnQueue` assumes the completions come, which an agent removed or sent
  elsewhere can break (`GameSession.ts:434`).
- The back-off of the **WebSocket** client, and a view left while it
  initialises, which needs two views on one store.
- An utterance or a narration rebuilt from the database after a **restart**, in
  `audio.py`.
- **Analytics**, **highlights**, prompts, **rendering** and the **headless
  runner** read, draw or run in sequence.

One composition is told apart into two runs: the prewarm of a round's narration
waits on the audio cache under the runtime's lock. `narration_unread_body` shows
a wait that never ends, and the fairness of `ExperimentRuntime`, under which
`LockIsServed` holds, is the assumption that it does not happen.

## 6. Plan

1. `GameSession`: completions per agent, overwritten and removed, under
   `TurnQueue`'s assumption that they come.
2. Restart in `RoundStream`: the utterance log rebuilt from the database.
3. Proofs: that no pair of handlers other than those of the three races breaks
   `NoPartialRound`, which would let `LockedClients` name the operations that
   must not overlap instead of all that are unlocked; that `StepToward` goes no
   further than two tiles.
