---------------------------- MODULE RoundClient ----------------------------
(***************************************************************************)
(* The browser's side of a round: the Step, Play and Pause buttons, auto-  *)
(* play, and the end of a round that waits for the turns and the meeting   *)
(* (frontend/src/views/SimulationView.vue, stores/experiment.ts and ui.ts, *)
(* composables/useWebSocket.ts and wsRouter.ts).                           *)
(*                                                                         *)
(* The turn queue is TurnDrain, which TurnQueue implements; the server is  *)
(* what the page sees of it: steps refused or taken, messages in order.    *)
(* Every step is one callback followed by the watchers it triggers, which  *)
(* Vue runs before the next callback in the order they were triggered.     *)
(***************************************************************************)
EXTENDS Integers, Sequences

CONSTANTS
    TotalRounds,   (* total_rounds of the experiment                         *)
    MaxActs,       (* bound on the turns of a round that the page hears of   *)
    MaxClicks,     (* bound on the clicks on the three buttons               *)
    MaxFailures,   (* bound on the rounds that fail                          *)
    MaxDrops       (* bound on the losses of the connection                  *)

ASSUME ClientAssumption ==
    /\ TotalRounds \in Nat \ {0}
    /\ {MaxActs, MaxClicks, MaxFailures, MaxDrops} \subseteq Nat

VARIABLES
    page,      (* the refs of the stores and of the view                     *)
    asked,     (* Play and Pause requests on their way                       *)
    meeting,   (* the meeting scene: none, staged, active                    *)
    up,        (* the WebSocket is open                                      *)
    inbox,     (* messages sent to this page and not yet handled             *)
    requests,  (* step requests on their way to the server                   *)
    refused,   (* refusals on their way back                                 *)
    round,     (* the server's current_round                                 *)
    acts,      (* turns sent in the round that is played, -1 when none is    *)
    spent,     (* clicks, failures and drops so far                          *)
    busy, covered, drained   (* the turn queue                               *)

serverVars == <<round, acts, requests, refused>>
queueVars == <<busy, covered, drained>>
vars == <<page, asked, meeting, up, inbox, serverVars, spent, queueVars>>

Turns == INSTANCE TurnDrain WITH Waiters <- {"roundEnd"}

Serving == acts >= 0

(* The page is left for the report.                                           *)
Shown == ~page.report

(* ending is the round whose round_end waits to be finalised, 0 when          *)
(* roundEndPending is false; agents the round whose agents are shown.         *)
NewPage ==
    [stepping |-> FALSE, playing |-> FALSE, waiting |-> FALSE, timer |-> FALSE,
     asks |-> 0, ending |-> 0, rounds |-> 0, agents |-> 0,
     complete |-> FALSE, report |-> FALSE]

Init ==
    /\ page = NewPage
    /\ asked = {}
    /\ meeting = "none"
    /\ up = TRUE
    /\ inbox = <<>>
    /\ requests = 0 /\ refused = 0
    /\ round = 0
    /\ acts = -1
    /\ spent = [clicks |-> 0, failures |-> 0, drops |-> 0]
    /\ Turns!DrainInit

-----------------------------------------------------------------------------
(* Handlers and watchers, as functions of the page.                          *)

ClearStepping(p) == [p EXCEPT !.stepping = FALSE]

(* handleStep, up to the await of stepRound.                                  *)
HandleStep(p) ==
    IF p.stepping THEN p ELSE [p EXCEPT !.stepping = TRUE, !.asks = @ + 1]

(* The watcher of isPlaying when it turns false.                              *)
Stopped(p) ==
    [p EXCEPT !.playing = FALSE, !.timer = FALSE, !.waiting = FALSE,
              !.stepping = FALSE]

AutoStep(p) ==
    IF ~p.playing \/ p.complete THEN Stopped(p)
    ELSE HandleStep([p EXCEPT !.waiting = TRUE, !.timer = FALSE])

OnPlaying(was, p) ==
    IF p.playing = was.playing THEN p
    ELSE IF p.playing THEN AutoStep(p) ELSE Stopped(p)

(* Mutant: the round counter alone ends the wait.                             *)
OnSteppingIgnored(was, p) == p

OnStepping(was, p) ==
    IF was.stepping /\ ~p.stepping THEN [p EXCEPT !.waiting = FALSE] ELSE p

(* Mutant: the wait for the round ends, and nothing follows it.               *)
OnRoundsUnscheduled(was, p) ==
    IF p.rounds = was.rounds \/ ~p.waiting \/ ~p.playing THEN p
    ELSE [p EXCEPT !.waiting = FALSE]

OnRounds(was, p) ==
    IF p.rounds = was.rounds \/ ~p.waiting \/ ~p.playing THEN p
    ELSE IF p.complete
    THEN [p EXCEPT !.waiting = FALSE, !.playing = FALSE, !.report = TRUE]
    ELSE [p EXCEPT !.waiting = FALSE, !.timer = TRUE]

OnComplete(was, p) ==
    IF p.complete /\ ~was.complete /\ ~p.playing
    THEN [p EXCEPT !.report = TRUE] ELSE p

(* The watchers run in the order in which the stores change their sources.    *)
Flush(was, p) ==
    OnPlaying(was, OnStepping(was, OnRounds(was, OnComplete(was, p))))

(* The page after a handler that changes it to p; its step request, if it     *)
(* made one, leaves.                                                          *)
Becomes(p) ==
    LET after == Flush(page, p) IN
    /\ page' = [after EXCEPT !.asks = 0]
    /\ requests' = requests + after.asks

(* Mutant: the stepping flag is left to experiment_end.                       *)
FinaliseStepping(p) ==
    [p EXCEPT !.agents = p.ending, !.ending = 0, !.rounds = @ + 1]

(* finalize of onRoundEnd.                                                    *)
Finalise(p) ==
    ClearStepping([p EXCEPT !.agents = p.ending, !.ending = 0, !.rounds = @ + 1])

(* tryProceed of waitForReady.  While the scene is open an interval looks     *)
(* again, CheckMeeting below.                                                 *)
TryProceed(p) ==
    \/ Turns!Registers("roundEnd") /\ Becomes(p)
    \/ /\ ~busy
       /\ Becomes(IF meeting = "active" THEN p ELSE Finalise(p))
       /\ UNCHANGED queueVars

-----------------------------------------------------------------------------
(* The user.                                                                  *)

Clicks ==
    /\ Shown
    /\ ~page.complete /\ spent.clicks < MaxClicks
    /\ spent' = [spent EXCEPT !.clicks = @ + 1]

Step ==
    /\ Clicks
    /\ ~page.playing /\ ~page.stepping
    /\ Becomes(HandleStep(page))
    /\ UNCHANGED <<asked, meeting, up, inbox, refused, round, acts, queueVars>>

Asks(button) ==
    /\ Clicks
    /\ button = IF page.playing THEN "pause" ELSE "play"
    /\ asked' = asked \cup {button}
    /\ UNCHANGED <<page, meeting, up, inbox, serverVars, queueVars>>

(* handleStart and handlePause, after the await.                              *)
Answered(button) ==
    /\ Shown
    /\ button \in asked
    /\ asked' = asked \ {button}
    /\ Becomes([page EXCEPT !.playing = (button = "play")])
    /\ UNCHANGED <<meeting, up, inbox, refused, round, acts, spent, queueVars>>

AutoPlayFires ==
    /\ Shown
    /\ page.timer
    /\ Becomes(AutoStep(page))
    /\ UNCHANGED <<asked, meeting, up, inbox, refused, round, acts, spent, queueVars>>

(* handleStep, when stepRound throws.                                         *)
StepRefused ==
    /\ Shown
    /\ refused > 0
    /\ refused' = refused - 1
    /\ Becomes([page EXCEPT !.stepping = FALSE, !.waiting = FALSE])
    /\ UNCHANGED <<asked, meeting, up, inbox, round, acts, spent, queueVars>>

-----------------------------------------------------------------------------
(* Messages: wsRouter.                                                        *)

Handles(kind) ==
    /\ Shown
    /\ inbox # <<>> /\ Head(inbox).kind = kind
    /\ inbox' = Tail(inbox)
    /\ UNCHANGED <<asked, up, refused, round, acts, spent>>

RoundStarts ==
    /\ Handles("round_start")
    /\ Becomes([page EXCEPT !.complete = FALSE])
    /\ UNCHANGED <<meeting, queueVars>>

(* gm_narration opens the overlay, which blocks the queue.                    *)
Narrates ==
    /\ Handles("narration")
    /\ IF covered THEN UNCHANGED queueVars ELSE Turns!Covers
    /\ UNCHANGED <<page, meeting, requests>>

(* agent_action and its like; the turns of a meeting will open its scene.     *)
TurnComes(kind) ==
    /\ Handles(kind)
    /\ Turns!TurnArrives
    /\ meeting' = IF kind = "meeting" THEN "staged" ELSE meeting
    /\ UNCHANGED <<page, requests>>

OnRoundEnd ==
    /\ Handles("round_end")
    /\ IF page.ending # 0 THEN UNCHANGED <<page, requests, queueVars>>
       ELSE TryProceed([page EXCEPT !.ending = Head(inbox).round,
                                    !.complete = Head(inbox).last])
    /\ UNCHANGED meeting

OnEnd ==
    /\ Handles("experiment_end")
    /\ Becomes(ClearStepping([page EXCEPT !.complete = TRUE]))
    /\ UNCHANGED <<meeting, queueVars>>

OnStepError ==
    /\ Handles("step_error")
    /\ Becomes(ClearStepping(page))
    /\ UNCHANGED <<meeting, queueVars>>

-----------------------------------------------------------------------------
(* The turn queue, the meeting scene and the narration overlay.               *)

QueueDrains ==
    /\ Shown
    /\ meeting # "staged"
    /\ Turns!Drains
    /\ Becomes(IF drained = {} \/ meeting = "active" THEN page ELSE Finalise(page))
    /\ UNCHANGED <<asked, meeting, up, inbox, refused, round, acts, spent>>

QueueDrainsCovered ==
    /\ Shown
    /\ meeting # "staged"
    /\ Turns!DrainsUnheard
    /\ UNCHANGED <<page, asked, meeting, up, inbox, serverVars, spent>>

(* The queue reaches the first turn of the meeting.                           *)
MeetingActivates ==
    /\ Shown
    /\ meeting = "staged" /\ ~covered
    /\ meeting' = "active"
    /\ UNCHANGED <<page, asked, up, inbox, serverVars, spent, queueVars>>

MeetingDismissed ==
    /\ Shown
    /\ meeting = "active"
    /\ meeting' = "none"
    /\ UNCHANGED <<page, asked, up, inbox, serverVars, spent, queueVars>>

(* The interval that waits for the scene to close.                            *)
CheckMeeting ==
    /\ Shown
    /\ page.ending # 0 /\ drained = {} /\ meeting # "active"
    /\ TryProceed(page)
    /\ UNCHANGED <<asked, meeting, up, inbox, refused, round, acts, spent>>

NarrationClosed ==
    /\ Shown
    /\ covered
    /\ Turns!Covers
    /\ UNCHANGED <<page, asked, meeting, up, inbox, serverVars, spent>>

-----------------------------------------------------------------------------
(* The connection and the server.                                             *)

(* onclose, and the watcher of the connection's state.                        *)
Disconnects ==
    /\ Shown
    /\ up /\ spent.drops < MaxDrops
    /\ up' = FALSE
    /\ inbox' = <<>>
    /\ spent' = [spent EXCEPT !.drops = @ + 1]
    /\ Becomes([page EXCEPT !.playing = FALSE, !.stepping = FALSE,
                            !.waiting = page.waiting /\ ~page.stepping])
    /\ UNCHANGED <<asked, meeting, refused, round, acts, queueVars>>

Reconnects ==
    /\ Shown
    /\ ~up
    /\ up' = TRUE
    /\ UNCHANGED <<page, asked, meeting, inbox, serverVars, spent, queueVars>>

Sends(messages) == inbox' = IF up THEN inbox \o messages ELSE inbox

(* start_step.  A narration may come with the start of the round.             *)
ServerTakes ==
    /\ Shown
    /\ requests > 0 /\ ~Serving /\ round < TotalRounds
    /\ requests' = requests - 1
    /\ round' = round + 1
    /\ acts' = 0
    /\ \E told \in {<<>>, <<[kind |-> "narration"]>>} :
         Sends(<<[kind |-> "round_start"]>> \o told)
    /\ UNCHANGED <<page, asked, meeting, up, refused, spent, queueVars>>

(* 409 while a round is in progress; past the last round by the bound.        *)
ServerRefuses ==
    /\ Shown
    /\ requests > 0 /\ (Serving \/ round = TotalRounds)
    /\ requests' = requests - 1
    /\ refused' = refused + 1
    /\ UNCHANGED <<page, asked, meeting, up, inbox, round, acts, spent, queueVars>>

ServerTells ==
    /\ Shown
    /\ Serving /\ acts < MaxActs
    /\ acts' = acts + 1
    /\ \E kind \in {"turn", "meeting"} : Sends(<<[kind |-> kind]>>)
    /\ UNCHANGED <<page, asked, meeting, up, requests, refused, round, spent, queueVars>>

(* broadcast_round_end.                                                       *)
ServerEnds ==
    /\ Shown
    /\ Serving
    /\ acts' = -1
    /\ LET last == round = TotalRounds
           end == [kind |-> "round_end", round |-> round, last |-> last]
       IN Sends(<<end>> \o IF last THEN <<[kind |-> "experiment_end"]>> ELSE <<>>)
    /\ UNCHANGED <<page, asked, meeting, up, requests, refused, round, spent, queueVars>>

ServerFails ==
    /\ Shown
    /\ Serving /\ spent.failures < MaxFailures
    /\ acts' = -1
    /\ round' = round - 1
    /\ spent' = [spent EXCEPT !.failures = @ + 1]
    /\ Sends(<<[kind |-> "step_error"]>>)
    /\ UNCHANGED <<page, asked, meeting, up, requests, refused, queueVars>>

-----------------------------------------------------------------------------
Message ==
    \/ RoundStarts \/ Narrates \/ OnRoundEnd \/ OnEnd \/ OnStepError
    \/ \E kind \in {"turn", "meeting"} : TurnComes(kind)

Scene == QueueDrains \/ QueueDrainsCovered \/ MeetingActivates

Server == ServerTakes \/ ServerRefuses \/ ServerTells \/ ServerEnds \/ ServerFails

Next ==
    \/ Step \/ AutoPlayFires \/ StepRefused \/ Message \/ Scene \/ Server
    \/ MeetingDismissed \/ CheckMeeting \/ NarrationClosed
    \/ Disconnects \/ Reconnects
    \/ \E button \in {"play", "pause"} : Asks(button) \/ Answered(button)

Spec == Init /\ [][Next]_vars

(* Timers fire, messages and answers arrive, rounds end, turns play out, the  *)
(* socket reconnects, and the user closes the overlay and the meeting.  Nobody *)
(* has to press a button, and a connection need not be lost.                  *)
FairSpec ==
    /\ Spec
    /\ WF_vars(AutoPlayFires) /\ WF_vars(StepRefused)
    /\ WF_vars(Message) /\ WF_vars(Scene) /\ WF_vars(Server)
    /\ WF_vars(MeetingDismissed) /\ WF_vars(CheckMeeting)
    /\ WF_vars(NarrationClosed) /\ WF_vars(Reconnects)
    /\ \A button \in {"play", "pause"} : WF_vars(Answered(button))

-----------------------------------------------------------------------------
(* Auto-play waits for a round only while a step of this page is under way,   *)
(* and either waits or has its timer set, so that no round is asked for twice *)
(* (SimulationView.vue:300-349, 452-456).                                     *)
WaitsForAStep ==
    /\ page.waiting => page.playing /\ page.stepping
    /\ page.timer => page.playing /\ ~page.stepping /\ ~page.waiting

(* Auto-play that waits for nothing and has nothing scheduled: only Pause ends *)
(* it.                                                                        *)
Stalled == page.playing /\ ~page.waiting /\ ~page.timer

(* Auto-play stalls only when a step is refused or fails, or when             *)
(* experiment_end comes before the last round has been finalised.  That the   *)
(* watchers see each change in the right order is what it rests on: the       *)
(* counter's before the stepping flag's (SimulationView.vue:325, 452).        *)
StallsOnlyOnFailure ==
    [][Stalled' /\ ~Stalled =>
          \/ refused' < refused
          \/ /\ inbox # <<>> /\ inbox' = Tail(inbox)
             /\ Head(inbox).kind \in {"step_error", "experiment_end"}]_vars

(* The end of a round that waits in a queue which has drained under the       *)
(* overlay: the handler stays registered, and only a later turn calls it.     *)
LeftBehind == page.ending # 0 /\ ~busy /\ drained # {}

(* The stepping flag that locks the buttons is always cleared again, as long  *)
(* as no message is lost and no round's end is left behind in the queue       *)
(* (experiment.ts:112-172, SimulationView.vue:254-267, wsRouter.ts:61).       *)
StepSettles ==
    []<>(~page.stepping \/ page.report \/ LeftBehind \/ spent.drops > 0)

(* "On experiment_end: ... watch(isComplete) fires -> router.push to          *)
(* ReportView" (docs/FRONTEND_STATE.md:378-380).                              *)
ReportShown == page.complete ~> page.report
=============================================================================
