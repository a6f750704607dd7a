-------------------------- MODULE RoundClientProofs --------------------------
(***************************************************************************)
(* Proofs about RoundClient: whatever the page and the server do, and in   *)
(* whatever order answers and messages arrive, auto-play waits only for a  *)
(* step of its own, and stalls only where StallsOnlyOnFailure says.        *)
(***************************************************************************)
EXTENDS RoundClient, SequenceTheorems, TLAPS

Pages ==
    [stepping : BOOLEAN, playing : BOOLEAN, waiting : BOOLEAN, timer : BOOLEAN,
     asks : Nat, ending : Nat, rounds : Nat, agents : Nat,
     complete : BOOLEAN, report : BOOLEAN]

(* WaitsForAStep and Stalled, of a page.                                     *)
Waits(p) ==
    /\ p.waiting => p.playing /\ p.stepping
    /\ p.timer => p.playing /\ ~p.stepping /\ ~p.waiting
Stalls(p) == p.playing /\ ~p.waiting /\ ~p.timer

Kinds == {"round_start", "narration", "turn", "meeting", "round_end", "experiment_end",
          "step_error"}
RoundEndMessages == [kind : {"round_end"}, round : Nat, last : BOOLEAN]
Messages == [kind : Kinds \ {"round_end"}] \cup RoundEndMessages

PageOK == page \in Pages /\ page.asks = 0
TrafficOK ==
    /\ inbox \in Seq(Messages)
    /\ refused \in Nat /\ requests \in Nat
    /\ round \in 0 .. TotalRounds /\ acts \in Int
    /\ Serving => round # 0

ClientOK == PageOK /\ TrafficOK /\ WaitsForAStep

-----------------------------------------------------------------------------
(* The watchers.                                                             *)

(* The flags of auto-play, which is all that the watchers look at.            *)
SameFlags(p, q) ==
    /\ q.stepping = p.stepping /\ q.playing = p.playing
    /\ q.waiting = p.waiting /\ q.timer = p.timer

LEMMA CompleteKeeps ==
    ASSUME NEW was \in Pages, NEW p \in Pages
    PROVE  /\ OnComplete(was, p) \in Pages /\ SameFlags(p, OnComplete(was, p))
           /\ OnComplete(was, p).rounds = p.rounds
           /\ OnComplete(was, p).complete = p.complete
BY DEF OnComplete, Pages, SameFlags

LEMMA RoundsSchedule ==
    ASSUME NEW was \in Pages, NEW p \in Pages
    PROVE  LET q == OnRounds(was, p) IN
           /\ q \in Pages /\ q.stepping = p.stepping /\ q.complete = p.complete
           /\ p.rounds = was.rounds \/ ~p.waiting \/ ~p.playing => SameFlags(p, q)
           /\ p.rounds # was.rounds /\ p.waiting /\ p.playing =>
                /\ ~q.waiting
                /\ q.playing = ~p.complete
                /\ q.timer = (p.timer \/ ~p.complete)
<1>1. CASE p.rounds = was.rounds \/ ~p.waiting \/ ~p.playing
  BY <1>1 DEF OnRounds, SameFlags
<1>2. CASE ~(p.rounds = was.rounds \/ ~p.waiting \/ ~p.playing)
  BY <1>2 DEF OnRounds, Pages
<1>. QED BY <1>1, <1>2

LEMMA SteppingEndsTheWait ==
    ASSUME NEW was \in Pages, NEW p \in Pages
    PROVE  LET q == OnStepping(was, p) IN
           /\ q \in Pages /\ q.stepping = p.stepping /\ q.complete = p.complete
           /\ q.playing = p.playing /\ q.timer = p.timer
           /\ q.waiting = (p.waiting /\ ~(was.stepping /\ ~p.stepping))
BY DEF OnStepping, Pages

LEMMA StoppedIs ==
    ASSUME NEW p \in Pages
    PROVE  Stopped(p) \in Pages /\ Waits(Stopped(p)) /\ ~Stopped(p).playing
BY DEF Stopped, Pages, Waits

LEMMA AutoStepIs ==
    ASSUME NEW p \in Pages
    PROVE  /\ AutoStep(p) \in Pages /\ Waits(AutoStep(p)) /\ ~Stalls(AutoStep(p))
           /\ AutoStep(p).rounds = p.rounds
           /\ AutoStep(p).playing => p.playing
<1>1. CASE ~p.playing \/ p.complete
  <2>1. AutoStep(p) = Stopped(p)
    BY <1>1 DEF AutoStep
  <2>2. Stopped(p).rounds = p.rounds
    BY DEF Stopped, Pages
  <2>. QED BY <2>1, <2>2, StoppedIs DEF Stalls
<1>2. CASE p.playing /\ ~p.complete
  <2>. DEFINE q == [p EXCEPT !.waiting = TRUE, !.timer = FALSE]
  <2>1. /\ q \in Pages /\ q.waiting /\ ~q.timer /\ q.playing = p.playing
        /\ q.stepping = p.stepping /\ q.rounds = p.rounds
    BY DEF Pages
  <2>2. AutoStep(p) = HandleStep(q)
    BY <1>2 DEF AutoStep
  <2>. HIDE DEF q
  <2>3. /\ HandleStep(q) \in Pages /\ HandleStep(q).waiting /\ HandleStep(q).stepping
        /\ ~HandleStep(q).timer /\ HandleStep(q).playing = q.playing
        /\ HandleStep(q).rounds = q.rounds
    <3>1. CASE q.stepping
      BY <2>1, <3>1 DEF HandleStep
    <3>2. CASE ~q.stepping
      <4>1. HandleStep(q) = [q EXCEPT !.stepping = TRUE, !.asks = @ + 1]
        BY <3>2 DEF HandleStep
      <4>2. q.asks + 1 \in Nat
        BY <2>1 DEF Pages
      <4>3. HandleStep(q) \in Pages
        BY <2>1, <4>1, <4>2 DEF Pages
      <4>4. /\ HandleStep(q).waiting = q.waiting /\ HandleStep(q).timer = q.timer
            /\ HandleStep(q).playing = q.playing /\ HandleStep(q).rounds = q.rounds
            /\ HandleStep(q).stepping
        BY <2>1, <4>1 DEF Pages
      <4>. QED BY <2>1, <4>3, <4>4
    <3>. QED BY <3>1, <3>2
  <2>. QED BY <1>2, <2>1, <2>2, <2>3 DEF Waits, Stalls
<1>. QED BY <1>1, <1>2 DEF Pages

(* What a handler leaves to the watchers: a step that auto-play waits for may  *)
(* have ended, and with the round's end it has.                              *)
Handled(was, p) ==
    /\ p.rounds # was.rounds => p.playing = was.playing
    /\ p.playing = was.playing =>
         /\ p.waiting => p.playing /\ (p.stepping \/ was.stepping)
         /\ p.timer => p.playing /\ ~p.stepping /\ ~p.waiting
         /\ p.rounds # was.rounds => ~p.stepping

(* Auto-play that goes on has what it waits for, or the round's end to follow. *)
GoesOn(was, p) ==
    p.playing /\ was.playing =>
        /\ p.waiting \/ p.timer \/ Stalls(was)
        /\ p.waiting => p.stepping \/ p.rounds # was.rounds

LEMMA FlushIs ==
    ASSUME NEW was \in Pages, NEW p \in Pages, Handled(was, p)
    PROVE  /\ Flush(was, p) \in Pages /\ Waits(Flush(was, p))
           /\ GoesOn(was, p) /\ Stalls(Flush(was, p)) => Stalls(was)
<1>. DEFINE c == OnComplete(was, p)
            r == OnRounds(was, c)
            s == OnStepping(was, r)
<1>1. Flush(was, p) = OnPlaying(was, s)
  BY DEF Flush
<1>2. c \in Pages /\ SameFlags(p, c) /\ c.rounds = p.rounds
  BY CompleteKeeps
<1>. HIDE DEF c
<1>3. /\ r \in Pages /\ r.stepping = c.stepping
      /\ c.rounds = was.rounds \/ ~c.waiting \/ ~c.playing => SameFlags(c, r)
      /\ c.rounds # was.rounds /\ c.waiting /\ c.playing =>
           /\ ~r.waiting
           /\ r.playing = ~c.complete
           /\ r.timer = (c.timer \/ ~c.complete)
  BY <1>2, RoundsSchedule
<1>. HIDE DEF r
<1>4. /\ s \in Pages /\ s.stepping = r.stepping
      /\ s.playing = r.playing /\ s.timer = r.timer
      /\ s.waiting = (r.waiting /\ ~(was.stepping /\ ~r.stepping))
  BY <1>3, SteppingEndsTheWait
<1>. HIDE DEF s
<1>5. CASE s.playing # was.playing
  <2>1. CASE s.playing
    <3>1. OnPlaying(was, s) = AutoStep(s)
      BY <1>5, <2>1 DEF OnPlaying
    <3>. QED BY <1>1, <1>4, <3>1, AutoStepIs
  <2>2. CASE ~s.playing
    <3>1. OnPlaying(was, s) = Stopped(s)
      BY <1>5, <2>2 DEF OnPlaying
    <3>. QED BY <1>1, <1>4, <3>1, StoppedIs DEF Stalls
  <2>. QED BY <2>1, <2>2
<1>6. CASE s.playing = was.playing
  <2>1. OnPlaying(was, s) = s
    BY <1>6 DEF OnPlaying
  <2>2. p.playing = was.playing
    BY <1>2, <1>3, <1>4, <1>6 DEF Handled, SameFlags, Pages
  <2>3. Waits(s)
    BY <1>2, <1>3, <1>4, <1>6, <2>2 DEF Handled, SameFlags, Pages, Waits
  <2>4. GoesOn(was, p) /\ Stalls(s) => Stalls(was)
    BY <1>2, <1>3, <1>4, <1>6, <2>2 DEF Handled, SameFlags, Pages, GoesOn, Stalls
  <2>. QED BY <1>1, <1>4, <2>1, <2>3, <2>4
<1>. QED BY <1>5, <1>6

-----------------------------------------------------------------------------
(* The handlers.                                                             *)

(* A callback that leaves p to the watchers.                                 *)
BecomesOK(p) == p \in Pages /\ Handled(page, p) /\ Becomes(p)

LEMMA BecomesKeeps ==
    ASSUME ClientOK, NEW p, BecomesOK(p)
    PROVE  /\ PageOK' /\ WaitsForAStep' /\ requests' \in Nat
           /\ GoesOn(page, p) /\ Stalled' => Stalled
<1>. USE DEF ClientOK, PageOK, TrafficOK
<1>. DEFINE after == Flush(page, p)
<1>1. /\ after \in Pages /\ Waits(after)
      /\ GoesOn(page, p) /\ Stalls(after) => Stalls(page)
  BY FlushIs DEF BecomesOK
<1>2. page' = [after EXCEPT !.asks = 0] /\ requests' = requests + after.asks
  BY DEF BecomesOK, Becomes
<1>. HIDE DEF after
<1>3. page' \in Pages /\ page'.asks = 0 /\ SameFlags(after, page') /\ after.asks \in Nat
  BY <1>1, <1>2 DEF Pages, SameFlags
<1>4. requests' \in Nat
  BY <1>2, <1>3
<1>. QED BY <1>1, <1>3, <1>4 DEF SameFlags, Waits, Stalls, WaitsForAStep, Stalled, Pages

LEMMA SamePage ==
    ASSUME ClientOK, UNCHANGED page
    PROVE  PageOK' /\ WaitsForAStep' /\ (Stalled' => Stalled)
BY DEF ClientOK, PageOK, WaitsForAStep, Stalled

LEMMA Handles0 ==
    ASSUME ClientOK
    PROVE  /\ Handled(page, page) /\ page \in Pages
           /\ Handled(page, ClearStepping(page)) /\ ClearStepping(page) \in Pages
BY DEF ClientOK, PageOK, WaitsForAStep, Handled, ClearStepping, Pages

LEMMA FinaliseIs ==
    ASSUME ClientOK, NEW p \in Pages, SameFlags(page, p), p.rounds = page.rounds
    PROVE  /\ p \in Pages /\ Handled(page, p) /\ GoesOn(page, p)
           /\ Finalise(p) \in Pages /\ Handled(page, Finalise(p)) /\ GoesOn(page, Finalise(p))
<1>. USE DEF ClientOK, PageOK, WaitsForAStep
<1>1. Handled(page, p) /\ GoesOn(page, p)
  BY DEF Handled, GoesOn, SameFlags, Stalls, Pages
<1>. DEFINE f == Finalise(p)
<1>2. p.rounds + 1 \in Nat /\ p.ending \in Nat /\ p.rounds + 1 # p.rounds
  BY DEF Pages
<1>3. /\ f \in Pages /\ f.rounds = p.rounds + 1 /\ ~f.stepping
      /\ f.playing = p.playing /\ f.waiting = p.waiting /\ f.timer = p.timer
  BY <1>2 DEF Finalise, ClearStepping, Pages
<1>. HIDE DEF f
<1>4. Handled(page, f) /\ GoesOn(page, f)
  BY <1>2, <1>3 DEF Handled, GoesOn, SameFlags, Stalls, Pages
<1>. QED BY <1>1, <1>3, <1>4 DEF f

LEMMA ProceedKeeps ==
    ASSUME ClientOK, NEW p \in Pages, SameFlags(page, p), p.rounds = page.rounds,
           TryProceed(p) \/ Becomes(p) \/ Becomes(Finalise(p))
    PROVE  PageOK' /\ WaitsForAStep' /\ requests' \in Nat /\ (Stalled' => Stalled)
<1>1. Becomes(p) \/ Becomes(Finalise(p))
  BY DEF TryProceed
<1>. QED BY <1>1, FinaliseIs, BecomesKeeps DEF BecomesOK

(* A stall for one of the reasons that StallsOnlyOnFailure names.             *)
Excused ==
    \/ refused' < refused
    \/ /\ inbox # <<>> /\ inbox' = Tail(inbox)
       /\ Head(inbox).kind \in {"step_error", "experiment_end"}

LEMMA UserKeeps ==
    ASSUME ClientOK,
           \/ Step \/ AutoPlayFires \/ StepRefused \/ Disconnects
           \/ \E button \in {"play", "pause"} : Answered(button)
    PROVE  PageOK' /\ WaitsForAStep' /\ requests' \in Nat /\ (Stalled' => Stalled \/ Excused)
<1>. USE DEF ClientOK, PageOK
<1>1. CASE Step
  <2>1. ~page.playing /\ ~page.stepping /\ Becomes(HandleStep(page))
    BY <1>1 DEF Step
  <2>2. page.asks + 1 \in Nat
    BY DEF Pages
  <2>3. HandleStep(page) = [page EXCEPT !.stepping = TRUE, !.asks = @ + 1]
    BY <2>1 DEF HandleStep
  <2>4. HandleStep(page) \in Pages
    BY <2>2, <2>3 DEF Pages
  <2>5. Handled(page, HandleStep(page)) /\ GoesOn(page, HandleStep(page))
    BY <2>1, <2>3 DEF Handled, GoesOn, WaitsForAStep, Pages
  <2>. QED BY <2>1, <2>4, <2>5, BecomesKeeps DEF BecomesOK
<1>2. CASE AutoPlayFires
  <2>. DEFINE p == AutoStep(page)
  <2>1. page.timer /\ Becomes(p)
    BY <1>2 DEF AutoPlayFires
  <2>2. /\ p \in Pages /\ Waits(p) /\ ~Stalls(p) /\ p.rounds = page.rounds
    BY AutoStepIs
  <2>. HIDE DEF p
  <2>3. Handled(page, p) /\ GoesOn(page, p)
    BY <2>2 DEF Handled, GoesOn, Waits, Stalls, Pages
  <2>. QED BY <2>1, <2>2, <2>3, BecomesKeeps DEF BecomesOK
<1>3. CASE StepRefused
  <2>. DEFINE p == [page EXCEPT !.stepping = FALSE, !.waiting = FALSE]
  <2>1. refused > 0 /\ refused' = refused - 1 /\ Becomes(p)
    BY <1>3 DEF StepRefused
  <2>2. p \in Pages /\ Handled(page, p)
    BY DEF Handled, WaitsForAStep, Pages
  <2>. HIDE DEF p
  <2>3. Excused
    BY <2>1 DEF Excused, TrafficOK
  <2>. QED BY <2>1, <2>2, <2>3, BecomesKeeps DEF BecomesOK
<1>4. CASE Disconnects
  <2>. DEFINE p == [page EXCEPT !.playing = FALSE, !.stepping = FALSE,
                                !.waiting = page.waiting /\ ~page.stepping]
  <2>1. Becomes(p)
    BY <1>4 DEF Disconnects
  <2>2. p \in Pages /\ Handled(page, p) /\ GoesOn(page, p)
    BY DEF Handled, GoesOn, WaitsForAStep, Pages
  <2>. HIDE DEF p
  <2>. QED BY <2>1, <2>2, BecomesKeeps DEF BecomesOK
<1>5. ASSUME NEW button \in {"play", "pause"}, Answered(button)
      PROVE  PageOK' /\ WaitsForAStep' /\ requests' \in Nat /\ (Stalled' => Stalled)
  <2>. DEFINE p == [page EXCEPT !.playing = (button = "play")]
  <2>1. Becomes(p)
    BY <1>5 DEF Answered
  <2>2. /\ p \in Pages /\ p.rounds = page.rounds /\ p.stepping = page.stepping
        /\ p.waiting = page.waiting /\ p.timer = page.timer
    BY DEF Pages
  <2>. HIDE DEF p
  <2>3. Handled(page, p) /\ GoesOn(page, p)
    BY <2>2 DEF Handled, GoesOn, Stalls, WaitsForAStep, Pages
  <2>. QED BY <2>1, <2>2, <2>3, BecomesKeeps DEF BecomesOK
<1>. QED BY <1>1, <1>2, <1>3, <1>4, <1>5

LEMMA RoundEndIs ==
    ASSUME ClientOK, inbox # <<>>
    PROVE  /\ Head(inbox) \in Messages /\ Tail(inbox) \in Seq(Messages)
           /\ Head(inbox).kind = "round_end" =>
                Head(inbox).round \in Nat /\ Head(inbox).last \in BOOLEAN
<1>1. Head(inbox) \in Messages /\ Tail(inbox) \in Seq(Messages)
  BY HeadTailProperties DEF ClientOK, TrafficOK
<1>2. \A m \in Messages : m.kind = "round_end" => m.round \in Nat /\ m.last \in BOOLEAN
  BY DEF Messages, RoundEndMessages, Kinds
<1>. QED BY <1>1, <1>2

LEMMA MessageKeeps ==
    ASSUME ClientOK, Message
    PROVE  PageOK' /\ WaitsForAStep' /\ requests' \in Nat /\ (Stalled' => Stalled \/ Excused)
<1>. USE DEF ClientOK, PageOK, TrafficOK
<1>1. CASE Narrates \/ \E kind \in {"turn", "meeting"} : TurnComes(kind)
  <2>1. UNCHANGED <<page, requests>>
    BY <1>1 DEF Narrates, TurnComes
  <2>. QED BY <2>1, SamePage
<1>2. CASE RoundStarts
  <2>. DEFINE p == [page EXCEPT !.complete = FALSE]
  <2>1. Becomes(p)
    BY <1>2 DEF RoundStarts
  <2>2. p \in Pages /\ SameFlags(page, p) /\ p.rounds = page.rounds
    BY DEF Pages, SameFlags
  <2>. HIDE DEF p
  <2>. QED BY <2>1, <2>2, ProceedKeeps
<1>3. CASE OnRoundEnd
  <2>1. CASE page.ending # 0
    BY <1>3, <2>1, SamePage DEF OnRoundEnd
  <2>2. CASE page.ending = 0
    <3>. DEFINE p == [page EXCEPT !.ending = Head(inbox).round, !.complete = Head(inbox).last]
    <3>1. TryProceed(p)
      BY <1>3, <2>2 DEF OnRoundEnd
    <3>2. Head(inbox).round \in Nat /\ Head(inbox).last \in BOOLEAN
      BY <1>3, RoundEndIs DEF OnRoundEnd, Handles
    <3>3. p \in Pages /\ SameFlags(page, p) /\ p.rounds = page.rounds
      BY <3>2 DEF Pages, SameFlags
    <3>. HIDE DEF p
    <3>. QED BY <3>1, <3>3, ProceedKeeps
  <2>. QED BY <2>1, <2>2
<1>4. CASE OnEnd \/ OnStepError
  <2>1. Excused
    BY <1>4 DEF OnEnd, OnStepError, Handles, Excused
  <2>2. \E p : BecomesOK(p)
    <3>1. CASE OnStepError
      BY <3>1, Handles0 DEF OnStepError, BecomesOK
    <3>2. CASE OnEnd
      <4>. DEFINE p == ClearStepping([page EXCEPT !.complete = TRUE])
      <4>1. Becomes(p)
        BY <3>2 DEF OnEnd
      <4>2. p \in Pages /\ Handled(page, p)
        BY DEF ClearStepping, Handled, WaitsForAStep, Pages
      <4>. HIDE DEF p
      <4>. QED BY <4>1, <4>2 DEF BecomesOK
    <3>. QED BY <1>4, <3>1, <3>2
  <2>. QED BY <2>1, <2>2, BecomesKeeps
<1>. QED BY <1>1, <1>2, <1>3, <1>4 DEF Message

LEMMA SceneKeeps ==
    ASSUME ClientOK, Scene \/ CheckMeeting
    PROVE  PageOK' /\ WaitsForAStep' /\ requests' \in Nat /\ (Stalled' => Stalled)
<1>. USE DEF ClientOK, PageOK, TrafficOK
<1>1. page \in Pages /\ SameFlags(page, page)
  BY DEF SameFlags
<1>2. CASE QueueDrainsCovered \/ MeetingActivates
  <2>1. UNCHANGED <<page, requests>>
    BY <1>2 DEF QueueDrainsCovered, MeetingActivates, serverVars
  <2>. QED BY <2>1, SamePage
<1>3. CASE QueueDrains \/ CheckMeeting
  <2>1. TryProceed(page) \/ Becomes(page) \/ Becomes(Finalise(page))
    BY <1>3 DEF QueueDrains, CheckMeeting
  <2>. QED BY <1>1, <2>1, ProceedKeeps
<1>. QED BY <1>2, <1>3 DEF Scene

(* The other steps do not touch the page.                                    *)
Aside ==
    \/ Server \/ MeetingDismissed \/ NarrationClosed \/ Reconnects
    \/ \E button \in {"play", "pause"} : Asks(button)

LEMMA AsideKeeps ==
    ASSUME ClientOK, Aside \/ UNCHANGED vars
    PROVE  PageOK' /\ WaitsForAStep' /\ (Stalled' => Stalled)
<1>1. UNCHANGED page
  BY DEF Aside, Server, ServerTakes, ServerRefuses, ServerTells, ServerEnds, ServerFails,
         MeetingDismissed, NarrationClosed, Reconnects, Asks, vars
<1>. QED BY <1>1, SamePage

LEMMA PageKeeps ==
    ASSUME ClientOK, [Next]_vars
    PROVE  PageOK' /\ WaitsForAStep' /\ (Stalled' => Stalled \/ Excused)
<1>1. CASE Scene \/ CheckMeeting
  BY <1>1, SceneKeeps
<1>2. CASE Message
  BY <1>2, MessageKeeps
<1>3. CASE Aside \/ UNCHANGED vars
  BY <1>3, AsideKeeps
<1>4. CASE \/ Step \/ AutoPlayFires \/ StepRefused \/ Disconnects
           \/ \E button \in {"play", "pause"} : Answered(button)
  BY <1>4, UserKeeps
<1>. QED BY <1>1, <1>2, <1>3, <1>4 DEF Next, Aside

-----------------------------------------------------------------------------
(* The traffic with the server.                                              *)

LEMMA SentAreMessages ==
    ASSUME ClientOK, NEW messages \in Seq(Messages), Sends(messages)
    PROVE  inbox' \in Seq(Messages)
BY ConcatProperties DEF ClientOK, TrafficOK, Sends

LEMMA KindIsMessage ==
    ASSUME NEW kind \in Kinds \ {"round_end"}
    PROVE  /\ [kind |-> kind] \in Messages
           /\ <<[kind |-> kind]>> \in Seq(Messages)
BY DEF Messages

LEMMA ServerSends ==
    ASSUME ClientOK, Server
    PROVE  TrafficOK'
<1>. USE DEF ClientOK, TrafficOK
<1>0. round \in Nat /\ TotalRounds \in Nat
  BY ClientAssumption
<1>1. CASE ServerTakes
  <2>1. PICK told \in {<<>>, <<[kind |-> "narration"]>>} :
            Sends(<<[kind |-> "round_start"]>> \o told)
    BY <1>1 DEF ServerTakes
  <2>2. <<[kind |-> "round_start"]>> \in Seq(Messages)
        /\ <<[kind |-> "narration"]>> \in Seq(Messages)
    <3>1. "round_start" \in Kinds \ {"round_end"} /\ "narration" \in Kinds \ {"round_end"}
      BY DEF Kinds
    <3>. QED BY <3>1, KindIsMessage
  <2>3. inbox' \in Seq(Messages)
    <3>1. told \in Seq(Messages)
      BY <2>2, EmptySeq
    <3>. QED BY <2>1, <2>2, <3>1, SentAreMessages, ConcatProperties
  <2>4. /\ requests' = requests - 1 /\ requests > 0 /\ refused' = refused
        /\ round' = round + 1 /\ round < TotalRounds /\ acts' = 0
    BY <1>1 DEF ServerTakes
  <2>. QED BY <1>0, <2>3, <2>4 DEF Serving
<1>2. CASE ServerRefuses
  BY <1>2 DEF ServerRefuses, Serving
<1>3. CASE ServerTells
  <2>1. PICK kind \in {"turn", "meeting"} : Sends(<<[kind |-> kind]>>)
    BY <1>3 DEF ServerTells
  <2>2. inbox' \in Seq(Messages)
    <3>1. kind \in Kinds \ {"round_end"}
      BY DEF Kinds
    <3>2. <<[kind |-> kind]>> \in Seq(Messages)
      BY <3>1, KindIsMessage
    <3>. QED BY <2>1, <3>2, SentAreMessages
  <2>. QED BY <1>3, <2>2 DEF ServerTells, Serving
<1>4. CASE ServerEnds
  <2>. DEFINE last == round = TotalRounds
              end == [kind |-> "round_end", round |-> round, last |-> last]
              rest == IF last THEN <<[kind |-> "experiment_end"]>> ELSE <<>>
  <2>1. Sends(<<end>> \o rest)
    BY <1>4 DEF ServerEnds
  <2>2. end \in Messages
    BY <1>0 DEF Messages, RoundEndMessages
  <2>3. rest \in Seq(Messages)
    <3>1. "experiment_end" \in Kinds \ {"round_end"}
      BY DEF Kinds
    <3>2. <<[kind |-> "experiment_end"]>> \in Seq(Messages)
      BY <3>1, KindIsMessage
    <3>. QED BY <3>2, EmptySeq
  <2>. HIDE DEF end, rest
  <2>4. <<end>> \in Seq(Messages)
    BY <2>2
  <2>5. <<end>> \o rest \in Seq(Messages)
    BY <2>3, <2>4, ConcatProperties
  <2>6. inbox' \in Seq(Messages)
    BY <2>1, <2>5, SentAreMessages
  <2>. QED BY <1>4, <2>6 DEF ServerEnds, Serving
<1>5. CASE ServerFails
  <2>1. Sends(<<[kind |-> "step_error"]>>)
    BY <1>5 DEF ServerFails
  <2>2. inbox' \in Seq(Messages)
    <3>1. "step_error" \in Kinds \ {"round_end"}
      BY DEF Kinds
    <3>2. <<[kind |-> "step_error"]>> \in Seq(Messages)
      BY <3>1, KindIsMessage
    <3>. QED BY <2>1, <3>2, SentAreMessages
  <2>3. /\ Serving /\ acts' = -1 /\ round' = round - 1
        /\ requests' = requests /\ refused' = refused
    BY <1>5 DEF ServerFails
  <2>. QED BY <1>0, <2>2, <2>3 DEF Serving
<1>. QED BY <1>1, <1>2, <1>3, <1>4, <1>5 DEF Server

LEMMA TrafficKeeps ==
    ASSUME ClientOK, [Next]_vars
    PROVE  TrafficOK'
<1>. USE DEF ClientOK, TrafficOK, serverVars
<1>1. CASE Server
  BY <1>1, ServerSends
<1>2. CASE Message
  <2>1. inbox # <<>> /\ inbox' = Tail(inbox) /\ UNCHANGED <<refused, round, acts>>
    BY <1>2 DEF Message, RoundStarts, Narrates, OnRoundEnd, OnEnd, OnStepError, TurnComes,
                Handles
  <2>. QED BY <1>2, <2>1, RoundEndIs, MessageKeeps DEF Serving
<1>3. CASE Scene \/ CheckMeeting
  <2>1. UNCHANGED <<inbox, refused, round, acts>>
    BY <1>3 DEF Scene, CheckMeeting, QueueDrains, QueueDrainsCovered, MeetingActivates
  <2>. QED BY <1>3, <2>1, SceneKeeps DEF Serving
<1>4. CASE \/ Step \/ AutoPlayFires \/ StepRefused \/ Disconnects
           \/ \E button \in {"play", "pause"} : Answered(button)
  <2>1. UNCHANGED <<round, acts>> /\ (inbox' = inbox \/ inbox' = <<>>)
    BY <1>4 DEF Step, AutoPlayFires, StepRefused, Disconnects, Answered
  <2>2. refused' \in Nat
    BY <1>4 DEF Step, AutoPlayFires, StepRefused, Disconnects, Answered
  <2>3. inbox' \in Seq(Messages)
    BY <2>1, EmptySeq
  <2>. QED BY <1>4, <2>1, <2>2, <2>3, UserKeeps DEF Serving
<1>5. CASE \/ MeetingDismissed \/ NarrationClosed \/ Reconnects \/ UNCHANGED vars
           \/ \E button \in {"play", "pause"} : Asks(button)
  <2>1. UNCHANGED <<inbox, refused, requests, round, acts>>
    BY <1>5 DEF MeetingDismissed, NarrationClosed, Reconnects, Asks, vars
  <2>. QED BY <2>1 DEF Serving
<1>. QED BY <1>1, <1>2, <1>3, <1>4, <1>5 DEF Next

-----------------------------------------------------------------------------
LEMMA StartsOK ==
    ASSUME Init
    PROVE  ClientOK
<1>1. page \in Pages /\ page.asks = 0 /\ WaitsForAStep
  BY DEF Init, NewPage, Pages, WaitsForAStep
<1>2. TrafficOK
  BY ClientAssumption DEF Init, TrafficOK, Serving
<1>. QED BY <1>1, <1>2 DEF ClientOK, PageOK

LEMMA StaysOK == Spec => []ClientOK
<1>1. Init => ClientOK
  BY StartsOK
<1>2. ClientOK /\ [Next]_vars => ClientOK'
  BY PageKeeps, TrafficKeeps DEF ClientOK
<1>. QED BY <1>1, <1>2, PTL DEF Spec

(* Whatever the order of clicks, answers, messages and timers, auto-play waits *)
(* only while a step of this page is under way, and never has its timer set as *)
(* well: no round is asked for twice (SimulationView.vue:300-349, 452-456).    *)
THEOREM AutoPlayWaitsForItsStep == Spec => []WaitsForAStep
<1>1. ClientOK => WaitsForAStep
  BY DEF ClientOK
<1>. QED BY <1>1, StaysOK, PTL

(* Auto-play never stops of itself while it shows Pause, except when a step    *)
(* is refused or fails, or experiment_end overtakes the last round's end       *)
(* (SimulationView.vue:325, 452).                                              *)
THEOREM AutoPlayStallsOnlyOnFailure == Spec => StallsOnlyOnFailure
<1>1. ClientOK /\ [Next]_vars =>
        [Stalled' /\ ~Stalled =>
            \/ refused' < refused
            \/ /\ inbox # <<>> /\ inbox' = Tail(inbox)
               /\ Head(inbox).kind \in {"step_error", "experiment_end"}]_vars
  BY PageKeeps DEF Excused
<1>. QED BY <1>1, StaysOK, PTL DEF Spec, StallsOnlyOnFailure
=============================================================================
