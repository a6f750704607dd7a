-------------------------- MODULE SpeechAudioProofs --------------------------
(***************************************************************************)
(* Proof of RoundStream's AudioMovesForward: whichever task sends it, what *)
(* a browser is told of an utterance only moves forward.                   *)
(*                                                                         *)
(* An utterance is told of by one task at a time.  The hook sends that it  *)
(* was spoken and is pending, and schedules its prewarm when both are on   *)
(* every screen; only then may the prewarm tell how it ended, which it     *)
(* does once.                                                              *)
(***************************************************************************)
EXTENDS RoundStreamProofs

About(m, i) == m.type \in {"agent_speak", "agent_speech_audio"} /\ m.entry = i
MessageRank(m) == IF m.type = "agent_speak" THEN 1 ELSE AudioRank(m.status)

(* No task is about to tell of an utterance; no browser was told its end.     *)
Quiet(i) == \A t \in Tasks : \A n \in 1 .. Len(out[t]) : ~About(out[t][n], i)
Open(i) == \A s \in Sockets : AudioRank(audio[s][i]) <= 2

QueuesRise ==
    \A t \in Tasks, i \in 1 .. MaxSpeech : \A n, o \in 1 .. Len(out[t]) :
        n < o /\ About(out[t][n], i) /\ About(out[t][o], i) =>
            MessageRank(out[t][n]) < MessageRank(out[t][o])
OneTeller ==
    \A t, u \in Tasks, i \in 1 .. MaxSpeech :
        \A n \in 1 .. Len(out[t]), o \in 1 .. Len(out[u]) :
            About(out[t][n], i) /\ About(out[u][o], i) => t = u
ScreensBehind ==
    \A t \in Tasks, s \in Sockets, i \in 1 .. MaxSpeech : \A n \in 1 .. Len(out[t]) :
        About(out[t][n], i) /\ (n > 1 \/ s \in left[t]) =>
            AudioRank(audio[s][i]) < MessageRank(out[t][n])

(* An utterance of a prewarm task; one whose end is not yet known; one that   *)
(* the hook will schedule; one that is not spoken yet.                       *)
Scheduled(i) ==
    \E b \in 1 .. Len(batches) : \E n \in 1 .. Len(batches[b].entries) :
        batches[b].entries[n] = i
Unsettled(i) ==
    \E b \in 1 .. Len(batches) : \E n \in 1 .. Len(batches[b].entries) :
        /\ batches[b].entries[n] = i
        /\ \/ n > batches[b].next
           \/ n = batches[b].next /\ batches[b].step \notin {"ready", "error", "done"}
Due(i) ==
    /\ hook.at = "speaking" /\ configured
    /\ i \in Len(speech) - Len(script[hook.phase]) + 1 .. Len(speech)

BatchesApart ==
    \A b, c \in 1 .. Len(batches) :
        \A n \in 1 .. Len(batches[b].entries), o \in 1 .. Len(batches[c].entries) :
            batches[b].entries[n] = batches[c].entries[o] => b = c /\ n = o
UnsettledOK == \A i \in 1 .. MaxSpeech : Unsettled(i) => Quiet(i) /\ Open(i)
DueOK ==
    \A i \in 1 .. MaxSpeech : Due(i) =>
        /\ ~Scheduled(i) /\ Open(i)
        /\ \A t \in Tasks : \A n \in 1 .. Len(out[t]) :
             About(out[t][n], i) => t = HookTask /\ MessageRank(out[t][n]) <= 2
FreshOK ==
    \A i \in 1 .. MaxSpeech : i > Len(speech) =>
        Quiet(i) /\ \A s \in Sockets : audio[s][i] = "none"

AudioOK ==
    /\ QueuesRise /\ OneTeller /\ ScreensBehind
    /\ BatchesApart /\ UnsettledOK /\ DueOK /\ FreshOK

-----------------------------------------------------------------------------
(* The prewarm tasks and their utterances.                                   *)

LEMMA RanksAre ==
    /\ \A status \in Endings \cup {"none", "spoken"} : AudioRank(status) \in 0 .. 3
    /\ AudioRank("none") = 0 /\ AudioRank("spoken") = 1 /\ AudioRank("pending") = 2
    /\ \A status \in {"ready", "error", "unavailable"} : AudioRank(status) = 3
BY DEF AudioRank, Endings

LEMMA MessageRanksAre ==
    ASSUME NEW m \in Messages
    PROVE  MessageRank(m) \in 0 .. 3
<1>1. AudioRank(m.status) \in 0 .. 3
  BY DEF AudioRank
<1>. QED BY <1>1 DEF MessageRank

(* A task takes a step with an utterance while its end is not yet known.      *)
OpenSteps == {"wait", "own", "fallback", "default"}
LEMMA MoversAreOpen ==
    ASSUME StreamOK, [StreamNext]_allVars
    PROVE  \/ UNCHANGED batches
           \/ SpeechPrewarmScheduled /\ Schedules
           \/ \E b, step : Steps(b, step) /\ batches[b].step \in OpenSteps
           \/ \E b : TurnsToNext(b) /\ batches[b].step \in {"ready", "error"}
<1>. USE DEF StreamOK
<1>1. ASSUME \/ \E s \in Sockets : Connect(s) \/ Closes(s) \/ Disconnect(s)
             \/ \E t \in Tasks, s \in Sockets : Send(t, s)
             \/ RoundStarts \/ NarrationPrewarm \/ PhaseStarts \/ PhaseCompletes
             \/ RoundEnds \/ RoundFails
             \/ PlanPrepared \/ PlanPrewarm
             \/ \E r \in Requests : Listen(r) \/ Streaming(r) \/ Gone(r)
             \/ \E k \in Ageing : Passes(k)
             \/ UNCHANGED allVars
      PROVE  UNCHANGED batches
  BY <1>1 DEF Connect, Closes, Disconnect, Send, RoundStarts, NarrationPrewarm,
     HookResumed, PhaseStarts, PhaseCompletes, RoundEnds, RoundFails,
     PlanPrepared, PlanPrewarm, PlanResumed, Listen, Streaming, Gone, Passes,
     streamVars, allVars
<1>2. CASE SpeechPrewarmScheduled
  BY <1>2 DEF SpeechPrewarmScheduled, Schedules
<1>3. ASSUME NEW b \in 1 .. Len(batches), Acquire(b) \/ Fallback(b)
      PROVE  \E step : Steps(b, step) /\ batches[b].step \in OpenSteps
  BY <1>3, PrewarmMoves DEF Acquire, Fallback, OpenSteps
<1>4. ASSUME NEW b \in 1 .. Len(batches), Release(b)
      PROVE  TurnsToNext(b) /\ batches[b].step \in {"ready", "error"}
  BY <1>4 DEF Release, TurnsToNext
<1>5. ASSUME NEW r \in Requests, Ended(r) \/ Failed(r)
      PROVE  \/ UNCHANGED batches
             \/ \E b, step : Steps(b, step) /\ batches[b].step \in OpenSteps
  <2>1. \E status \in {"ready", "error"} : Caller(r, status)
    BY <1>5, AnswerIs
  <2>. QED BY <2>1, BatchMoves DEF Caller, HookResumed, PlanResumed, Prewarms, OpenSteps
<1>. QED BY <1>1, <1>2, <1>3, <1>4, <1>5 DEF StreamNext

(* The utterances that a phase has in the log, and the hook is to schedule.   *)
LEMMA DueAre ==
    ASSUME StreamOK, hook.at = "speaking"
    PROVE  /\ Len(script[hook.phase]) \in Nat /\ Len(speech) \in Nat
           /\ Len(script[hook.phase]) <= Len(speech)
<1>. USE DEF StreamOK
<1>1. Len(script) \in Nat /\ hook.phase \in 0 .. Len(script) /\ hook.phase # 0
  BY LenProperties DEF RoundOK
<1>2. script[hook.phase] \in Seq(Utterances)
  BY <1>1, ElementOfSeq DEF RoundOK
<1>. QED BY <1>2, LenProperties DEF BatchesOK, SpeechOK

(* The order of a task's utterances never changes; a new task has those due.  *)
LEMMA EntriesChange ==
    ASSUME StreamOK, BatchesApart, DueOK, [StreamNext]_allVars
    PROVE  /\ BatchesApart'
           /\ \A i \in 1 .. MaxSpeech :
                /\ Scheduled(i)' => Scheduled(i) \/ (SpeechPrewarmScheduled /\ Due(i))
                /\ Unsettled(i)' => Unsettled(i) \/ (SpeechPrewarmScheduled /\ Due(i))
<1>. USE DEF StreamOK
<1>0. /\ batches \in Seq(Batches) /\ Len(batches) \in Nat
      /\ \A b \in 1 .. Len(batches) :
           /\ batches[b].next \in 1 .. Len(batches[b].entries)
           /\ Len(batches[b].entries) \in Nat
  <2>1. \A b \in 1 .. Len(batches) : batches[b] \in Batches
    BY ElementOfSeq DEF BatchesOK
  <2>. QED BY <2>1, LenProperties DEF BatchesOK, Batches
<1>1. ASSUME UNCHANGED batches
      PROVE  /\ BatchesApart'
             /\ \A i : (Scheduled(i)' => Scheduled(i)) /\ (Unsettled(i)' => Unsettled(i))
  <2>1. BatchesApart'
    BY <1>1 DEF BatchesApart
  <2>2. ASSUME NEW i PROVE (Scheduled(i)' => Scheduled(i)) /\ (Unsettled(i)' => Unsettled(i))
    BY <1>1 DEF Scheduled, Unsettled
  <2>. QED BY <2>1, <2>2
<1>2. ASSUME Len(batches') = Len(batches),
             \A c \in 1 .. Len(batches) : batches'[c].entries = batches[c].entries
      PROVE  BatchesApart' /\ \A i : Scheduled(i)' => Scheduled(i)
  <2>1. BatchesApart'
    <3>1. \A b, c \in 1 .. Len(batches) :
            \A n \in 1 .. Len(batches[b].entries), o \in 1 .. Len(batches[c].entries) :
              batches[b].entries[n] = batches[c].entries[o] => b = c /\ n = o
      BY DEF BatchesApart
    <3>2. \A b, c \in 1 .. Len(batches') :
            \A n \in 1 .. Len(batches'[b].entries), o \in 1 .. Len(batches'[c].entries) :
              batches'[b].entries[n] = batches'[c].entries[o] => b = c /\ n = o
      <4>1. SUFFICES ASSUME NEW b \in 1 .. Len(batches'), NEW c \in 1 .. Len(batches'),
                            NEW n \in 1 .. Len(batches'[b].entries),
                            NEW o \in 1 .. Len(batches'[c].entries),
                            batches'[b].entries[n] = batches'[c].entries[o]
                     PROVE  b = c /\ n = o
        OBVIOUS
      <4>2. /\ b \in 1 .. Len(batches) /\ batches'[b].entries = batches[b].entries
            /\ c \in 1 .. Len(batches) /\ batches'[c].entries = batches[c].entries
        BY <1>2
      <4>. QED BY <4>1, <4>2, <3>1
    <3>. QED BY <3>2 DEF BatchesApart
  <2>2. \A i : Scheduled(i)' => Scheduled(i)
    BY <1>2 DEF Scheduled
  <2>. QED BY <2>1, <2>2
<1>3. ASSUME NEW b, NEW step, Steps(b, step), batches[b].step \in OpenSteps
      PROVE  /\ BatchesApart'
             /\ \A i : (Scheduled(i)' => Scheduled(i)) /\ (Unsettled(i)' => Unsettled(i))
  <2>1. /\ Len(batches') = Len(batches)
        /\ \A c \in 1 .. Len(batches) :
             /\ c # b => batches'[c] = batches[c]
             /\ batches'[c].next = batches[c].next
             /\ batches'[c].entries = batches[c].entries
    BY <1>3, StepsChange
  <2>2. batches[b].step \notin {"ready", "error", "done"}
    BY <1>3 DEF OpenSteps
  <2>3. \A i : Unsettled(i)' => Unsettled(i)
    BY <2>1, <2>2 DEF Unsettled
  <2>. QED BY <1>2, <2>1, <2>3
<1>4. ASSUME NEW b, TurnsToNext(b)
      PROVE  /\ BatchesApart'
             /\ \A i : (Scheduled(i)' => Scheduled(i)) /\ (Unsettled(i)' => Unsettled(i))
  <2>1. /\ Len(batches') = Len(batches)
        /\ \A c \in 1 .. Len(batches) :
             /\ c # b => batches'[c] = batches[c]
             /\ batches'[c].entries = batches[c].entries
    BY <1>4, NextChanges
  <2>2. b \in 1 .. Len(batches) /\ batches[b] \in Batches /\ batches'[b] = NextEntry(b)
    BY <1>0, <1>4, ElementOfSeq DEF TurnsToNext
  <2>3. \/ batches'[b].next = batches[b].next /\ batches'[b].step = "done"
        \/ batches'[b].next = batches[b].next + 1
    BY <2>2 DEF NextEntry, Batches
  <2>4. ASSUME NEW n \in 1 .. Len(batches[b].entries),
               \/ n > batches'[b].next
               \/ n = batches'[b].next /\ batches'[b].step \notin {"ready", "error", "done"}
        PROVE  n > batches[b].next
    BY <1>0, <2>2, <2>3, <2>4
  <2>5. \A i : Unsettled(i)' => Unsettled(i)
    BY <2>1, <2>2, <2>4 DEF Unsettled
  <2>. QED BY <1>2, <2>1, <2>5
<1>5. ASSUME SpeechPrewarmScheduled, Schedules, batches' # batches
      PROVE  /\ BatchesApart' /\ SpeechPrewarmScheduled
             /\ \A i \in 1 .. MaxSpeech :
                  /\ Scheduled(i)' => Scheduled(i) \/ Due(i)
                  /\ Unsettled(i)' => Unsettled(i) \/ Due(i)
  <2>. DEFINE new == Len(batches) + 1
              spoken == Len(script[hook.phase])
  <2>1. /\ Len(batches') = new
        /\ \A c \in 1 .. Len(batches) : batches'[c] = batches[c]
        /\ Len(batches'[new].entries) = spoken
        /\ \A n \in 1 .. Len(batches'[new].entries) :
             /\ batches'[new].entries[n] \in 1 .. Len(speech)
             /\ batches'[new].entries[n] = Len(speech) - spoken + n
    BY <1>5, ScheduleAdds
  <2>. HIDE DEF new, spoken
  <2>2. spoken \in Nat /\ Len(speech) \in Nat /\ spoken <= Len(speech)
        /\ Len(speech) <= MaxSpeech /\ MaxSpeech \in Nat
    BY <1>5, DueAre, StreamAssumption DEF SpeechPrewarmScheduled, SpeechOK, spoken
  <2>3. hook.at = "speaking" /\ configured
    BY <1>5 DEF SpeechPrewarmScheduled
  <2>4. \A c \in 1 .. Len(batches') : c \in 1 .. Len(batches) \/ c = new
    BY <1>0, <2>1 DEF new
  <2>5. ASSUME NEW n \in 1 .. spoken
        PROVE  /\ Due(batches'[new].entries[n]) /\ ~Scheduled(batches'[new].entries[n])
    <3>0. batches'[new].entries[n] \in 1 .. MaxSpeech
      BY <2>1, <2>2
    <3>1. PICK i \in 1 .. MaxSpeech : i = batches'[new].entries[n]
      BY <3>0
    <3>2. i = Len(speech) - spoken + n
      BY <2>1, <3>1
    <3>3. i \in Len(speech) - spoken + 1 .. Len(speech)
      BY <2>2, <3>2
    <3>. QED BY <2>3, <3>1, <3>3 DEF Due, DueOK, spoken
  <2>6. ASSUME NEW n \in 1 .. spoken, NEW o \in 1 .. spoken,
               batches'[new].entries[n] = batches'[new].entries[o]
        PROVE  n = o
    <3>1. Len(speech) - spoken + n = Len(speech) - spoken + o
      BY <2>1, <2>6
    <3>. QED BY <2>2, <3>1
  <2>7. BatchesApart'
    <3>1. ASSUME NEW b \in 1 .. Len(batches'), NEW c \in 1 .. Len(batches'),
                 NEW n \in 1 .. Len(batches'[b].entries),
                 NEW o \in 1 .. Len(batches'[c].entries),
                 batches'[b].entries[n] = batches'[c].entries[o]
          PROVE  b = c /\ n = o
      <4>1. CASE b # new /\ c # new
        <5>1. b \in 1 .. Len(batches) /\ c \in 1 .. Len(batches)
          BY <2>4, <4>1
        <5>2. batches'[b] = batches[b] /\ batches'[c] = batches[c]
          BY <2>1, <5>1
        <5>. QED BY <3>1, <5>1, <5>2 DEF BatchesApart
      <4>2. CASE b = new /\ c = new
        BY <2>1, <2>6, <3>1, <4>2
      <4>3. CASE b = new /\ c # new
        <5>1. c \in 1 .. Len(batches) /\ batches'[c] = batches[c]
          BY <2>1, <2>4, <4>3
        <5>2. n \in 1 .. spoken /\ ~Scheduled(batches'[new].entries[n])
          BY <2>1, <2>5, <4>3
        <5>. QED BY <3>1, <4>3, <5>1, <5>2 DEF Scheduled
      <4>4. CASE b # new /\ c = new
        <5>1. b \in 1 .. Len(batches) /\ batches'[b] = batches[b]
          BY <2>1, <2>4, <4>4
        <5>2. o \in 1 .. spoken /\ ~Scheduled(batches'[new].entries[o])
          BY <2>1, <2>5, <4>4
        <5>. QED BY <3>1, <4>4, <5>1, <5>2 DEF Scheduled
      <4>. QED BY <4>1, <4>2, <4>3, <4>4
    <3>. QED BY <3>1 DEF BatchesApart
  <2>8. \A i \in 1 .. MaxSpeech : Scheduled(i)' => Scheduled(i) \/ Due(i)
    BY <2>1, <2>4, <2>5 DEF Scheduled
  <2>9. \A i \in 1 .. MaxSpeech : Unsettled(i)' => Unsettled(i) \/ Due(i)
    BY <2>1, <2>4, <2>5 DEF Unsettled
  <2>. QED BY <1>5, <2>7, <2>8, <2>9
<1>6. CASE UNCHANGED batches
  BY <1>1, <1>6
<1>7. CASE SpeechPrewarmScheduled /\ Schedules /\ batches' # batches
  BY <1>5, <1>7
<1>8. CASE \E b, step : Steps(b, step) /\ batches[b].step \in OpenSteps
  BY <1>3, <1>8
<1>9. CASE \E b : TurnsToNext(b)
  BY <1>4, <1>9
<1>. QED BY <1>6, <1>7, <1>8, <1>9, MoversAreOpen

(* A phase that completes makes its utterances due, until they are scheduled. *)
LEMMA DueChanges ==
    ASSUME StreamOK, [StreamNext]_allVars
    PROVE  \A i \in 1 .. MaxSpeech : Due(i)' =>
             \/ Due(i) /\ ~SpeechPrewarmScheduled
             \/ PhaseCompletes /\ i > Len(speech)
<1>. USE DEF StreamOK
<1>0. hook \in [try : 0 .. Attempts, at : HookPcs, phase : 0 .. Len(script)]
  BY DEF RoundOK
<1>1. CASE RoundStarts \/ PhaseStarts \/ NarrationPrewarm \/ SpeechPrewarmScheduled
           \/ RoundEnds \/ RoundFails
  <2>1. PICK at \in HookPcs \ {"speaking"} :
          \/ hook' = [hook EXCEPT !.at = at]
          \/ hook' = [hook EXCEPT !.at = at, !.phase = @ + 1]
          \/ hook' = [try |-> hook.try + 1, at |-> at, phase |-> 0]
    BY <1>1 DEF RoundStarts, PhaseStarts, NarrationPrewarm, SpeechPrewarmScheduled,
       RoundEnds, RoundFails, HookResumed, HookAt, HookPcs
  <2>2. hook'.at = at
    <3>1. CASE hook' = [hook EXCEPT !.at = at]
      BY ONLY <1>0, <3>1
    <3>2. CASE hook' = [hook EXCEPT !.at = at, !.phase = @ + 1]
      BY ONLY <1>0, <3>2
    <3>3. CASE hook' = [try |-> hook.try + 1, at |-> at, phase |-> 0]
      BY ONLY <3>3
    <3>. QED BY <2>1, <3>1, <3>2, <3>3
  <2>3. hook'.at # "speaking"
    BY <2>2
  <2>. QED BY <2>3 DEF Due
<1>2. CASE PhaseCompletes
  <2>1. PICK lines : lines = script[hook.phase] /\ Speaks(lines)
    BY <1>2, PhaseSpeaks
  <2>2. hook'.phase = hook.phase /\ script' = script
    BY <1>2 DEF PhaseCompletes, HookAt, RoundOK
  <2>3. Len(lines) \in Nat /\ Len(speech) \in Nat
    BY <2>1, LenProperties DEF Speaks, SpeechOK
  <2>4. Len(speech') = Len(speech) + Len(lines)
    BY <2>1, SpeaksGrows
  <2>5. ASSUME NEW i \in 1 .. MaxSpeech,
               i \in Len(speech') - Len(script'[hook'.phase]) + 1 .. Len(speech')
        PROVE  i > Len(speech)
    <3>1. i \in (Len(speech) + Len(lines)) - Len(lines) + 1 .. Len(speech) + Len(lines)
      BY <2>1, <2>2, <2>4, <2>5
    <3>. QED BY <2>3, <3>1
  <2>. QED BY <1>2, <2>5 DEF Due
<1>3. ASSUME UNCHANGED <<script, configured>>, Len(speech') = Len(speech),
             hook'.at = "speaking" => hook' = hook, ~SpeechPrewarmScheduled
      PROVE  \A i : Due(i)' => Due(i) /\ ~SpeechPrewarmScheduled
  BY <1>3 DEF Due
<1>4. ASSUME ~(RoundStarts \/ PhaseStarts \/ NarrationPrewarm \/ SpeechPrewarmScheduled
               \/ RoundEnds \/ RoundFails),
             ~PhaseCompletes
      PROVE  /\ UNCHANGED <<script, configured>> /\ Len(speech') = Len(speech)
             /\ hook'.at = "speaking" => hook' = hook
  <2>1. UNCHANGED <<script, configured>> /\ (hook'.at = "speaking" => hook' = hook)
    <3>1. CASE \/ \E s \in Sockets : Connect(s) \/ Closes(s) \/ Disconnect(s)
               \/ \E t \in Tasks, s \in Sockets : Send(t, s)
               \/ PlanPrepared \/ PlanPrewarm
               \/ \E b \in 1 .. Len(batches) : Acquire(b) \/ Fallback(b) \/ Release(b)
               \/ \E r \in Requests : Listen(r) \/ Streaming(r) \/ Gone(r)
               \/ \E k \in Ageing : Passes(k)
               \/ UNCHANGED allVars
      BY <3>1 DEF Connect, Closes, Disconnect, Send, PlanPrepared, PlanPrewarm, PlanResumed,
         Acquire, Fallback, SpeechPrewarm, BatchResumed, Release, Listen, Streaming, Gone,
         Passes, streamVars, allVars
    <3>2. ASSUME NEW r \in Requests, Ended(r) \/ Failed(r)
          PROVE  UNCHANGED <<script, configured>> /\ (hook'.at = "speaking" => hook' = hook)
      <4>1. UNCHANGED <<script, configured>> /\ \E status : Caller(r, status)
        BY <3>2, AnswerIs
      <4>. QED BY <4>1 DEF Caller, HookResumed, PlanResumed, BatchResumed, HookAt, RoundOK
    <3>. QED BY <1>4, <3>1, <3>2 DEF StreamNext
  <2>2. Len(speech') = Len(speech)
    BY <1>4, SpeechChanges, VoiceGrows
  <2>. QED BY <2>1, <2>2
<1>. QED BY <1>1, <1>2, <1>3, <1>4

-----------------------------------------------------------------------------
(* What a step has the tasks send.                                           *)

(* Nothing new of any utterance.                                             *)
Unspoken == {m \in Plain : m.type \notin {"agent_speak", "agent_speech_audio"}}
Quietly ==
    /\ UNCHANGED audio
    /\ \A t \in Tasks :
         \/ out'[t] = out[t] /\ left'[t] = left[t]
         \/ \A n \in 1 .. Len(out'[t]), i \in 1 .. MaxSpeech : ~About(out'[t][n], i)

(* How an utterance ended, which was not known before.                       *)
Settles(b, i, status) ==
    /\ UNCHANGED audio
    /\ Unsettled(i) /\ ~Unsettled(i)'
    /\ Broadcasts(BatchTask(b), <<AudioStatus(i, status)>>)
Settled ==
    \E b \in 1 .. Len(batches), i \in 1 .. MaxSpeech, status \in {"ready", "error"} :
        Settles(b, i, status)

LEMMA UnspokenQuietly ==
    ASSUME SendingOK, NEW t, NEW messages \in Seq(Unspoken), Broadcasts(t, messages),
           UNCHANGED audio
    PROVE  Quietly
<1>1. ASSUME NEW u \in Tasks
      PROVE  \/ out'[u] = out[u] /\ left'[u] = left[u]
             \/ \A n \in 1 .. Len(out'[u]), i \in 1 .. MaxSpeech : ~About(out'[u][n], i)
  <2>1. CASE u # t
    BY <2>1 DEF Broadcasts, SendingOK
  <2>2. CASE u = t
    <3>1. out'[u] = <<>> \/ out'[u] = messages
      BY <2>2 DEF Broadcasts, SendingOK
    <3>2. \A n \in 1 .. Len(messages) : messages[n] \in Unspoken
      BY ElementOfSeq
    <3>3. \A n \in 1 .. Len(messages), i \in 1 .. MaxSpeech : ~About(messages[n], i)
      BY <3>2 DEF Unspoken, About
    <3>. QED BY <3>1, <3>3
  <2>. QED BY <2>1, <2>2
<1>. QED BY <1>1 DEF Quietly

LEMMA SameQuietly ==
    ASSUME UNCHANGED <<out, left, audio>>
    PROVE  Quietly
BY DEF Quietly

LEMMA UnspokenAre ==
    ASSUME NEW status \in Endings
    PROVE  /\ Announcement(status) \in Seq(Unspoken) /\ PlanStatus(status) \in Seq(Unspoken)
           /\ \A bulletin \in Bulletins : Told(bulletin) \in Unspoken
<1>1. \A bulletin \in Bulletins : Told(bulletin) \in Unspoken
  BY BulletinIs DEF Unspoken, Told, Message, Bulletins
<1>2. \A type \in {"gm_plan", "gm_audio_status"} : Message(type, 0, status) \in Unspoken
  BY NarrationMessageIs DEF Unspoken, Message
<1>. DEFINE a == <<Told("round_start"), Message("gm_plan", 0, status)>>
            b == IF configured THEN <<Message("gm_audio_status", 0, status)>> ELSE <<>>
            c == <<Told("crisis_event")>>
<1>3. a \in Seq(Unspoken) /\ b \in Seq(Unspoken) /\ c \in Seq(Unspoken)
      /\ PlanStatus(status) \in Seq(Unspoken)
  BY <1>1, <1>2, EmptySeq DEF Bulletins, PlanStatus
<1>4. Announcement(status) = (a \o b) \o c
  BY DEF Announcement
<1>. HIDE DEF a, b, c
<1>5. a \o b \in Seq(Unspoken)
  BY <1>3, ConcatProperties
<1>. QED BY <1>1, <1>3, <1>4, <1>5, ConcatProperties

LEMMA BatchSettles ==
    ASSUME StreamOK, BatchesApart, NEW b \in 1 .. Len(batches), batches[b].step \in OpenSteps,
           NEW r, NEW voice, NEW status \in {"ready", "error"}, r.no = Entry(b),
           BatchResumed(b, r, voice, status), UNCHANGED audio
    PROVE  Quietly \/ Settled
<1>. USE DEF StreamOK
<1>1. CASE UNCHANGED <<out, left>>
  BY <1>1, SameQuietly
<1>2. CASE BatchStep(b, status) /\ Broadcasts(BatchTask(b), <<AudioStatus(r.no, status)>>)
  <2>1. PICK i \in 1 .. MaxSpeech : i = Entry(b)
    BY EntryIs
  <2>2. Steps(b, status)
    BY <1>2 DEF BatchStep, Steps, BatchSteps
  <2>3. /\ Len(batches') = Len(batches) /\ batches'[b].step = status
        /\ \A c \in 1 .. Len(batches) :
             /\ batches'[c].next = batches[c].next
             /\ batches'[c].entries = batches[c].entries
    BY <2>2, StepsChange
  <2>4. /\ batches[b].next \in 1 .. Len(batches[b].entries)
        /\ batches[b].entries[batches[b].next] = i
    BY <2>1 DEF Entry, BatchesOK
  <2>5. Unsettled(i)
    BY <2>4 DEF Unsettled, OpenSteps
  <2>6. ~Unsettled(i)'
    <3>1. SUFFICES ASSUME NEW c \in 1 .. Len(batches), NEW n \in 1 .. Len(batches[c].entries),
                          batches[c].entries[n] = i,
                          \/ n > batches[c].next
                          \/ n = batches[c].next /\ batches'[c].step \notin {"ready", "error", "done"}
                   PROVE  FALSE
      BY <2>3 DEF Unsettled
    <3>2. c = b /\ n = batches[b].next
      BY <2>4, <3>1 DEF BatchesApart
    <3>3. batches[b].next \in Nat
      <4>1. batches[b] \in Batches
        BY ElementOfSeq DEF BatchesOK
      <4>. QED BY <4>1 DEF Batches
    <3>. QED BY <2>3, <3>1, <3>2, <3>3
  <2>7. Broadcasts(BatchTask(b), <<AudioStatus(i, status)>>)
    BY <1>2, <2>1
  <2>. QED BY <2>5, <2>6, <2>7 DEF Settled, Settles
<1>. QED BY <1>1, <1>2 DEF BatchResumed

LEMMA ToldChanges ==
    ASSUME StreamOK, BatchesApart, [StreamNext]_allVars
    PROVE  \/ Quietly
           \/ PhaseCompletes
           \/ Settled
           \/ \E t \in Tasks, s \in Sockets : Send(t, s)
<1>. USE DEF StreamOK
<1>1. CASE \/ \E s \in Sockets : Connect(s) \/ Closes(s) \/ Disconnect(s)
           \/ RoundStarts \/ SpeechPrewarmScheduled
           \/ \E b \in 1 .. Len(batches) : Release(b)
           \/ \E r \in Requests : Listen(r) \/ Streaming(r) \/ Gone(r)
           \/ \E k \in Ageing : Passes(k)
           \/ UNCHANGED allVars
  <2>1. UNCHANGED <<out, left, audio>>
    BY <1>1 DEF Connect, Closes, Disconnect, RoundStarts, SpeechPrewarmScheduled, Release,
       Listen, Streaming, Gone, Passes, streamVars, allVars
  <2>. QED BY <2>1, SameQuietly
<1>2. ASSUME UNCHANGED audio, NEW status \in Endings, HookResumed(status) \/ PlanResumed(status)
      PROVE  Quietly
  BY <1>2, UnspokenAre, UnspokenQuietly DEF HookResumed, PlanResumed
<1>3. "unavailable" \in Endings /\ "ready" \in Endings /\ "error" \in Endings
      /\ "pending" \in Endings
  BY DEF Endings
<1>4. CASE NarrationPrewarm \/ PlanPrewarm
  <2>1. UNCHANGED audio
    BY <1>4 DEF NarrationPrewarm, PlanPrewarm
  <2>2. \/ HookResumed("unavailable") \/ HookResumed("ready") \/ PlanResumed("ready")
        \/ UNCHANGED <<out, left>>
    BY <1>4 DEF NarrationPrewarm, PlanPrewarm
  <2>. QED BY <1>2, <1>3, <2>1, <2>2, SameQuietly
<1>5. CASE PhaseStarts \/ RoundFails \/ RoundEnds \/ PlanPrepared
  <2>1. UNCHANGED audio
    BY <1>5 DEF PhaseStarts, RoundFails, RoundEnds, PlanPrepared
  <2>2. \E t : \E messages \in Seq(Unspoken) : Broadcasts(t, messages)
    <3>1. CASE PhaseStarts
      <4>1. <<Told("phase_change")>> \in Seq(Unspoken)
        BY <1>3, UnspokenAre DEF Bulletins
      <4>. QED BY <3>1, <4>1 DEF PhaseStarts
    <3>2. CASE RoundFails
      <4>1. <<Told("step_error")>> \in Seq(Unspoken)
        BY <1>3, UnspokenAre DEF Bulletins
      <4>. QED BY <3>2, <4>1 DEF RoundFails
    <3>3. CASE RoundEnds
      <4>1. <<Told("resource_update"), Told("threat_update"), Told("round_end"),
              Told("experiment_end")>> \in Seq(Unspoken)
        BY <1>3, UnspokenAre DEF Bulletins
      <4>. QED BY <3>3, <4>1 DEF RoundEnds
    <3>4. CASE PlanPrepared
      <4>1. \E status \in {"ready", "pending"} : Broadcasts(PlanTask, PlanStatus(status))
        BY <3>4 DEF PlanPrepared
      <4>. QED BY <1>3, <4>1, UnspokenAre
    <3>. QED BY <1>5, <3>1, <3>2, <3>3, <3>4
  <2>. QED BY <2>1, <2>2, UnspokenQuietly
<1>6. ASSUME NEW b \in 1 .. Len(batches), Acquire(b) \/ Fallback(b) PROVE Quietly \/ Settled
  <2>1. PICK by, voice : SpeechPrewarm(b, by, voice)
    BY <1>6 DEF Acquire, Fallback
  <2>2. batches[b].step \in OpenSteps
    BY <1>6 DEF Acquire, Fallback, OpenSteps
  <2>3. UNCHANGED audio
    BY <2>1 DEF SpeechPrewarm
  <2>4. \/ BatchResumed(b, Request(by, Entry(b)), voice, "ready")
        \/ UNCHANGED <<out, left>>
    BY <2>1 DEF SpeechPrewarm
  <2>5. Request(by, Entry(b)).no = Entry(b)
    BY DEF Request
  <2>. QED BY <2>2, <2>3, <2>4, <2>5, BatchSettles, SameQuietly
<1>7. ASSUME NEW r \in Requests, Ended(r) \/ Failed(r) PROVE Quietly \/ Settled
  <2>1. UNCHANGED audio /\ \E status \in {"ready", "error"} : Caller(r, status)
    BY <1>7, AnswerIs
  <2>2. PICK status \in {"ready", "error"} : Caller(r, status)
    BY <2>1
  <2>3. ASSUME r \in Prewarms, NEW b \in 1 .. Len(batches), NEW voice \in Voices,
               batches[b].step = r.by, Entry(b) = r.no, BatchResumed(b, r, voice, status)
        PROVE  Quietly \/ Settled
    <3>1. batches[b].step \in OpenSteps
      BY <2>3 DEF Prewarms, OpenSteps
    <3>. QED BY <2>1, <2>3, <3>1, BatchSettles
  <2>4. status \in Endings
    BY <1>3
  <2>. QED BY <1>2, <2>1, <2>2, <2>3, <2>4, SameQuietly DEF Caller
<1>. QED BY <1>1, <1>4, <1>5, <1>6, <1>7 DEF StreamNext

-----------------------------------------------------------------------------
(* What the tasks are about to tell, after each of these.                    *)

QueuesOK == QueuesRise /\ OneTeller /\ ScreensBehind

(* An utterance nobody tells of stays so, and its screens stay as they are.   *)
Untouched(i) == Quiet(i) => Quiet(i)' /\ \A s \in Sockets : audio'[s][i] = audio[s][i]

(* What is told of an utterance that is due stays so.                        *)
Pending(i) ==
    /\ Open(i)
    /\ \A t \in Tasks : \A n \in 1 .. Len(out[t]) :
         About(out[t][n], i) => t = HookTask /\ MessageRank(out[t][n]) <= 2

LEMMA QuietKeeps ==
    ASSUME QueuesOK, Quietly
    PROVE  /\ QueuesOK'
           /\ \A i \in 1 .. MaxSpeech : Untouched(i) /\ (Pending(i) => Pending(i)')
<1>. USE DEF QueuesOK
<1>1. ASSUME NEW t \in Tasks, NEW n \in 1 .. Len(out'[t]), NEW i \in 1 .. MaxSpeech,
             About(out'[t][n], i)
      PROVE  out'[t] = out[t] /\ left'[t] = left[t]
  BY <1>1 DEF Quietly
<1>2. UNCHANGED audio
  BY DEF Quietly
<1>3. QueuesRise'
  BY <1>1 DEF QueuesRise
<1>4. OneTeller'
  BY <1>1 DEF OneTeller
<1>5. ScreensBehind'
  BY <1>1, <1>2 DEF ScreensBehind
<1>6. \A i \in 1 .. MaxSpeech : Untouched(i)
  BY <1>1, <1>2 DEF Untouched, Quiet
<1>7. \A i \in 1 .. MaxSpeech : Pending(i) => Pending(i)'
  BY <1>1, <1>2 DEF Pending, Open
<1>. QED BY <1>3, <1>4, <1>5, <1>6, <1>7

LEMMA SettledKeeps ==
    ASSUME StreamOK, QueuesOK, UnsettledOK, Settled
    PROVE  /\ QueuesOK'
           /\ \A i \in 1 .. MaxSpeech : ~Unsettled(i) \/ Unsettled(i)' =>
                Untouched(i) /\ (Pending(i) => Pending(i)')
<1>. USE DEF QueuesOK, StreamOK
<1>0. PICK b \in 1 .. Len(batches), k \in 1 .. MaxSpeech, status \in {"ready", "error"} :
        Settles(b, k, status)
  BY DEF Settled
<1>. PICK task : task = BatchTask(b)
  OBVIOUS
<1>. PICK m : m = AudioStatus(k, status)
  OBVIOUS
<1>1. /\ UNCHANGED audio /\ Quiet(k) /\ Open(k)
      /\ Unsettled(k) /\ ~Unsettled(k)'
  BY <1>0 DEF Settles, UnsettledOK
<1>2. /\ About(m, k) /\ MessageRank(m) = 3
      /\ \A i : About(m, i) => i = k
  BY DEF About, MessageRank, AudioStatus, Message, AudioRank
<1>3. ASSUME NEW t \in Tasks
      PROVE  \/ out'[t] = out[t] /\ left'[t] = left[t]
             \/ out'[t] = <<>>
             \/ t = task /\ out'[t] = <<m>>
  <2>1. Broadcasts(task, <<m>>)
    BY <1>0 DEF Settles
  <2>. QED BY <2>1 DEF Broadcasts, SendingOK
<1>4. ASSUME NEW t \in Tasks, NEW n \in 1 .. Len(out'[t]), NEW i \in 1 .. MaxSpeech,
             About(out'[t][n], i)
      PROVE  \/ out'[t] = out[t] /\ left'[t] = left[t] /\ i # k
             \/ t = task /\ n = 1 /\ Len(out'[t]) = 1 /\ out'[t][n] = m /\ i = k
  <2>1. CASE out'[t] = out[t] /\ left'[t] = left[t]
    BY <1>1, <1>4, <2>1 DEF Quiet
  <2>2. CASE t = task /\ out'[t] = <<m>>
    <3>1. Len(out'[t]) = 1 /\ out'[t][1] = m
      BY <2>2
    <3>2. n = 1
      BY <3>1
    <3>. QED BY <1>2, <1>4, <2>2, <3>1, <3>2
  <2>3. out'[t] # <<>>
    BY <1>4
  <2>. QED BY <1>3, <2>1, <2>2, <2>3
<1>5. QueuesRise'
  <2>1. SUFFICES ASSUME NEW t \in Tasks, NEW i \in 1 .. MaxSpeech,
                        NEW n \in 1 .. Len(out'[t]), NEW o \in 1 .. Len(out'[t]),
                        n < o, About(out'[t][n], i), About(out'[t][o], i)
                 PROVE  MessageRank(out'[t][n]) < MessageRank(out'[t][o])
    BY DEF QueuesRise
  <2>2. out'[t] = out[t]
    BY <1>4, <2>1
  <2>. QED BY <2>1, <2>2 DEF QueuesRise
<1>6. OneTeller'
  <2>1. SUFFICES ASSUME NEW t \in Tasks, NEW u \in Tasks, NEW i \in 1 .. MaxSpeech,
                        NEW n \in 1 .. Len(out'[t]), NEW o \in 1 .. Len(out'[u]),
                        About(out'[t][n], i), About(out'[u][o], i)
                 PROVE  t = u
    BY DEF OneTeller
  <2>2. \/ out'[t] = out[t] /\ i # k
        \/ t = task /\ i = k
    BY <1>4, <2>1
  <2>3. \/ out'[u] = out[u] /\ i # k
        \/ u = task /\ i = k
    BY <1>4, <2>1
  <2>4. CASE i = k
    BY <2>2, <2>3, <2>4
  <2>5. CASE i # k
    <3>1. out'[t] = out[t] /\ out'[u] = out[u]
      BY <2>2, <2>3, <2>5
    <3>. QED BY <2>1, <3>1 DEF OneTeller
  <2>. QED BY <2>4, <2>5
<1>7. ScreensBehind'
  <2>1. SUFFICES ASSUME NEW t \in Tasks, NEW s \in Sockets, NEW i \in 1 .. MaxSpeech,
                        NEW n \in 1 .. Len(out'[t]),
                        About(out'[t][n], i), n > 1 \/ s \in left'[t]
                 PROVE  AudioRank(audio[s][i]) < MessageRank(out'[t][n])
    BY <1>1 DEF ScreensBehind
  <2>2. CASE out'[t] = out[t] /\ left'[t] = left[t]
    BY <2>1, <2>2 DEF ScreensBehind
  <2>3. CASE out'[t][n] = m /\ i = k
    <3>1. AudioRank(audio[s][k]) <= 2 /\ AudioRank(audio[s][k]) \in 0 .. 3
      BY <1>1, RanksAre DEF Open, ScreensOK
    <3>. QED BY <1>2, <2>3, <3>1
  <2>. QED BY <1>4, <2>1, <2>2, <2>3
<1>8. ASSUME NEW i \in 1 .. MaxSpeech, i # k
      PROVE  Untouched(i) /\ (Pending(i) => Pending(i)')
  <2>1. Untouched(i)
    BY <1>1, <1>4, <1>8 DEF Untouched, Quiet
  <2>2. Pending(i) => Pending(i)'
    BY <1>1, <1>4, <1>8 DEF Pending, Open
  <2>. QED BY <2>1, <2>2
<1>. QED BY <1>1, <1>5, <1>6, <1>7, <1>8

(* Where a phase tells of its utterances: all are spoken, then each has its   *)
(* status.                                                                   *)
PhaseStatus == IF configured THEN "pending" ELSE "unavailable"
LEMMA PhaseMessagesAt ==
    ASSUME NEW lines, Len(lines) \in Nat
    PROVE  /\ Len(PhaseMessages(lines)) = 1 + Len(lines) + Len(lines)
           /\ PhaseMessages(lines)[1] = Told("phase_change")
           /\ \A n \in 1 .. Len(lines) :
                /\ PhaseMessages(lines)[1 + n] = Message("agent_speak", Len(speech) + n, "")
                /\ PhaseMessages(lines)[1 + Len(lines) + n] =
                     AudioStatus(Len(speech) + n, PhaseStatus)
<1>. DEFINE a == <<Told("phase_change")>>
            b == [n \in 1 .. Len(lines) |-> Message("agent_speak", Len(speech) + n, "")]
            c == [n \in 1 .. Len(lines) |-> AudioStatus(Len(speech) + n, PhaseStatus)]
            S == {Told("phase_change")}
                 \cup {b[n] : n \in 1 .. Len(lines)} \cup {c[n] : n \in 1 .. Len(lines)}
            count == Len(lines)
<1>1. PhaseMessages(lines) = (a \o b) \o c
  BY DEF PhaseMessages, PhaseStatus
<1>2. /\ \A n \in 1 .. count : b[n] = Message("agent_speak", Len(speech) + n, "")
      /\ \A n \in 1 .. count : c[n] = AudioStatus(Len(speech) + n, PhaseStatus)
  OBVIOUS
<1>3. a \in Seq(S) /\ Len(a) = 1 /\ a[1] = Told("phase_change")
  OBVIOUS
<1>4. b \in [1 .. count -> S] /\ c \in [1 .. count -> S]
  OBVIOUS
<1>. HIDE DEF a, b, c, S, count
<1>5. count \in Nat /\ count = Len(lines)
  BY DEF count
<1>6. b \in Seq(S) /\ Len(b) = count /\ c \in Seq(S) /\ Len(c) = count
  BY <1>4, <1>5, TableIsSeq
<1>7. /\ a \o b \in Seq(S) /\ Len(a \o b) = 1 + count
      /\ \A j \in 1 .. 1 + count : (a \o b)[j] = IF j <= 1 THEN a[j] ELSE b[j - 1]
  <2>1. /\ a \o b \in Seq(S) /\ Len(a \o b) = Len(a) + Len(b)
        /\ \A j \in 1 .. Len(a) + Len(b) :
             (a \o b)[j] = IF j <= Len(a) THEN a[j] ELSE b[j - Len(a)]
    BY <1>3, <1>6, ConcatProperties
  <2>. QED BY <1>3, <1>6, <2>1
<1>. DEFINE d == a \o b
<1>. HIDE DEF d
<1>8. d \in Seq(S) /\ Len(d) = 1 + count
  BY <1>7 DEF d
<1>9. /\ Len(d \o c) = (1 + count) + count
      /\ \A j \in 1 .. (1 + count) + count :
           (d \o c)[j] = IF j <= 1 + count THEN d[j] ELSE c[j - (1 + count)]
  <2>1. /\ Len(d \o c) = Len(d) + Len(c)
        /\ \A j \in 1 .. Len(d) + Len(c) :
             (d \o c)[j] = IF j <= Len(d) THEN d[j] ELSE c[j - Len(d)]
    BY <1>6, <1>8, ConcatProperties
  <2>. QED BY <1>6, <1>8, <2>1
<1>10. PhaseMessages(lines) = d \o c
  BY <1>1 DEF d
<1>11. (d \o c)[1] = Told("phase_change")
  <2>1. 1 \in 1 .. (1 + count) + count /\ 1 <= 1 + count /\ 1 \in 1 .. 1 + count
    BY <1>5
  <2>. QED BY <1>3, <1>7, <1>9, <2>1 DEF d
<1>12. ASSUME NEW n \in 1 .. count
       PROVE  (d \o c)[1 + n] = b[n] /\ (d \o c)[1 + count + n] = c[n]
  <2>1. /\ 1 + n \in 1 .. (1 + count) + count /\ 1 + n <= 1 + count
        /\ 1 + n \in 1 .. 1 + count /\ ~(1 + n <= 1) /\ (1 + n) - 1 = n
        /\ (1 + count) + n \in 1 .. (1 + count) + count
        /\ ~((1 + count) + n <= 1 + count) /\ ((1 + count) + n) - (1 + count) = n
    BY <1>5
  <2>. QED BY <1>7, <1>9, <2>1 DEF d
<1>. QED BY <1>2, <1>5, <1>9, <1>10, <1>11, <1>12

LEMMA PhaseKeeps ==
    ASSUME StreamOK, QueuesOK, FreshOK, PhaseCompletes
    PROVE  /\ QueuesOK'
           /\ \A i \in 1 .. MaxSpeech :
                /\ i <= Len(speech) \/ i > Len(speech') => Untouched(i)
                /\ i > Len(speech) /\ configured => Pending(i)'
<1>. USE DEF StreamOK, QueuesOK
<1>. PICK lines : lines = script[hook.phase] /\ Speaks(lines)
  BY PhaseSpeaks
<1>. PICK first \in Nat : first = Len(speech)
  BY LenProperties DEF SpeechOK
<1>. PICK status : status = PhaseStatus
  OBVIOUS
<1>. PICK messages : messages = PhaseMessages(lines)
  OBVIOUS
<1>. PICK count \in Nat : count = Len(lines)
  BY LenProperties DEF Speaks
<1>0. /\ UNCHANGED <<audio, configured, connections>> /\ Len(speech') = first + count
      /\ first + count <= MaxSpeech /\ MaxSpeech \in Nat
  BY SpeaksGrows, StreamAssumption DEF PhaseCompletes, Speaks
<1>1. /\ Len(messages) = 1 + count + count
      /\ messages[1] = Told("phase_change")
      /\ \A n \in 1 .. count :
           /\ messages[1 + n] = Message("agent_speak", first + n, "")
           /\ messages[1 + count + n] = AudioStatus(first + n, status)
  BY PhaseMessagesAt
<1>2. /\ AudioRank(status) \in 2 .. 3
      /\ configured => AudioRank(status) = 2
  BY DEF PhaseStatus, AudioRank
<1>3. ASSUME NEW t \in Tasks
      PROVE  \/ out'[t] = out[t] /\ left'[t] = left[t]
             \/ out'[t] = <<>>
             \/ t = HookTask /\ out'[t] = messages
  <2>1. Broadcasts(HookTask, messages)
    <3>1. \A n \in 1 .. Len(lines) :
            [i \in 1 .. Len(lines) |-> Len(speech) + i][n] = Len(speech) + n
      OBVIOUS
    <3>2. PhaseMessages(lines) =
            <<Told("phase_change")>>
            \o [n \in 1 .. Len(lines) |->
                  Message("agent_speak", [i \in 1 .. Len(lines) |-> Len(speech) + i][n], "")]
            \o [n \in 1 .. Len(lines) |->
                  AudioStatus([i \in 1 .. Len(lines) |-> Len(speech) + i][n],
                              IF configured THEN "pending" ELSE "unavailable")]
      BY <3>1 DEF PhaseMessages
    <3>. QED BY <3>2 DEF PhaseCompletes
  <2>. QED BY <2>1 DEF Broadcasts, SendingOK
(* Each of the new utterances is told of twice.                              *)
<1>4. ASSUME NEW n \in 1 .. Len(messages), NEW i \in 1 .. MaxSpeech, About(messages[n], i)
      PROVE  /\ i \in first + 1 .. first + count
             /\ \/ n = 1 + (i - first) /\ MessageRank(messages[n]) = 1
                \/ /\ n = 1 + count + (i - first)
                   /\ MessageRank(messages[n]) = AudioRank(status)
  <2>. HIDE DEF StreamOK, QueuesOK
  <2>1. n # 1
    <3>1. ~About(Told("phase_change"), i)
      BY DEF About, Told, Message
    <3>. QED BY <1>1, <1>4, <3>1
  <2>2. CASE n \in 2 .. 1 + count
    <3>1. PICK j \in 1 .. count : n = 1 + j
      <4>1. n - 1 \in 1 .. count /\ n = 1 + (n - 1)
        BY <2>2
      <4>. QED BY <4>1
    <3>2. PICK k \in Nat : k = first + j
      OBVIOUS
    <3>3. messages[n] = Message("agent_speak", k, "")
      BY <1>1, <3>1, <3>2
    <3>4. i = k
      <4>1. About(Message("agent_speak", k, ""), i)
        BY <1>4, <3>3
      <4>. QED BY <4>1 DEF About, Message
    <3>5. MessageRank(messages[n]) = 1
      <4>1. MessageRank(Message("agent_speak", k, "")) = 1
        BY DEF MessageRank, Message
      <4>. QED BY <3>3, <4>1
    <3>6. i \in first + 1 .. first + count /\ n = 1 + (i - first)
      BY <3>1, <3>2, <3>4
    <3>. QED BY <3>5, <3>6
  <2>3. CASE n \in 2 + count .. 1 + count + count
    <3>1. PICK j \in 1 .. count : n = 1 + count + j
      <4>1. n - (1 + count) \in 1 .. count /\ n = 1 + count + (n - (1 + count))
        BY <2>3
      <4>. QED BY <4>1
    <3>2. PICK k \in Nat : k = first + j
      OBVIOUS
    <3>3. messages[n] = AudioStatus(k, status)
      BY <1>1, <3>1, <3>2
    <3>4. i = k
      <4>1. About(AudioStatus(k, status), i)
        BY <1>4, <3>3
      <4>. QED BY <4>1 DEF About, AudioStatus, Message
    <3>5. MessageRank(messages[n]) = AudioRank(status)
      <4>1. MessageRank(AudioStatus(k, status)) = AudioRank(status)
        BY DEF MessageRank, AudioStatus, Message
      <4>. QED BY <3>3, <4>1
    <3>6. i \in first + 1 .. first + count /\ n = 1 + count + (i - first)
      BY <3>1, <3>2, <3>4
    <3>. QED BY <3>5, <3>6
  <2>4. n \in 1 .. 1 + count + count
    BY <1>1
  <2>. QED BY <2>1, <2>2, <2>3, <2>4
<1>5. ASSUME NEW t \in Tasks, NEW n \in 1 .. Len(out'[t]), NEW i \in 1 .. MaxSpeech,
             About(out'[t][n], i)
      PROVE  \/ out'[t] = out[t] /\ left'[t] = left[t] /\ i <= first
             \/ t = HookTask /\ out'[t] = messages /\ i > first /\ i <= first + count
  <2>1. CASE out'[t] = out[t] /\ left'[t] = left[t]
    BY <1>5, <2>1 DEF FreshOK, Quiet
  <2>2. CASE t = HookTask /\ out'[t] = messages
    <3>1. i \in first + 1 .. first + count
      BY <1>4, <1>5, <2>2
    <3>. QED BY <2>2, <3>1
  <2>3. out'[t] # <<>>
    BY <1>5
  <2>. QED BY <1>3, <2>1, <2>2, <2>3
<1>6. QueuesRise'
  <2>1. SUFFICES ASSUME NEW t \in Tasks, NEW i \in 1 .. MaxSpeech,
                        NEW n \in 1 .. Len(out'[t]), NEW o \in 1 .. Len(out'[t]),
                        n < o, About(out'[t][n], i), About(out'[t][o], i)
                 PROVE  MessageRank(out'[t][n]) < MessageRank(out'[t][o])
    BY DEF QueuesRise
  <2>2. CASE out'[t] = out[t]
    BY <2>1, <2>2 DEF QueuesRise
  <2>3. CASE out'[t] = messages
    <3>1. /\ \/ n = 1 + (i - first) /\ MessageRank(messages[n]) = 1
             \/ n = 1 + count + (i - first)
          /\ \/ o = 1 + (i - first)
             \/ /\ o = 1 + count + (i - first)
                /\ MessageRank(messages[o]) = AudioRank(status)
          /\ i \in first + 1 .. first + count
      BY <1>4, <2>1, <2>3
    <3>2. n = 1 + (i - first) /\ o = 1 + count + (i - first)
      BY <2>1, <3>1
    <3>3. MessageRank(messages[n]) = 1 /\ MessageRank(messages[o]) = AudioRank(status)
      BY <2>1, <3>1, <3>2
    <3>. QED BY <1>2, <2>3, <3>3
  <2>. QED BY <1>5, <2>1, <2>2, <2>3
<1>7. OneTeller'
  <2>1. SUFFICES ASSUME NEW t \in Tasks, NEW u \in Tasks, NEW i \in 1 .. MaxSpeech,
                        NEW n \in 1 .. Len(out'[t]), NEW o \in 1 .. Len(out'[u]),
                        About(out'[t][n], i), About(out'[u][o], i)
                 PROVE  t = u
    BY DEF OneTeller
  <2>2. CASE i <= first
    <3>1. out'[t] = out[t] /\ out'[u] = out[u]
      BY <1>5, <2>1, <2>2
    <3>. QED BY <2>1, <3>1 DEF OneTeller
  <2>3. CASE i > first
    BY <1>5, <2>1, <2>3
  <2>. QED BY <2>2, <2>3
<1>8. ScreensBehind'
  <2>1. SUFFICES ASSUME NEW t \in Tasks, NEW s \in Sockets, NEW i \in 1 .. MaxSpeech,
                        NEW n \in 1 .. Len(out'[t]),
                        About(out'[t][n], i), n > 1 \/ s \in left'[t]
                 PROVE  AudioRank(audio[s][i]) < MessageRank(out'[t][n])
    BY <1>0 DEF ScreensBehind
  <2>2. CASE out'[t] = out[t] /\ left'[t] = left[t]
    BY <2>1, <2>2 DEF ScreensBehind
  <2>3. CASE out'[t] = messages /\ i > first
    <3>1. AudioRank(audio[s][i]) = 0
      BY <2>3, RanksAre DEF FreshOK
    <3>2. MessageRank(messages[n]) = 1 \/ MessageRank(messages[n]) = AudioRank(status)
      BY <1>4, <2>1, <2>3
    <3>. QED BY <1>2, <2>3, <3>1, <3>2
  <2>. QED BY <1>5, <2>1, <2>2, <2>3
<1>9. ASSUME NEW i \in 1 .. MaxSpeech, i <= first \/ i > first + count PROVE Untouched(i)
  BY <1>0, <1>5, <1>9 DEF Untouched, Quiet
<1>10. ASSUME NEW i \in 1 .. MaxSpeech, i > first, configured PROVE Pending(i)'
  <2>1. Open(i)'
    BY <1>0, <1>10, RanksAre DEF Open, FreshOK
  <2>2. ASSUME NEW t \in Tasks, NEW n \in 1 .. Len(out'[t]), About(out'[t][n], i)
        PROVE  t = HookTask /\ MessageRank(out'[t][n]) <= 2
    <3>1. t = HookTask /\ out'[t] = messages
      BY <1>5, <1>10, <2>2
    <3>2. MessageRank(messages[n]) = 1 \/ MessageRank(messages[n]) = AudioRank(status)
      BY <1>4, <2>2, <3>1
    <3>. QED BY <1>2, <1>10, <3>1, <3>2
  <2>. QED BY <2>1, <2>2 DEF Pending
<1>. QED BY <1>0, <1>6, <1>7, <1>8, <1>9, <1>10

(* A send shows its message on one screen; the last one shortens the queue.   *)
LEMMA SendShows ==
    ASSUME StreamOK, NEW t \in Tasks, NEW s \in Sockets, Send(t, s)
    PROVE  /\ s \in left[t] /\ 1 \in 1 .. Len(out[t])
           /\ \A u \in Sockets, i \in 1 .. MaxSpeech : audio'[u][i] # audio[u][i] =>
                /\ u = s /\ About(out[t][1], i)
                /\ AudioRank(audio'[u][i]) = MessageRank(out[t][1])
<1>. USE DEF StreamOK
<1>1. /\ s \in left[t] /\ out[t] \in Seq(Messages) /\ out[t] # <<>>
  BY DEF Send, SendingOK
<1>2. /\ Len(out[t]) \in Nat /\ Len(out[t]) # 0
      /\ Head(out[t]) = out[t][1] /\ out[t][1] \in Messages
  BY <1>1, HeadTailProperties, LenProperties, EmptySeq
<1>3. 1 \in 1 .. Len(out[t])
  BY <1>2
<1>. PICK m : m = out[t][1]
  OBVIOUS
<1>4. CASE audio' = audio
  BY <1>1, <1>3, <1>4
<1>5. CASE audio' # audio
  <2>1. Received(s, m)
    BY <1>2, <1>5 DEF Send
  <2>2. PICK k \in 1 .. MaxSpeech, status \in Endings \cup {"spoken"} :
          /\ audio' = [audio EXCEPT ![s][k] = status]
          /\ About(m, k) /\ AudioRank(status) = MessageRank(m)
    <3>1. CASE m.type = "agent_speak"
      <4>1. audio' = [audio EXCEPT ![s][m.entry] = "spoken"]
        BY <2>1, <3>1 DEF Received
      <4>2. m.entry \in 1 .. MaxSpeech
        BY <1>2, <3>1 DEF Messages, Plain, Bulletins
      <4>3. About(m, m.entry) /\ MessageRank(m) = 1 /\ AudioRank("spoken") = 1
        BY <3>1, RanksAre DEF About, MessageRank
      <4>. QED BY <4>1, <4>2, <4>3
    <3>2. CASE m.type = "agent_speech_audio"
      <4>1. audio' = [audio EXCEPT ![s][m.entry] = m.status]
        BY <2>1, <3>2 DEF Received
      <4>2. m.entry \in 1 .. MaxSpeech /\ m.status \in Endings
        BY <1>2, <3>2 DEF Messages, Plain, Bulletins, Endings
      <4>3. About(m, m.entry) /\ MessageRank(m) = AudioRank(m.status)
        BY <3>2 DEF About, MessageRank
      <4>. QED BY <4>1, <4>2, <4>3
    <3>3. CASE m.type \notin {"agent_speak", "agent_speech_audio"}
      BY <1>5, <2>1, <3>3 DEF Received
    <3>. QED BY <3>1, <3>2, <3>3
  <2>3. \A u \in Sockets, i \in 1 .. MaxSpeech :
          audio'[u][i] = IF u = s /\ i = k THEN status ELSE audio[u][i]
    <3>1. audio[s] \in [1 .. MaxSpeech -> Endings \cup {"none", "spoken"}]
      BY DEF ScreensOK
    <3>. QED BY <2>2, <3>1 DEF ScreensOK
  <2>. QED BY <1>1, <1>3, <2>2, <2>3
<1>. QED BY <1>4, <1>5

(* The queue of u is as it was, or has lost its head.                         *)
Shifts(t, s, u, d) ==
    /\ \A n \in 1 .. Len(out'[u]) :
         n + d \in 1 .. Len(out[u]) /\ out'[u][n] = out[u][n + d]
    /\ d = 0 => left'[u] = IF u = t THEN left[t] \ {s} ELSE left[u]

LEMMA SendShifts ==
    ASSUME StreamOK, NEW t \in Tasks, NEW s \in Sockets, Send(t, s), NEW u \in Tasks
    PROVE  \E d \in {0, 1} : Shifts(t, s, u, d)
<1>. USE DEF StreamOK
<1>1. out[u] \in Seq(Messages) /\ Len(out[u]) \in Nat
  BY LenProperties DEF SendingOK
<1>2. ASSUME out'[u] = out[u],
             left'[u] = IF u = t THEN left[t] \ {s} ELSE left[u]
      PROVE  Shifts(t, s, u, 0)
  BY <1>1, <1>2 DEF Shifts
<1>3. CASE u # t
  <2>1. out'[u] = out[u] /\ left'[u] = left[u]
    BY <1>3 DEF Send, SendingOK
  <2>. QED BY <1>2, <1>3, <2>1
<1>4. CASE u = t /\ left[t] # {s}
  <2>1. out'[u] = out[u] /\ left'[u] = left[t] \ {s}
    BY <1>4 DEF Send, SendingOK
  <2>. QED BY <1>2, <1>4, <2>1
<1>5. CASE u = t /\ left[t] = {s}
  <2>1. out[t] # <<>>
    BY <1>5 DEF SendingOK
  <2>2. out'[t] = <<>> \/ out'[t] = Tail(out[t])
    BY <1>5 DEF Send, SendingOK
  <2>3. \A n \in 1 .. Len(out'[t]) :
          n + 1 \in 1 .. Len(out[t]) /\ out'[t][n] = out[t][n + 1]
    <3>1. CASE out'[t] = <<>>
      BY <3>1
    <3>2. CASE out'[t] = Tail(out[t])
      <4>1. /\ Len(out'[t]) = Len(out[t]) - 1
            /\ \A n \in 1 .. Len(out[t]) - 1 : out'[t][n] = out[t][n + 1]
        BY <1>1, <1>5, <2>1, <3>2, HeadTailProperties
      <4>. QED BY <1>1, <1>5, <4>1
    <3>. QED BY <2>2, <3>1, <3>2
  <2>. QED BY <1>5, <2>3 DEF Shifts
<1>. QED BY <1>3, <1>4, <1>5

LEMMA SendDelivers ==
    ASSUME StreamOK, NEW t \in Tasks, NEW s \in Sockets, Send(t, s), NEW u \in Tasks,
           NEW n \in 1 .. Len(out'[u])
    PROVE  \E p \in 1 .. Len(out[u]) : out'[u][n] = out[u][p]
<1>1. PICK d \in {0, 1} : Shifts(t, s, u, d)
  BY SendShifts
<1>. QED BY <1>1 DEF Shifts

LEMMA SendTells ==
    ASSUME StreamOK, QueuesOK, NEW t \in Tasks, NEW s \in Sockets, Send(t, s)
    PROVE  /\ QueuesOK'
           /\ \A i \in 1 .. MaxSpeech : Untouched(i) /\ (Pending(i) => Pending(i)')
           /\ \A u \in Sockets, i \in 1 .. MaxSpeech : audio'[u][i] # audio[u][i] =>
                AudioRank(audio[u][i]) < AudioRank(audio'[u][i])
<1>. USE DEF QueuesOK
<1>. PICK m : m = out[t][1]
  OBVIOUS
<1>1. /\ s \in left[t] /\ 1 \in 1 .. Len(out[t])
      /\ \A u \in Sockets, i \in 1 .. MaxSpeech : audio'[u][i] # audio[u][i] =>
           u = s /\ About(m, i) /\ AudioRank(audio'[u][i]) = MessageRank(m)
  BY SendShows
<1>2. QueuesRise'
  <2>1. SUFFICES ASSUME NEW u \in Tasks, NEW i \in 1 .. MaxSpeech,
                        NEW n \in 1 .. Len(out'[u]), NEW o \in 1 .. Len(out'[u]),
                        n < o, About(out'[u][n], i), About(out'[u][o], i)
                 PROVE  MessageRank(out'[u][n]) < MessageRank(out'[u][o])
    BY DEF QueuesRise
  <2>2. PICK d \in {0, 1} : Shifts(t, s, u, d)
    BY SendShifts
  <2>. USE DEF Shifts
  <2>3. n + d \in 1 .. Len(out[u]) /\ o + d \in 1 .. Len(out[u]) /\ n + d < o + d
    BY <2>1, <2>2
  <2>. QED BY <2>1, <2>2, <2>3 DEF QueuesRise
<1>3. OneTeller'
  <2>1. SUFFICES ASSUME NEW u \in Tasks, NEW v \in Tasks, NEW i \in 1 .. MaxSpeech,
                        NEW n \in 1 .. Len(out'[u]), NEW o \in 1 .. Len(out'[v]),
                        About(out'[u][n], i), About(out'[v][o], i)
                 PROVE  u = v
    BY DEF OneTeller
  <2>2. \E p \in 1 .. Len(out[u]) : out'[u][n] = out[u][p]
    BY SendDelivers
  <2>3. \E p \in 1 .. Len(out[v]) : out'[v][o] = out[v][p]
    BY SendDelivers
  <2>. QED BY <2>1, <2>2, <2>3 DEF OneTeller
<1>4. ScreensBehind'
  <2>1. SUFFICES ASSUME NEW u \in Tasks, NEW w \in Sockets, NEW i \in 1 .. MaxSpeech,
                        NEW n \in 1 .. Len(out'[u]),
                        About(out'[u][n], i), n > 1 \/ w \in left'[u]
                 PROVE  AudioRank(audio'[w][i]) < MessageRank(out'[u][n])
    BY DEF ScreensBehind
  <2>2. PICK d \in {0, 1} : Shifts(t, s, u, d)
    BY SendShifts
  <2>. USE DEF Shifts
  <2>. PICK k \in 1 .. Len(out[u]) : k = n + d
    BY <2>2
  <2>3. out'[u][n] = out[u][k] /\ About(out[u][k], i)
    BY <2>1, <2>2
  <2>4. k > 1 \/ (d = 0 /\ n = 1 /\ k = 1 /\ w \in left'[u])
    BY <2>1
  <2>5. CASE audio'[w][i] = audio[w][i]
    <3>1. k > 1 \/ w \in left[u]
      BY <2>2, <2>4
    <3>. QED BY <2>3, <2>5, <3>1 DEF ScreensBehind
  <2>6. CASE audio'[w][i] # audio[w][i]
    <3>1. w = s /\ About(m, i) /\ AudioRank(audio'[w][i]) = MessageRank(m)
      BY <1>1, <2>6
    <3>2. u = t
      BY <1>1, <2>3, <3>1 DEF OneTeller
    <3>3. k > 1
      BY <2>2, <2>4, <3>1, <3>2
    <3>. QED BY <1>1, <2>3, <3>1, <3>2, <3>3 DEF QueuesRise
  <2>. QED BY <2>5, <2>6
<1>5. ASSUME NEW i \in 1 .. MaxSpeech PROVE Untouched(i)
  <2>1. SUFFICES ASSUME Quiet(i)
                 PROVE  Quiet(i)' /\ \A u \in Sockets : audio'[u][i] = audio[u][i]
    BY DEF Untouched
  <2>2. ASSUME NEW u \in Tasks, NEW n \in 1 .. Len(out'[u]) PROVE ~About(out'[u][n], i)
    <3>1. \E p \in 1 .. Len(out[u]) : out'[u][n] = out[u][p]
      BY SendDelivers
    <3>. QED BY <2>1, <3>1 DEF Quiet
  <2>3. ~About(m, i)
    BY <1>1, <2>1 DEF Quiet
  <2>. QED BY <1>1, <2>2, <2>3 DEF Quiet
<1>6. ASSUME NEW i \in 1 .. MaxSpeech, Pending(i) PROVE Pending(i)'
  <2>1. ASSUME NEW u \in Tasks, NEW n \in 1 .. Len(out'[u]), About(out'[u][n], i)
        PROVE  u = HookTask /\ MessageRank(out'[u][n]) <= 2
    <3>1. \E p \in 1 .. Len(out[u]) : out'[u][n] = out[u][p]
      BY SendDelivers
    <3>. QED BY <1>6, <2>1, <3>1 DEF Pending
  <2>2. ASSUME NEW u \in Sockets PROVE AudioRank(audio'[u][i]) <= 2
    <3>1. About(m, i) => MessageRank(m) <= 2
      BY <1>1, <1>6 DEF Pending
    <3>. QED BY <1>1, <1>6, <3>1 DEF Pending, Open
  <2>. QED BY <2>1, <2>2 DEF Pending, Open
<1>7. ASSUME NEW u \in Sockets, NEW i \in 1 .. MaxSpeech, audio'[u][i] # audio[u][i]
      PROVE  AudioRank(audio[u][i]) < AudioRank(audio'[u][i])
  BY <1>1, <1>7 DEF ScreensBehind
<1>. QED BY <1>2, <1>3, <1>4, <1>5, <1>6, <1>7

-----------------------------------------------------------------------------
(* The invariant, and what it says of a step.                                *)

LEMMA ScheduledAreLogged ==
    ASSUME StreamOK, NEW i, Scheduled(i) \/ Unsettled(i)
    PROVE  i <= Len(speech)
<1>1. i \in 1 .. Len(speech)
  BY DEF Scheduled, Unsettled, StreamOK, BatchesOK
<1>2. Len(speech) \in Nat
  BY LenProperties DEF StreamOK, SpeechOK
<1>. QED BY <1>1, <1>2

LEMMA DueArePending ==
    ASSUME DueOK, NEW i \in 1 .. MaxSpeech, Due(i)
    PROVE  Pending(i)
BY DEF DueOK, Pending

(* The queues; the utterances that nothing is told of, and those that are due. *)
LEMMA QueuesKept ==
    ASSUME StreamOK, AudioOK, [StreamNext]_allVars
    PROVE  /\ QueuesOK'
           /\ \A i \in 1 .. MaxSpeech :
                /\ Unsettled(i) /\ Unsettled(i)' => Untouched(i)
                /\ Due(i) /\ ~SpeechPrewarmScheduled => Pending(i)'
                /\ i > Len(speech') => Untouched(i)
<1>. USE DEF AudioOK
<1>0. QueuesOK /\ Len(speech) \in Nat /\ Len(speech') \in Nat /\ Len(speech) <= Len(speech')
  BY SpeechKept, LenProperties DEF QueuesOK, StreamOK, SpeechOK, LogGrows
<1>1. CASE Quietly \/ \E t \in Tasks, s \in Sockets : Send(t, s)
  <2>1. QueuesOK' /\ \A i \in 1 .. MaxSpeech : Untouched(i) /\ (Pending(i) => Pending(i)')
    BY <1>0, <1>1, QuietKeeps, SendTells
  <2>. QED BY <2>1, DueArePending
<1>2. CASE PhaseCompletes
  <2>1. /\ QueuesOK'
        /\ \A i \in 1 .. MaxSpeech : i <= Len(speech) \/ i > Len(speech') => Untouched(i)
    BY <1>0, <1>2, PhaseKeeps
  <2>2. hook.at # "speaking"
    BY <1>2 DEF PhaseCompletes
  <2>. QED BY <2>1, <2>2, ScheduledAreLogged DEF Due
<1>3. CASE Settled
  <2>1. /\ QueuesOK'
        /\ \A i \in 1 .. MaxSpeech : ~Unsettled(i) \/ Unsettled(i)' =>
             Untouched(i) /\ (Pending(i) => Pending(i)')
    BY <1>0, <1>3, SettledKeeps
  <2>2. \A i \in 1 .. MaxSpeech : Due(i) => ~Unsettled(i)
    BY DEF DueOK, Scheduled, Unsettled
  <2>3. \A i \in 1 .. MaxSpeech : i > Len(speech') => ~Unsettled(i)
    <3>1. \A i \in 1 .. MaxSpeech : Unsettled(i) => i <= Len(speech)
      BY ScheduledAreLogged
    <3>. QED BY <1>0, <3>1
  <2>. QED BY <2>1, <2>2, <2>3, DueArePending
<1>. QED BY <1>1, <1>2, <1>3, ToldChanges

LEMMA AudioKept ==
    ASSUME StreamOK, AudioOK, [StreamNext]_allVars
    PROVE  AudioOK'
<1>. USE DEF AudioOK
<1>0. Len(speech) \in Nat /\ Len(speech') \in Nat /\ Len(speech) <= Len(speech')
  BY SpeechKept, LenProperties DEF StreamOK, SpeechOK, LogGrows
<1>1. /\ QueuesOK'
      /\ \A i \in 1 .. MaxSpeech :
           /\ Unsettled(i) /\ Unsettled(i)' => Untouched(i)
           /\ Due(i) /\ ~SpeechPrewarmScheduled => Pending(i)'
           /\ i > Len(speech') => Untouched(i)
  BY QueuesKept
<1>2. /\ BatchesApart'
      /\ \A i \in 1 .. MaxSpeech :
           /\ Scheduled(i)' => Scheduled(i) \/ (SpeechPrewarmScheduled /\ Due(i))
           /\ Unsettled(i)' => Unsettled(i) \/ (SpeechPrewarmScheduled /\ Due(i))
  BY EntriesChange
<1>3. UnsettledOK'
  <2>1. ASSUME NEW i \in 1 .. MaxSpeech, Unsettled(i), Unsettled(i)'
        PROVE  Quiet(i)' /\ Open(i)'
    BY <1>1, <2>1 DEF UnsettledOK, Untouched, Open
  <2>2. ASSUME NEW i \in 1 .. MaxSpeech, SpeechPrewarmScheduled, Due(i)
        PROVE  Quiet(i)' /\ Open(i)'
    <3>1. out[HookTask] = <<>> /\ UNCHANGED <<out, audio>>
      BY <2>2 DEF SpeechPrewarmScheduled, StatusesSent, Idle
    <3>2. Pending(i)
      BY <2>2, DueArePending
    <3>3. Quiet(i)
      BY <3>1, <3>2 DEF Pending, Quiet
    <3>. QED BY <3>1, <3>2, <3>3 DEF Pending, Quiet, Open
  <2>. QED BY <1>2, <2>1, <2>2 DEF UnsettledOK
<1>4. DueOK'
  <2>1. ASSUME NEW i \in 1 .. MaxSpeech, Due(i)' PROVE ~Scheduled(i)' /\ Pending(i)'
    <3>1. CASE Due(i) /\ ~SpeechPrewarmScheduled
      BY <1>1, <1>2, <3>1 DEF DueOK
    <3>2. CASE PhaseCompletes /\ i > Len(speech)
      <4>1. ~Scheduled(i) /\ ~Due(i)
        <5>1. hook.at # "speaking"
          BY <3>2 DEF PhaseCompletes
        <5>. QED BY <1>0, <3>2, <5>1, ScheduledAreLogged DEF Due
      <4>2. configured
        BY <2>1, <3>2 DEF Due, PhaseCompletes
      <4>3. QueuesOK
        BY DEF QueuesOK
      <4>. QED BY <1>2, <3>2, <4>1, <4>2, <4>3, PhaseKeeps
    <3>. QED BY <2>1, <3>1, <3>2, DueChanges
  <2>. QED BY <2>1 DEF DueOK, Pending
<1>5. FreshOK'
  <2>1. ASSUME NEW i \in 1 .. MaxSpeech, i > Len(speech')
        PROVE  Quiet(i)' /\ \A s \in Sockets : audio'[s][i] = "none"
    <3>1. i > Len(speech)
      BY <1>0, <2>1
    <3>. QED BY <1>1, <2>1, <3>1 DEF FreshOK, Untouched
  <2>. QED BY <2>1 DEF FreshOK
<1>. QED BY <1>1, <1>2, <1>3, <1>4, <1>5 DEF QueuesOK

LEMMA AudioStarts == StreamInit => AudioOK
<1>. SUFFICES ASSUME StreamInit PROVE AudioOK
  OBVIOUS
<1>1. /\ \A t \in Tasks : out[t] = <<>>
      /\ Len(batches) = 0 /\ hook.at = "idle"
      /\ \A s \in Sockets, i \in 1 .. MaxSpeech : audio[s][i] = "none"
  BY DEF StreamInit
<1>2. QueuesRise /\ OneTeller /\ ScreensBehind
  BY <1>1 DEF QueuesRise, OneTeller, ScreensBehind
<1>3. BatchesApart /\ UnsettledOK /\ DueOK
  BY <1>1 DEF BatchesApart, UnsettledOK, DueOK, Unsettled, Due
<1>4. FreshOK
  BY <1>1 DEF FreshOK, Quiet
<1>. QED BY <1>2, <1>3, <1>4 DEF AudioOK

LEMMA AudioInv == StreamSpec => [](StreamOK /\ AudioOK)
BY StreamStarts, StreamKept, AudioStarts, AudioKept, PTL DEF StreamSpec

(* What a browser is told of an utterance only moves forward: it is spoken,   *)
(* then pending, then it ends, once, however the sends of the round and of    *)
(* its prewarm tasks interleave (streaming.py:217-265, audio.py:305-420).     *)
THEOREM StatusesMoveForward == StreamSpec => AudioMovesForward
<1>1. ASSUME StreamOK, AudioOK, [StreamNext]_allVars,
             NEW s \in Sockets, NEW i \in 1 .. MaxSpeech, audio'[s][i] # audio[s][i]
      PROVE  AudioRank(audio[s][i]) < AudioRank(audio'[s][i])
  <2>1. \E t \in Tasks, u \in Sockets : Send(t, u)
    BY <1>1, ScreensChange
  <2>2. QueuesOK
    BY <1>1 DEF AudioOK, QueuesOK
  <2>. QED BY <1>1, <2>1, <2>2, SendTells
<1>2. StreamOK /\ AudioOK /\ [StreamNext]_allVars =>
        [\A s \in Sockets, i \in 1 .. MaxSpeech :
           audio'[s][i] # audio[s][i] => AudioRank(audio[s][i]) < AudioRank(audio'[s][i])]_allVars
  BY <1>1
<1>. QED BY <1>2, AudioInv, PTL DEF StreamSpec, AudioMovesForward
=============================================================================
