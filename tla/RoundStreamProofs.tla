-------------------------- MODULE RoundStreamProofs --------------------------
(***************************************************************************)
(* Proofs about RoundStream: for every script, audience and number of      *)
(* attempts, the tasks and the audio cache keep what NarrationProofs shows *)
(* of the cache alone, and what is said of an utterance is true of it.     *)
(***************************************************************************)
EXTENDS RoundStream, NarrationProofs, FiniteSetTheorems

HookPcs == {"idle", "starting", "prewarm", "playing", "phase", "speaking", "ended"}
BatchSteps == {"wait", "own", "default", "fallback", "ready", "error", "done"}
Endings == {"pending", "ready", "error", "unavailable"}

(* What the tasks send.                                                      *)
Bulletins == {"round_start", "crisis_event", "phase_change", "resource_update",
              "threat_update", "round_end", "experiment_end", "step_error"}
Plain ==
    [type : Bulletins, entry : {0}, status : {""}]
    \cup [type : {"gm_plan", "gm_audio_status"}, entry : {0}, status : Endings]
    \cup [type : {"agent_speak"}, entry : 1 .. MaxSpeech, status : {""}]
    \cup [type : {"agent_speech_audio"}, entry : 1 .. MaxSpeech,
          status : Endings \ {"ready"}]
Messages ==
    Plain \cup [type : {"agent_speech_audio"}, entry : 1 .. MaxSpeech, status : {"ready"}]

RoundOK ==
    /\ script \in Seq(Seq(Utterances))
    /\ hook \in [try : 0 .. Attempts, at : HookPcs, phase : 0 .. Len(script)]
    /\ hook.at # "idle" => hook.try # 0
    /\ hook.at \in {"phase", "speaking"} => hook.phase # 0
    /\ plan \in {"idle", "announced", "prewarm", "done"}

SendingOK ==
    /\ sockets \in [Sockets -> {"new", "open", "closed"}]
    /\ connections \subseteq {s \in Sockets : sockets[s] # "new"}
    /\ out \in [Tasks -> Seq(Messages)]
    /\ left \in [Tasks -> SUBSET Sockets]
    /\ \A t \in Tasks : out[t] = <<>> <=> left[t] = {}

ScreensOK ==
    /\ narration \in [Sockets -> Endings \cup {"none"}]
    /\ audio \in [Sockets -> [1 .. MaxSpeech -> Endings \cup {"none", "spoken"}]]

Entries == [agent : DOMAIN VoiceOf, text : Texts, index : Nat, voice : Voices \cup {None}]

SpeechOK ==
    /\ speech \in Seq(Entries)
    /\ Len(speech) <= MaxSpeech

Batches == [entries : Seq(Nat), next : Nat, step : BatchSteps]

BatchesOK ==
    /\ batches \in Seq(Batches)
    /\ \A b \in 1 .. Len(batches) :
         /\ batches[b].next \in 1 .. Len(batches[b].entries)
         /\ \A n \in 1 .. Len(batches[b].entries) : batches[b].entries[n] \in 1 .. Len(speech)
    /\ semaphore \in 0 .. Len(batches)
    /\ hook.at = "speaking" => Len(script[hook.phase]) <= Len(speech)

(* The requests of the prewarms: for which text, and for which batch.         *)
Prewarms == {r \in Requests : r.by \in {"own", "default"}}
UnderWay(r) == pc[r] \in Generating \cup {"waiting"}

PrewarmKeys ==
    \A r \in Prewarms : pc[r] # "new" =>
        r.no \in 1 .. Len(speech) /\ \E voice \in Voices : Key(r) = <<speech[r.no].text, voice>>
PrewarmTasks ==
    \A r \in Prewarms : UnderWay(r) =>
        \E b \in 1 .. Len(batches) : batches[b].step = r.by /\ Entry(b) = r.no
NarrationTasks ==
    \A r \in Requests : UnderWay(r) =>
        /\ r.by = "round" => hook.at = "prewarm" /\ hook.try = r.no
        /\ r.by = "plan" => plan = "prewarm" /\ r.no = 1

PrewarmsOK == PrewarmKeys /\ PrewarmTasks /\ NarrationTasks

StreamOK ==
    /\ CacheOK /\ FlightInv
    /\ RoundOK /\ SendingOK /\ ScreensOK /\ SpeechOK /\ BatchesOK /\ PrewarmsOK

-----------------------------------------------------------------------------
(* The cache and its requests, under the tasks' steps.                       *)

LEMMA EntryIs ==
    ASSUME StreamOK, NEW b \in 1 .. Len(batches)
    PROVE  Entry(b) \in 1 .. Len(speech) /\ Entry(b) \in 1 .. MaxSpeech
<1>1. batches[b].next \in 1 .. Len(batches[b].entries)
      /\ Entry(b) \in 1 .. Len(speech)
  BY DEF StreamOK, BatchesOK, Entry
<1>2. Len(speech) \in Nat /\ Len(speech) <= MaxSpeech /\ MaxSpeech \in Nat
  BY StreamAssumption, LenProperties DEF StreamOK, SpeechOK
<1>. QED BY <1>1, <1>2

LEMMA TextIs ==
    ASSUME StreamOK, NEW i \in 1 .. Len(speech)
    PROVE  /\ speech[i].text \in Texts /\ OwnVoice(i) \in Voices
           /\ \A voice \in Voices : <<speech[i].text, voice>> \in Keys
           /\ KeyOf(i) \in Keys
<1>1. speech[i] \in Entries
  BY ElementOfSeq DEF StreamOK, SpeechOK
<1>2. OwnVoice(i) \in Voices
  BY <1>1 DEF OwnVoice, Voices, Entries
<1>3. \A voice \in Voices : <<speech[i].text, voice>> \in Keys
  BY <1>1 DEF Texts, Entries
<1>. QED BY <1>1, <1>2, <1>3 DEF KeyOf, Entries

(* Whoever prewarms is a request, for one of the keys.                       *)
LEMMA AskersAre ==
    ASSUME StreamOK
    PROVE  /\ hook.at = "starting" => Request("round", hook.try) \in Requests
           /\ Request("plan", 1) \in Requests
           /\ \A b \in 1 .. Len(batches), by \in {"own", "default"} :
                Request(by, Entry(b)) \in Requests
<1>1. hook.at = "starting" => hook.try \in 1 .. Attempts
  BY StreamAssumption DEF StreamOK, RoundOK
<1>2. \A b \in 1 .. Len(batches) : Entry(b) \in 1 .. MaxSpeech
  BY EntryIs
<1>. QED BY <1>1, <1>2, StreamAssumption DEF Request

(* What a step makes of cache and requests.                                  *)
Served == CacheOK' /\ FlightInv' /\ Recent

LEMMA AskServed ==
    ASSUME CacheOK, FlightInv, NEW r \in Requests, NEW k \in Keys,
           NEW consumer \in {"http", "prewarm"}, StreamFor(r, k, consumer)
    PROVE  Served
<1>1. Asks(r) /\ Lookup(k) /\ UNCHANGED result
  BY DEF Asks, StreamFor
<1>. QED BY <1>1, AsksKeeps, RecentLookup DEF Served

LEMMA RestServed ==
    ASSUME CacheOK, FlightInv, UNCHANGED vars
    PROVE  Served
BY ServiceStep DEF Served

LEMMA StreamServed ==
    ASSUME StreamOK, [StreamNext]_allVars
    PROVE  Served
<1>. USE DEF StreamOK
<1>1. ASSUME \/ \E s \in Sockets : Connect(s) \/ Closes(s) \/ Disconnect(s)
             \/ \E t \in Tasks, s \in Sockets : Send(t, s)
             \/ RoundStarts \/ PhaseStarts \/ PhaseCompletes \/ SpeechPrewarmScheduled
             \/ RoundEnds \/ RoundFails
             \/ \E b \in 1 .. Len(batches) : Release(b)
             \/ UNCHANGED allVars
      PROVE  Served
  <2>1. UNCHANGED vars
    BY <1>1 DEF Connect, Closes, Disconnect, Send, RoundStarts, PhaseStarts,
       PhaseCompletes, SpeechPrewarmScheduled, RoundEnds, RoundFails, Release, noTTS,
       allVars
  <2>. QED BY <2>1, RestServed
<1>2. CASE NarrationPrewarm
  <2>1. CASE UNCHANGED vars
    BY <2>1, RestServed
  <2>2. CASE StreamFor(Request("round", hook.try), NarrationKey, "prewarm")
    BY <1>2, <2>2, AskersAre, AskServed, StreamAssumption DEF NarrationPrewarm
  <2>. QED BY <1>2, <2>1, <2>2 DEF NarrationPrewarm, noTTS
<1>3. CASE PlanPrepared
  BY <1>3, ServiceStep, StreamAssumption DEF PlanPrepared, Next, Served
<1>4. CASE PlanPrewarm
  BY <1>4, AskersAre, AskServed, StreamAssumption DEF PlanPrewarm
<1>5. ASSUME NEW b \in 1 .. Len(batches), Acquire(b) \/ Fallback(b) PROVE Served
  <2>1. \E by \in {"own", "default"}, voice \in Voices : SpeechPrewarm(b, by, voice)
    <3>1. OwnVoice(Entry(b)) \in Voices /\ DefaultVoice \in Voices
      BY EntryIs, TextIs DEF Voices
    <3>. QED BY <1>5, <3>1 DEF Acquire, Fallback
  <2>2. PICK by \in {"own", "default"}, voice \in Voices : SpeechPrewarm(b, by, voice)
    BY <2>1
  <2>3. <<speech[Entry(b)].text, voice>> \in Keys /\ Request(by, Entry(b)) \in Requests
    BY EntryIs, TextIs, AskersAre
  <2>. QED BY <2>2, <2>3, AskServed DEF SpeechPrewarm
<1>6. ASSUME NEW r \in Requests, Listen(r) PROVE Served
  <2>1. PICK k \in {NarrationKey} \cup {KeyOf(i) : i \in 1 .. Len(speech)} :
          StreamFor(r, k, "http")
    BY <1>6 DEF Listen
  <2>2. k \in Keys
    BY <2>1, TextIs, StreamAssumption
  <2>. QED BY <2>1, <2>2, AskServed
<1>7. ASSUME NEW r \in Requests, Streaming(r) \/ Gone(r) \/ Failed(r) PROVE Served
  BY <1>7, ServiceStep DEF Streaming, Gone, Failed, Next, Progress, Served
<1>8. ASSUME NEW r \in Requests, Ended(r) PROVE Served
  <2>1. CASE StreamEnds(r)
    BY <2>1, ServiceStep DEF Next, Progress, Served
  <2>2. CASE WakeUp(r) /\ UNCHANGED <<cache, expired>>
    BY <2>2, ServiceStep DEF Next, Progress, Wake, Served
  <2>3. CASE WakeUp(r) /\ Lookup(Key(r))
    <3>1. Key(r) \in Keys /\ UNCHANGED result
      BY <2>3 DEF WakeUp, Signalled, FlightInv, Asking
    <3>. QED BY <2>3, <3>1, MovesOnKeeps, RecentLookup DEF MovesOn, Served
  <2>. QED BY <1>8, <2>1, <2>2, <2>3 DEF Ended
<1>9. ASSUME NEW k \in Ageing, Passes(k) PROVE Served
  BY <1>9, ServiceStep, StreamAssumption DEF Passes, Next, Served
<1>. QED BY <1>1, <1>2, <1>3, <1>4, <1>5, <1>6, <1>7, <1>8, <1>9 DEF StreamNext
-----------------------------------------------------------------------------
(* The caller of a request that is answered.                                 *)

LEMMA BatchOfIs ==
    ASSUME StreamOK, NEW r \in Prewarms, UnderWay(r)
    PROVE  /\ BatchOf(r) \in 1 .. Len(batches)
           /\ batches[BatchOf(r)].step = r.by /\ Entry(BatchOf(r)) = r.no
<1>1. \E b \in 1 .. Len(batches) : batches[b].step = r.by /\ Entry(b) = r.no
  BY DEF StreamOK, PrewarmsOK, PrewarmTasks
<1>. QED BY <1>1 DEF BatchOf

(* Who goes on when r is answered.                                           *)
Caller(r, status) ==
    \/ r.by = "round" /\ hook.at = "prewarm" /\ hook.try = r.no /\ HookResumed(status)
    \/ r.by = "plan" /\ plan = "prewarm" /\ PlanResumed(status)
    \/ /\ r \in Prewarms
       /\ \E b \in 1 .. Len(batches), voice \in Voices :
            /\ batches[b].step = r.by /\ Entry(b) = r.no
            /\ Key(r) = <<speech[r.no].text, voice>>
            /\ BatchResumed(b, r, voice, status)
    \/ r.by = "http" /\ UNCHANGED <<out, left, hook, plan, batches, speech>>

LEMMA AnswerIs ==
    ASSUME StreamOK, NEW r \in Requests, Ended(r) \/ Failed(r)
    PROVE  /\ UnderWay(r) /\ UNCHANGED <<ask, awaits>>
           /\ \E l \in {"done", "failed"} :
                /\ pc' = [pc EXCEPT ![r] = l]
                /\ Caller(r, IF l = "done" THEN "ready" ELSE "error")
           /\ UNCHANGED <<script, asked, configured, sockets, connections, semaphore,
                          narration, audio>>
<1>1. /\ UnderWay(r) /\ UNCHANGED <<ask, awaits>>
      /\ \E l \in {"done", "failed"} :
           /\ pc' = [pc EXCEPT ![r] = l]
           /\ Resumed(r, IF l = "done" THEN "ready" ELSE "error")
  <2>1. CASE StreamEnds(r) /\ Resumed(r, "ready")
    BY <2>1 DEF StreamEnds, Goto, UnderWay, Generating
  <2>2. CASE WakeUp(r) /\ Resumed(r, IF pc'[r] = "done" THEN "ready" ELSE "error")
    <3>1. PICK l \in {"done", "failed"} : pc' = [pc EXCEPT ![r] = l]
      BY <2>2 DEF WakeUp, Goto
    <3>2. pc'[r] = l
      BY <3>1 DEF StreamOK, FlightInv, FlightType
    <3>. QED BY <2>2, <3>1, <3>2 DEF WakeUp, Signalled, UnderWay
  <2>3. CASE StreamFails(r) /\ Resumed(r, "error")
    BY <2>3 DEF StreamFails, Goto, UnderWay, Generating
  <2>. QED BY <2>1, <2>2, <2>3 DEF Ended, Failed
<1>2. PICK l \in {"done", "failed"} :
        /\ pc' = [pc EXCEPT ![r] = l]
        /\ Resumed(r, IF l = "done" THEN "ready" ELSE "error")
  BY <1>1
<1>. DEFINE status == IF l = "done" THEN "ready" ELSE "error"
<1>3. r.by \in {"round", "plan", "own", "default", "http"}
  BY StreamAssumption
<1>4. CASE r \in Prewarms
  <2>1. BatchResumed(BatchOf(r), r, Key(r)[2], status)
    BY <1>2, <1>4 DEF Resumed, Prewarms
  <2>2. PICK voice \in Voices : Key(r) = <<speech[r.no].text, voice>>
    BY <1>1, <1>4 DEF StreamOK, PrewarmsOK, PrewarmKeys, UnderWay, Generating
  <2>3. BatchResumed(BatchOf(r), r, voice, status)
    BY <2>1, <2>2
  <2>4. Caller(r, status)
    BY <1>1, <1>4, <2>2, <2>3, BatchOfIs DEF Caller
  <2>. QED BY <1>1, <1>2, <2>4 DEF Resumed
<1>5. CASE r \notin Prewarms
  <2>1. Caller(r, status)
    BY <1>1, <1>2, <1>3, <1>5 DEF Resumed, Prewarms, Caller, StreamOK, PrewarmsOK,
       NarrationTasks
  <2>. QED BY <1>1, <1>2, <2>1 DEF Resumed
<1>. QED BY <1>4, <1>5

-----------------------------------------------------------------------------
(* The round.                                                                *)

LEMMA RoundKept ==
    ASSUME StreamOK, [StreamNext]_allVars
    PROVE  RoundOK'
<1>. USE DEF StreamOK
<1>1. ASSUME UNCHANGED <<script, hook, plan>> PROVE RoundOK'
  BY <1>1 DEF RoundOK
<1>2. ASSUME \/ \E s \in Sockets : Connect(s) \/ Closes(s) \/ Disconnect(s)
             \/ \E t \in Tasks, s \in Sockets : Send(t, s)
             \/ \E b \in 1 .. Len(batches) : Acquire(b) \/ Fallback(b) \/ Release(b)
             \/ \E r \in Requests : Listen(r) \/ Streaming(r) \/ Gone(r)
             \/ \E k \in Ageing : Passes(k)
             \/ UNCHANGED allVars
      PROVE  RoundOK'
  <2>1. UNCHANGED <<script, hook, plan>>
    BY <1>2 DEF Connect, Closes, Disconnect, Send, Acquire, Fallback, SpeechPrewarm,
       BatchResumed, Release, Listen, Streaming, Gone, Passes, streamVars, allVars
  <2>. QED BY <1>1, <2>1
<1>3. Len(script) \in Nat /\ Attempts \in Nat
  BY StreamAssumption, LenProperties DEF RoundOK
<1>4. CASE RoundStarts
  <2>1. hook.try \in 0 .. Attempts /\ hook.try < Attempts
    BY <1>4 DEF RoundStarts, RoundOK
  <2>2. hook' = [try |-> hook.try + 1, at |-> "starting", phase |-> 0]
        /\ UNCHANGED <<script, plan>>
    BY <1>4 DEF RoundStarts
  <2>3. hook.try + 1 \in 0 .. Attempts /\ hook.try + 1 # 0 /\ 0 \in 0 .. Len(script)
    BY <1>3, <2>1
  <2>. QED BY <2>2, <2>3 DEF RoundOK, HookPcs
<1>5. CASE PhaseStarts
  <2>1. hook.phase \in 0 .. Len(script) /\ hook.phase < Len(script) /\ hook.at = "playing"
    BY <1>5 DEF PhaseStarts, RoundOK
  <2>2. hook' = [hook EXCEPT !.at = "phase", !.phase = @ + 1]
        /\ UNCHANGED <<script, plan>>
    BY <1>5 DEF PhaseStarts
  <2>3. hook.phase + 1 \in 0 .. Len(script) /\ hook.phase + 1 # 0
    BY <1>3, <2>1
  <2>. QED BY <2>1, <2>2, <2>3 DEF RoundOK, HookPcs
<1>6. ASSUME \/ NarrationPrewarm \/ PhaseCompletes \/ SpeechPrewarmScheduled
             \/ RoundEnds \/ RoundFails
      PROVE  RoundOK'
  <2>1. /\ UNCHANGED <<script, plan>> /\ hook.at # "idle"
        /\ \E at \in HookPcs :
             /\ hook' = [hook EXCEPT !.at = at]
             /\ at \in {"phase", "speaking"} => hook.at = "phase"
    BY <1>6 DEF NarrationPrewarm, HookResumed, PhaseCompletes, SpeechPrewarmScheduled,
       RoundEnds, RoundFails, HookAt, HookPcs
  <2>. QED BY <2>1 DEF RoundOK
<1>7. ASSUME PlanPrepared \/ PlanPrewarm PROVE RoundOK'
  BY <1>7 DEF PlanPrepared, PlanPrewarm, PlanResumed, RoundOK
<1>8. ASSUME NEW r \in Requests, Ended(r) \/ Failed(r) PROVE RoundOK'
  <2>1. /\ UNCHANGED script
        /\ \E status : Caller(r, status)
    BY <1>8, AnswerIs
  <2>. QED BY <2>1 DEF Caller, HookResumed, PlanResumed, BatchResumed, HookAt, HookPcs, RoundOK
<1>. QED BY <1>2, <1>4, <1>5, <1>6, <1>7, <1>8 DEF StreamNext

-----------------------------------------------------------------------------
(* What is sent, and what arrives.                                           *)

LEMMA BroadcastsKeeps ==
    ASSUME SendingOK, NEW t, NEW messages \in Seq(Messages), Broadcasts(t, messages),
           UNCHANGED <<sockets, connections>>
    PROVE  SendingOK'
<1>1. <<>> \in Seq(Messages)
  BY EmptySeq
<1>2. /\ out' \in [Tasks -> Seq(Messages)] /\ left' \in [Tasks -> SUBSET Sockets]
  BY <1>1 DEF SendingOK, Broadcasts
<1>3. \A u \in Tasks : out'[u] = <<>> <=> left'[u] = {}
  BY DEF SendingOK, Broadcasts
<1>. QED BY <1>2, <1>3 DEF SendingOK

LEMMA BulletinIs ==
    ASSUME NEW bulletin \in Bulletins
    PROVE  Told(bulletin) \in Plain
BY DEF Told, Message, Plain

LEMMA NarrationMessageIs ==
    ASSUME NEW type \in {"gm_plan", "gm_audio_status"}, NEW status \in Endings
    PROVE  Message(type, 0, status) \in Plain
BY DEF Message, Plain

LEMMA AnnouncementIs ==
    ASSUME NEW status \in Endings
    PROVE  Announcement(status) \in Seq(Plain)
<1>. DEFINE a == <<Told("round_start"), Message("gm_plan", 0, status)>>
            b == IF configured THEN <<Message("gm_audio_status", 0, status)>> ELSE <<>>
            c == <<Told("crisis_event")>>
<1>1. a \in Seq(Plain) /\ b \in Seq(Plain) /\ c \in Seq(Plain)
  BY BulletinIs, NarrationMessageIs, EmptySeq DEF Bulletins
<1>2. Announcement(status) = (a \o b) \o c
  BY DEF Announcement
<1>. HIDE DEF a, b, c
<1>3. a \o b \in Seq(Plain)
  BY <1>1, ConcatProperties
<1>. QED BY <1>1, <1>2, <1>3, ConcatProperties

(* The messages of a phase: its events, its utterances, their statuses.       *)
PhaseMessages(lines) ==
    <<Told("phase_change")>>
    \o [n \in 1 .. Len(lines) |-> Message("agent_speak", Len(speech) + n, "")]
    \o [n \in 1 .. Len(lines) |->
          AudioStatus(Len(speech) + n, IF configured THEN "pending" ELSE "unavailable")]

LEMMA TableIsSeq ==
    ASSUME NEW n \in Nat, NEW S, NEW f \in [1 .. n -> S]
    PROVE  f \in Seq(S) /\ Len(f) = n
<1>1. f \in Seq(S)
  BY SeqDef
<1>2. DOMAIN f = 1 .. n /\ DOMAIN f = 1 .. Len(f) /\ Len(f) \in Nat
  BY <1>1, LenProperties
<1>. QED BY <1>1, <1>2

LEMMA PhaseMessagesAre ==
    ASSUME SpeechOK, NEW lines \in Seq(Utterances), Len(speech) + Len(lines) <= MaxSpeech
    PROVE  PhaseMessages(lines) \in Seq(Plain)
<1>. DEFINE a == <<Told("phase_change")>>
            b == [n \in 1 .. Len(lines) |-> Message("agent_speak", Len(speech) + n, "")]
            c == [n \in 1 .. Len(lines) |->
                    AudioStatus(Len(speech) + n,
                                IF configured THEN "pending" ELSE "unavailable")]
<1>0. Len(lines) \in Nat /\ Len(speech) \in Nat
  BY LenProperties DEF SpeechOK
<1>1. \A n \in 1 .. Len(lines) : Len(speech) + n \in 1 .. MaxSpeech
  BY <1>0, StreamAssumption
<1>2. \A n \in 1 .. Len(lines) : Message("agent_speak", Len(speech) + n, "") \in Plain
  BY <1>1 DEF Message, Plain
<1>3. \A n \in 1 .. Len(lines), status \in Endings \ {"ready"} :
        AudioStatus(Len(speech) + n, status) \in Plain
  BY <1>1 DEF AudioStatus, Message, Plain
<1>4. (IF configured THEN "pending" ELSE "unavailable") \in Endings \ {"ready"}
  BY DEF Endings
<1>5. a \in Seq(Plain)
  BY BulletinIs DEF Bulletins
<1>6. b \in Seq(Plain)
  <2>1. b \in [1 .. Len(lines) -> Plain]
    BY <1>2
  <2>. HIDE DEF b
  <2>. QED BY <1>0, <2>1, TableIsSeq
<1>7. c \in Seq(Plain)
  <2>1. c \in [1 .. Len(lines) -> Plain]
    BY <1>3, <1>4
  <2>. HIDE DEF c
  <2>. QED BY <1>0, <2>1, TableIsSeq
<1>8. PhaseMessages(lines) = (a \o b) \o c
  BY DEF PhaseMessages
<1>. HIDE DEF a, b, c
<1>9. a \o b \in Seq(Plain)
  BY <1>5, <1>6, ConcatProperties
<1>. QED BY <1>7, <1>8, <1>9, ConcatProperties

LEMMA SendKeeps ==
    ASSUME SendingOK, NEW t \in Tasks, NEW s \in Sockets, Send(t, s)
    PROVE  SendingOK'
<1>. DEFINE remaining == connections \ (IF sockets[s] # "open" THEN {s} ELSE {})
            more == IF remaining = {} THEN <<>> ELSE Tail(out[t])
<1>1. s \in left[t] /\ connections' = remaining /\ UNCHANGED sockets
  BY DEF Send
<1>2. out[t] \in Seq(Messages) /\ out[t] # <<>> /\ left[t] \subseteq Sockets
  BY <1>1 DEF SendingOK
<1>3. more \in Seq(Messages)
  BY <1>2, EmptySeq, HeadTailProperties
<1>4. remaining \subseteq connections
  OBVIOUS
<1>5. more # <<>> => remaining # {}
  OBVIOUS
<1>. HIDE DEF more, remaining
<1>6. CASE left[t] # {s}
  <2>1. left' = [left EXCEPT ![t] = left[t] \ {s}] /\ UNCHANGED out
    BY <1>6 DEF Send
  <2>2. left[t] \ {s} # {}
    BY <1>1, <1>6
  <2>. QED BY <1>1, <1>2, <1>4, <2>1, <2>2 DEF SendingOK
<1>7. CASE left[t] = {s}
  <2>1. /\ out' = [out EXCEPT ![t] = more]
        /\ left' = [left EXCEPT ![t] = IF more = <<>> THEN {} ELSE remaining]
    BY <1>7 DEF Send, more, remaining
  <2>. QED BY <1>1, <1>3, <1>4, <1>5, <2>1 DEF SendingOK
<1>. QED BY <1>6, <1>7

(* A task that broadcasts, or does not: it says of an utterance that it is    *)
(* ready in the step that gives it the voice.                                *)
Voiced(i) == i \in 1 .. Len(speech) /\ speech[i].voice # None
SendsSome ==
    \/ UNCHANGED <<out, left>>
    \/ \E t : \E messages \in Seq(Plain) : Broadcasts(t, messages)
    \/ \E t : \E i \in 1 .. MaxSpeech :
         Broadcasts(t, <<AudioStatus(i, "ready")>>) /\ Voiced(i)'

LEMMA ThatSends ==
    ASSUME NEW t, NEW messages \in Seq(Plain), Broadcasts(t, messages)
    PROVE  SendsSome
BY DEF SendsSome

LEMMA SendsSomeKeeps ==
    ASSUME SendingOK, SendsSome, UNCHANGED <<sockets, connections>>
    PROVE  SendingOK'
<1>1. CASE UNCHANGED <<out, left>>
  BY <1>1 DEF SendingOK
<1>2. ASSUME NEW t, NEW messages \in Seq(Plain), Broadcasts(t, messages) PROVE SendingOK'
  <2>1. messages \in Seq(Messages)
    <3>1. \A n \in 1 .. Len(messages) : messages[n] \in Messages
      BY ElementOfSeq DEF Messages
    <3>2. messages \in [1 .. Len(messages) -> Messages] /\ Len(messages) \in Nat
      BY <3>1, LenProperties
    <3>. QED BY <3>2, TableIsSeq
  <2>. QED BY <1>2, <2>1, BroadcastsKeeps
<1>3. ASSUME NEW t, NEW i \in 1 .. MaxSpeech, Broadcasts(t, <<AudioStatus(i, "ready")>>)
      PROVE  SendingOK'
  <2>1. AudioStatus(i, "ready") \in Messages
    BY DEF AudioStatus, Message, Messages
  <2>2. <<AudioStatus(i, "ready")>> \in Seq(Messages)
    BY <2>1
  <2>. QED BY <1>3, <2>2, BroadcastsKeeps
<1>. QED BY <1>1, <1>2, <1>3 DEF SendsSome

LEMMA ResumedSends ==
    ASSUME NEW status \in Endings, StreamOK
    PROVE  /\ HookResumed(status) => SendsSome
           /\ PlanResumed(status) => SendsSome
           /\ \A r, b : \A voice \in Voices :
                r.no \in 1 .. Len(speech) /\ BatchResumed(b, r, voice, status) => SendsSome
<1>1. HookResumed(status) => SendsSome
  BY AnnouncementIs, ThatSends DEF HookResumed
<1>2. PlanResumed(status) => SendsSome
  <2>1. PlanStatus(status) \in Seq(Plain)
    BY NarrationMessageIs DEF PlanStatus
  <2>. QED BY <2>1, ThatSends DEF PlanResumed
<1>3. ASSUME NEW r, NEW b, NEW voice \in Voices, r.no \in 1 .. Len(speech),
             BatchResumed(b, r, voice, status)
      PROVE  SendsSome
  <2>0. r.no \in 1 .. MaxSpeech
    <3>1. Len(speech) \in Nat /\ Len(speech) <= MaxSpeech /\ MaxSpeech \in Nat
      BY StreamAssumption, LenProperties DEF StreamOK, SpeechOK
    <3>. QED BY <1>3, <3>1
  <2>1. CASE UNCHANGED <<out, left>>
    BY <2>1 DEF SendsSome
  <2>2. CASE Broadcasts(BatchTask(b), <<AudioStatus(r.no, status)>>) /\ status # "ready"
    <3>1. AudioStatus(r.no, status) \in Plain
      BY <2>0, <2>2 DEF AudioStatus, Message, Plain
    <3>2. <<AudioStatus(r.no, status)>> \in Seq(Plain)
      BY <3>1
    <3>. QED BY <2>2, <3>2, ThatSends
  <2>3. CASE Broadcasts(BatchTask(b), <<AudioStatus(r.no, status)>>) /\ status = "ready"
    <3>1. speech[r.no] \in Entries /\ speech \in Seq(Entries) /\ voice # None
      BY <1>3, ElementOfSeq, StreamAssumption DEF StreamOK, SpeechOK
    <3>2. speech' = [speech EXCEPT ![r.no].voice = voice]
      BY <1>3, <2>3 DEF BatchResumed, SpokenIn
    <3>. DEFINE e == [speech[r.no] EXCEPT !.voice = voice]
    <3>3. e \in Entries /\ e.voice = voice
      BY <3>1 DEF Entries
    <3>4. speech' = [speech EXCEPT ![r.no] = e]
      BY <3>2
    <3>. HIDE DEF e
    <3>5. Len(speech') = Len(speech) /\ speech'[r.no] = e
      BY <1>3, <3>1, <3>3, <3>4, ExceptSeq
    <3>6. PICK i \in 1 .. MaxSpeech : i = r.no
      BY <2>0
    <3>7. Voiced(i)'
      BY <1>3, <3>1, <3>3, <3>5, <3>6 DEF Voiced
    <3>8. Broadcasts(BatchTask(b), <<AudioStatus(i, "ready")>>)
      BY <2>3, <3>6
    <3>. QED BY <3>7, <3>8 DEF SendsSome
  <2>. QED BY <1>3, <2>1, <2>2, <2>3 DEF BatchResumed
<1>. QED BY <1>1, <1>2, <1>3

LEMMA StreamSends ==
    ASSUME StreamOK, [StreamNext]_allVars
    PROVE  \/ \E s \in Sockets : Connect(s) \/ Closes(s) \/ Disconnect(s)
           \/ \E t \in Tasks, s \in Sockets : Send(t, s)
           \/ SendsSome /\ UNCHANGED <<sockets, connections>>
<1>. USE DEF StreamOK
<1>1. ASSUME \/ RoundStarts \/ SpeechPrewarmScheduled
             \/ \E b \in 1 .. Len(batches) : Release(b)
             \/ \E r \in Requests : Listen(r) \/ Streaming(r) \/ Gone(r)
             \/ \E k \in Ageing : Passes(k)
             \/ UNCHANGED allVars
      PROVE  SendsSome /\ UNCHANGED <<sockets, connections>>
  BY <1>1 DEF RoundStarts, SpeechPrewarmScheduled, Release, Listen, Streaming, Gone,
     Passes, streamVars, allVars, SendsSome
<1>2. CASE NarrationPrewarm
  <2>1. "unavailable" \in Endings /\ "ready" \in Endings
    BY DEF Endings
  <2>2. SendsSome
    BY <1>2, <2>1, ResumedSends DEF NarrationPrewarm, SendsSome
  <2>. QED BY <1>2, <2>2 DEF NarrationPrewarm
<1>3. CASE PhaseStarts \/ RoundFails
  <2>1. \E bulletin \in Bulletins : Broadcasts(HookTask, <<Told(bulletin)>>)
    BY <1>3 DEF PhaseStarts, RoundFails, Bulletins
  <2>2. SendsSome
    <3>1. PICK bulletin \in Bulletins : Broadcasts(HookTask, <<Told(bulletin)>>)
      BY <2>1
    <3>2. <<Told(bulletin)>> \in Seq(Plain)
      BY <3>1, BulletinIs
    <3>. QED BY <3>1, <3>2, ThatSends
  <2>. QED BY <1>3, <2>2 DEF PhaseStarts, RoundFails
<1>4. CASE PhaseCompletes
  <2>. DEFINE lines == script[hook.phase]
  <2>1. hook.phase \in 1 .. Len(script)
    <3>1. Len(script) \in Nat /\ hook.phase \in 0 .. Len(script)
      BY LenProperties DEF RoundOK
    <3>2. hook.phase # 0
      BY <1>4 DEF PhaseCompletes, RoundOK
    <3>. QED BY <3>1, <3>2
  <2>2. lines \in Seq(Utterances) /\ Len(lines) \in Nat
    BY <2>1, ElementOfSeq, LenProperties DEF RoundOK
  <2>3. Broadcasts(HookTask, PhaseMessages(lines)) /\ Len(speech) + Len(lines) <= MaxSpeech
    <3>. HIDE DEF lines
    <3>1. \A n \in 1 .. Len(lines) :
            [i \in 1 .. Len(lines) |-> Len(speech) + i][n] = Len(speech) + n
      OBVIOUS
    <3>2. PhaseMessages(lines) =
            <<Told("phase_change")>>
            \o [n \in 1 .. Len(lines) |->
                  Message("agent_speak", [i \in 1 .. Len(lines) |-> Len(speech) + i][n], "")]
            \o [n \in 1 .. Len(lines) |->
                  AudioStatus([i \in 1 .. Len(lines) |-> Len(speech) + i][n],
                              IF configured THEN "pending" ELSE "unavailable")]
      BY <3>1 DEF PhaseMessages
    <3>. QED BY <1>4, <3>2 DEF PhaseCompletes, lines
  <2>4. SendsSome
    BY <2>2, <2>3, PhaseMessagesAre, ThatSends
  <2>. QED BY <1>4, <2>4 DEF PhaseCompletes
<1>5. CASE RoundEnds
  <2>1. <<Told("resource_update"), Told("threat_update"), Told("round_end"),
          Told("experiment_end")>> \in Seq(Plain)
    BY BulletinIs DEF Bulletins
  <2>2. SendsSome
    BY <1>5, <2>1, ThatSends DEF RoundEnds
  <2>. QED BY <1>5, <2>2 DEF RoundEnds
<1>6. CASE PlanPrepared
  <2>1. \A status \in Endings : PlanStatus(status) \in Seq(Plain)
    BY NarrationMessageIs DEF PlanStatus
  <2>2. SendsSome
    <3>1. PICK status \in Endings : Broadcasts(PlanTask, PlanStatus(status))
      BY <1>6 DEF PlanPrepared, Endings
    <3>. QED BY <2>1, <3>1, ThatSends
  <2>. QED BY <1>6, <2>2 DEF PlanPrepared
<1>7. CASE PlanPrewarm
  <2>1. SendsSome
    <3>1. "ready" \in Endings
      BY DEF Endings
    <3>. QED BY <1>7, <3>1, ResumedSends DEF PlanPrewarm, SendsSome
  <2>. QED BY <1>7, <2>1 DEF PlanPrewarm
<1>8. ASSUME NEW b \in 1 .. Len(batches), Acquire(b) \/ Fallback(b)
      PROVE  SendsSome /\ UNCHANGED <<sockets, connections>>
  <2>1. OwnVoice(Entry(b)) \in Voices /\ DefaultVoice \in Voices
    BY EntryIs, TextIs DEF Voices
  <2>2. PICK by \in {"own", "default"}, voice \in Voices : SpeechPrewarm(b, by, voice)
    BY <1>8, <2>1 DEF Acquire, Fallback
  <2>3. Request(by, Entry(b)).no \in 1 .. Len(speech) /\ "ready" \in Endings
    BY EntryIs DEF Request, Endings
  <2>4. SendsSome
    BY <2>2, <2>3, ResumedSends DEF SpeechPrewarm, SendsSome
  <2>. QED BY <2>2, <2>4 DEF SpeechPrewarm
<1>9. ASSUME NEW r \in Requests, Ended(r) \/ Failed(r) PROVE SendsSome /\ UNCHANGED <<sockets, connections>>
  <2>1. \E status \in {"ready", "error"} : Caller(r, status)
    BY <1>9, AnswerIs
  <2>2. PICK status \in {"ready", "error"} : Caller(r, status)
    BY <2>1
  <2>3. status \in Endings
    BY <2>2 DEF Endings
  <2>4. SendsSome
    BY <2>2, <2>3, ResumedSends, EntryIs DEF Caller, SendsSome
  <2>. QED BY <1>9, <2>4, AnswerIs
<1>. QED BY <1>1, <1>2, <1>3, <1>4, <1>5, <1>6, <1>7, <1>8, <1>9 DEF StreamNext

LEMMA SendingKept ==
    ASSUME StreamOK, [StreamNext]_allVars
    PROVE  SendingOK'
<1>. USE DEF StreamOK
<1>1. ASSUME NEW s \in Sockets, Connect(s) \/ Closes(s) \/ Disconnect(s) PROVE SendingOK'
  BY <1>1 DEF Connect, Closes, Disconnect, SendingOK
<1>. QED BY <1>1, SendKeeps, SendsSomeKeeps, StreamSends

LEMMA ReceivedKeeps ==
    ASSUME ScreensOK, NEW s \in Sockets, NEW m \in Messages, Received(s, m)
    PROVE  ScreensOK'
<1>1. /\ m.type = "gm_plan" => m.status \in Endings
      /\ m.type = "gm_audio_status" => m.status \in Endings
      /\ m.type = "agent_speak" => m.entry \in 1 .. MaxSpeech
      /\ m.type = "agent_speech_audio" => m.entry \in 1 .. MaxSpeech /\ m.status \in Endings
  BY DEF Messages, Plain, Bulletins, Endings
<1>2. narration' \in [Sockets -> Endings \cup {"none"}]
  <2>1. CASE narration' = narration
    BY <2>1 DEF ScreensOK
  <2>2. CASE narration' # narration
    <3>1. /\ m.type = "gm_plan" \/ m.type = "gm_audio_status"
          /\ narration' = [narration EXCEPT ![s] = m.status]
      BY <2>2 DEF Received
    <3>. QED BY <1>1, <3>1 DEF ScreensOK
  <2>. QED BY <2>1, <2>2
<1>3. audio' = audio
      \/ \E i \in 1 .. MaxSpeech, status \in Endings \cup {"spoken"} :
           audio' = [audio EXCEPT ![s][i] = status]
  BY <1>1 DEF Received
<1>4. ASSUME NEW i \in 1 .. MaxSpeech, NEW status \in Endings \cup {"spoken"},
             audio' = [audio EXCEPT ![s][i] = status]
      PROVE  audio' \in [Sockets -> [1 .. MaxSpeech -> Endings \cup {"none", "spoken"}]]
  <2>1. audio[s] \in [1 .. MaxSpeech -> Endings \cup {"none", "spoken"}]
    BY DEF ScreensOK
  <2>2. [audio[s] EXCEPT ![i] = status] \in [1 .. MaxSpeech -> Endings \cup {"none", "spoken"}]
    BY <2>1
  <2>. QED BY <1>4, <2>2 DEF ScreensOK
<1>5. audio' \in [Sockets -> [1 .. MaxSpeech -> Endings \cup {"none", "spoken"}]]
  BY <1>3, <1>4 DEF ScreensOK
<1>. QED BY <1>2, <1>5 DEF ScreensOK

(* Only a send changes what a browser shows.                                 *)
LEMMA ScreensChange ==
    ASSUME StreamOK, [StreamNext]_allVars
    PROVE  \/ UNCHANGED <<narration, audio>>
           \/ \E t \in Tasks, s \in Sockets :
                Send(t, s) /\ out[t] # <<>> /\ Received(s, Head(out[t]))
<1>. USE DEF StreamOK
<1>1. CASE \E t \in Tasks, s \in Sockets : Send(t, s)
  BY <1>1 DEF Send, SendingOK
<1>2. CASE \E r \in Requests : Ended(r) \/ Failed(r)
  BY <1>2, AnswerIs
<1>3. ASSUME \/ \E s \in Sockets : Connect(s) \/ Closes(s) \/ Disconnect(s)
             \/ RoundStarts \/ NarrationPrewarm \/ PhaseStarts \/ PhaseCompletes
             \/ SpeechPrewarmScheduled \/ RoundEnds \/ RoundFails
             \/ PlanPrepared \/ PlanPrewarm
             \/ \E b \in 1 .. Len(batches) : Acquire(b) \/ Fallback(b) \/ Release(b)
             \/ \E r \in Requests : Listen(r) \/ Streaming(r) \/ Gone(r)
             \/ \E k \in Ageing : Passes(k)
             \/ UNCHANGED allVars
      PROVE  UNCHANGED <<narration, audio>>
  BY <1>3 DEF Connect, Closes, Disconnect, RoundStarts, NarrationPrewarm, PhaseStarts,
     PhaseCompletes, SpeechPrewarmScheduled, RoundEnds, RoundFails, PlanPrepared,
     PlanPrewarm, Acquire, Fallback, SpeechPrewarm, Release, Listen, Streaming, Gone,
     Passes, streamVars, allVars
<1>. QED BY <1>1, <1>2, <1>3 DEF StreamNext

LEMMA ScreensKept ==
    ASSUME StreamOK, [StreamNext]_allVars
    PROVE  ScreensOK'
<1>1. CASE UNCHANGED <<narration, audio>>
  BY <1>1 DEF StreamOK, ScreensOK
<1>2. ASSUME NEW t \in Tasks, NEW s \in Sockets, out[t] # <<>>, Received(s, Head(out[t]))
      PROVE  ScreensOK'
  <2>1. Head(out[t]) \in Messages
    BY <1>2, HeadTailProperties DEF StreamOK, SendingOK
  <2>. QED BY <1>2, <2>1, ReceivedKeeps DEF StreamOK
<1>. QED BY <1>1, <1>2, ScreensChange

-----------------------------------------------------------------------------
(* The log of utterances.                                                    *)

(* What a phase appends.                                                     *)
Logged(lines) ==
    [n \in 1 .. Len(lines) |->
       [agent |-> lines[n].agent, text |-> lines[n].text,
        index |-> IndexFor(lines, n), voice |-> None]]

LEMMA CountIsNat ==
    ASSUME NEW n \in Nat, NEW S \in SUBSET (1 .. n)
    PROVE  IsFiniteSet(S) /\ Cardinality(S) \in Nat
<1>1. IsFiniteSet(1 .. n)
  BY FS_Interval
<1>. QED BY <1>1, FS_Subset, FS_CardinalityType

LEMMA LoggedIs ==
    ASSUME SpeechOK, NEW lines \in Seq(Utterances)
    PROVE  Logged(lines) \in Seq(Entries) /\ Len(Logged(lines)) = Len(lines)
<1>1. Len(lines) \in Nat /\ Len(speech) \in Nat
  BY LenProperties DEF SpeechOK
<1>2. ASSUME NEW n \in 1 .. Len(lines) PROVE IndexFor(lines, n) \in Nat
  <2>. DEFINE A == {j \in 1 .. Len(speech) : speech[j].agent = lines[n].agent}
              B == {j \in 1 .. n - 1 : lines[j].agent = lines[n].agent}
  <2>1. A \in SUBSET (1 .. Len(speech)) /\ B \in SUBSET (1 .. n - 1) /\ n - 1 \in Nat
    BY <1>1
  <2>. HIDE DEF A, B
  <2>2. Cardinality(A) \in Nat /\ Cardinality(B) \in Nat
    BY <1>1, <2>1, CountIsNat
  <2>3. Cardinality(A) + Cardinality(B) \in Nat
    BY <2>2
  <2>. QED BY <2>3 DEF IndexFor, A, B
<1>3. ASSUME NEW n \in 1 .. Len(lines)
      PROVE  lines[n].agent \in DOMAIN VoiceOf /\ lines[n].text \in Texts
  <2>1. lines[n] \in Utterances
    BY ElementOfSeq
  <2>. QED BY <2>1 DEF Utterances
<1>4. \A n \in 1 .. Len(lines) :
        [agent |-> lines[n].agent, text |-> lines[n].text,
         index |-> IndexFor(lines, n), voice |-> None] \in Entries
  BY <1>2, <1>3 DEF Entries
<1>5. Logged(lines) \in [1 .. Len(lines) -> Entries]
  BY <1>4 DEF Logged
<1>. QED BY <1>1, <1>5, TableIsSeq

(* A phase appends its utterances; an utterance gets the voice of a prewarm   *)
(* that ended well.                                                          *)
Speaks(lines) ==
    /\ lines \in Seq(Utterances) /\ Len(speech) + Len(lines) <= MaxSpeech
    /\ speech' = speech \o Logged(lines)
GetsVoice(i, voice) ==
    /\ i \in 1 .. Len(speech) /\ voice \in Voices
    /\ speech' = [speech EXCEPT ![i].voice = voice]

LEMMA PhaseSpeaks ==
    ASSUME StreamOK, PhaseCompletes
    PROVE  Speaks(script[hook.phase])
<1>1. Len(script) \in Nat /\ hook.phase \in 0 .. Len(script)
  BY LenProperties DEF StreamOK, RoundOK
<1>2. hook.phase # 0
  BY DEF PhaseCompletes, StreamOK, RoundOK
<1>3. script[hook.phase] \in Seq(Utterances)
  BY <1>1, <1>2, ElementOfSeq DEF StreamOK, RoundOK
<1>. QED BY <1>3 DEF PhaseCompletes, Speaks, Logged

LEMMA VoicesCome ==
    ASSUME NEW r, NEW b, NEW voice \in Voices, NEW status, r.no \in 1 .. Len(speech),
           BatchResumed(b, r, voice, status)
    PROVE  UNCHANGED speech \/ GetsVoice(r.no, voice)
BY DEF BatchResumed, SpokenIn, GetsVoice

LEMMA SpeechChanges ==
    ASSUME StreamOK, [StreamNext]_allVars
    PROVE  \/ UNCHANGED speech
           \/ PhaseCompletes /\ \E lines : Speaks(lines)
           \/ \E i, voice : GetsVoice(i, voice)
<1>. USE DEF StreamOK
<1>1. ASSUME \/ \E s \in Sockets : Connect(s) \/ Closes(s) \/ Disconnect(s)
             \/ \E t \in Tasks, s \in Sockets : Send(t, s)
             \/ RoundStarts \/ NarrationPrewarm \/ PhaseStarts
             \/ SpeechPrewarmScheduled \/ RoundEnds \/ RoundFails
             \/ PlanPrepared \/ PlanPrewarm
             \/ \E b \in 1 .. Len(batches) : Release(b)
             \/ \E r \in Requests : Listen(r) \/ Streaming(r) \/ Gone(r)
             \/ \E k \in Ageing : Passes(k)
             \/ UNCHANGED allVars
      PROVE  UNCHANGED speech
  BY <1>1 DEF Connect, Closes, Disconnect, Send, RoundStarts, NarrationPrewarm,
     HookResumed, PhaseStarts, SpeechPrewarmScheduled, RoundEnds, RoundFails,
     PlanPrepared, PlanPrewarm, PlanResumed, Release, Listen, Streaming, Gone, Passes,
     streamVars, allVars
<1>2. CASE PhaseCompletes
  BY <1>2, PhaseSpeaks
<1>3. ASSUME NEW b \in 1 .. Len(batches), NEW by, NEW voice \in Voices,
             SpeechPrewarm(b, by, voice)
      PROVE  UNCHANGED speech \/ \E i, v : GetsVoice(i, v)
  <2>1. Request(by, Entry(b)).no \in 1 .. Len(speech)
    BY EntryIs DEF Request
  <2>. QED BY <1>3, <2>1, VoicesCome DEF SpeechPrewarm
<1>4. ASSUME NEW b \in 1 .. Len(batches), Acquire(b) \/ Fallback(b)
      PROVE  UNCHANGED speech \/ \E i, v : GetsVoice(i, v)
  <2>1. OwnVoice(Entry(b)) \in Voices /\ DefaultVoice \in Voices
    BY EntryIs, TextIs DEF Voices
  <2>. QED BY <1>3, <1>4, <2>1 DEF Acquire, Fallback
<1>5. ASSUME NEW r \in Requests, Ended(r) \/ Failed(r)
      PROVE  UNCHANGED speech \/ \E i, v : GetsVoice(i, v)
  <2>1. \E status : Caller(r, status)
    BY <1>5, AnswerIs
  <2>2. PICK status : Caller(r, status)
    BY <2>1
  <2>3. ASSUME NEW b \in 1 .. Len(batches), NEW voice \in Voices, Entry(b) = r.no,
               BatchResumed(b, r, voice, status)
        PROVE  UNCHANGED speech \/ GetsVoice(r.no, voice)
    <3>1. r.no \in 1 .. Len(speech)
      BY <2>3, EntryIs
    <3>. QED BY <2>3, <3>1, VoicesCome
  <2>4. UNCHANGED speech \/ \E b \in 1 .. Len(batches), voice \in Voices :
          Entry(b) = r.no /\ BatchResumed(b, r, voice, status)
    BY <2>2 DEF Caller, HookResumed, PlanResumed
  <2>. QED BY <2>3, <2>4
<1>. QED BY <1>1, <1>2, <1>4, <1>5 DEF StreamNext

(* The log only grows, and what it says of an utterance stays, but the voice. *)
LogGrows ==
    /\ Len(speech) <= Len(speech')
    /\ \A i \in 1 .. Len(speech) :
         /\ i \in 1 .. Len(speech')
         /\ speech'[i].agent = speech[i].agent /\ speech'[i].text = speech[i].text
         /\ speech'[i].index = speech[i].index

LEMMA SpeaksGrows ==
    ASSUME SpeechOK, NEW lines, Speaks(lines)
    PROVE  /\ SpeechOK' /\ LogGrows /\ Len(speech') = Len(speech) + Len(lines)
           /\ \A i \in 1 .. Len(speech) : speech'[i] = speech[i]
           /\ \A n \in 1 .. Len(lines) : speech'[Len(speech) + n] = Logged(lines)[n]
<1>1. /\ speech \in Seq(Entries) /\ Logged(lines) \in Seq(Entries)
      /\ Len(Logged(lines)) = Len(lines) /\ Len(lines) \in Nat /\ Len(speech) \in Nat
  BY LoggedIs, LenProperties DEF Speaks, SpeechOK
<1>2. /\ speech' \in Seq(Entries) /\ Len(speech') = Len(speech) + Len(lines)
      /\ \A i \in 1 .. Len(speech) + Len(lines) :
           speech'[i] = IF i <= Len(speech) THEN speech[i]
                        ELSE Logged(lines)[i - Len(speech)]
  <2>. DEFINE more == Logged(lines)
  <2>1. speech' = speech \o more /\ more \in Seq(Entries) /\ Len(more) = Len(lines)
    BY <1>1 DEF Speaks
  <2>. HIDE DEF more
  <2>2. /\ speech \o more \in Seq(Entries) /\ Len(speech \o more) = Len(speech) + Len(more)
        /\ \A i \in 1 .. Len(speech) + Len(more) :
             (speech \o more)[i] = IF i <= Len(speech) THEN speech[i] ELSE more[i - Len(speech)]
    BY <1>1, <2>1, ConcatProperties
  <2>. QED BY <2>1, <2>2 DEF more
<1>3. \A i \in 1 .. Len(speech) : i \in 1 .. Len(speech) + Len(lines) /\ i <= Len(speech)
  BY <1>1
<1>4. \A i \in 1 .. Len(speech) : speech'[i] = speech[i]
  BY <1>2, <1>3
<1>5. Len(speech) <= Len(speech')
  BY <1>1, <1>2
<1>6. ASSUME NEW n \in 1 .. Len(lines)
      PROVE  speech'[Len(speech) + n] = Logged(lines)[n]
  <2>1. /\ Len(speech) + n \in 1 .. Len(speech) + Len(lines)
        /\ ~(Len(speech) + n <= Len(speech)) /\ (Len(speech) + n) - Len(speech) = n
    BY <1>1
  <2>. QED BY <1>2, <2>1
<1>. QED BY <1>2, <1>3, <1>4, <1>5, <1>6 DEF SpeechOK, LogGrows, Speaks

LEMMA VoiceGrows ==
    ASSUME SpeechOK, NEW i, NEW voice, GetsVoice(i, voice)
    PROVE  /\ SpeechOK' /\ LogGrows /\ Len(speech') = Len(speech)
           /\ speech'[i].voice = voice
           /\ \A j \in 1 .. Len(speech) : j # i => speech'[j] = speech[j]
<1>1. speech[i] \in Entries /\ i \in 1 .. Len(speech) /\ speech \in Seq(Entries)
  BY ElementOfSeq DEF SpeechOK, GetsVoice
<1>. DEFINE e == [speech[i] EXCEPT !.voice = voice]
<1>2. /\ e \in Entries /\ e.voice = voice
      /\ e.agent = speech[i].agent /\ e.text = speech[i].text /\ e.index = speech[i].index
  BY <1>1 DEF Entries, GetsVoice
<1>3. speech' = [speech EXCEPT ![i] = e]
  BY DEF GetsVoice
<1>. HIDE DEF e
<1>4. /\ speech' \in Seq(Entries) /\ Len(speech') = Len(speech)
      /\ \A j \in 1 .. Len(speech) : speech'[j] = IF j = i THEN e ELSE speech[j]
  BY <1>1, <1>2, <1>3, ExceptSeq
<1>5. Len(speech) \in Nat
  BY LenProperties DEF SpeechOK
<1>. QED BY <1>1, <1>2, <1>4, <1>5 DEF SpeechOK, LogGrows

LEMMA SpeechKept ==
    ASSUME StreamOK, [StreamNext]_allVars
    PROVE  SpeechOK' /\ LogGrows
<1>1. CASE UNCHANGED speech
  <2>1. Len(speech) \in Nat
    BY LenProperties DEF StreamOK, SpeechOK
  <2>. QED BY <1>1, <2>1 DEF StreamOK, SpeechOK, LogGrows
<1>. QED BY <1>1, SpeechChanges, SpeaksGrows, VoiceGrows DEF StreamOK

-----------------------------------------------------------------------------
(* The speech prewarm tasks.                                                 *)

(* The utterances of a phase wait to be spoken once they are logged.          *)
LEMMA PhaseIsLogged ==
    ASSUME StreamOK, [StreamNext]_allVars, hook'.at = "speaking"
    PROVE  Len(script'[hook'.phase]) <= Len(speech')
<1>. USE DEF StreamOK
<1>1. Len(speech) \in Nat /\ Len(speech') \in Nat /\ Len(speech) <= Len(speech')
  BY SpeechKept, LenProperties DEF SpeechOK, LogGrows
<1>2. CASE PhaseCompletes
  <2>1. PICK lines : lines = script[hook.phase] /\ Speaks(lines)
    BY <1>2, PhaseSpeaks
  <2>2. hook'.phase = hook.phase /\ script' = script
    BY <1>2 DEF PhaseCompletes, HookAt, RoundOK
  <2>3. Len(lines) \in Nat
    BY <2>1, LenProperties DEF Speaks
  <2>4. Len(speech') = Len(speech) + Len(lines)
    BY <2>1, SpeaksGrows
  <2>5. Len(lines) <= Len(speech')
    BY <1>1, <2>3, <2>4
  <2>. QED BY <2>1, <2>2, <2>5
<1>3. CASE UNCHANGED <<script, hook>>
  <2>1. /\ hook.at = "speaking" /\ script[hook.phase] \in Seq(Utterances)
    <3>1. Len(script) \in Nat
      BY LenProperties DEF RoundOK
    <3>2. hook.at = "speaking" /\ hook.phase \in 0 .. Len(script) /\ hook.phase # 0
      BY <1>3 DEF RoundOK
    <3>. QED BY <3>1, <3>2, ElementOfSeq DEF RoundOK
  <2>2. Len(script[hook.phase]) \in Nat /\ Len(script[hook.phase]) <= Len(speech)
    BY <2>1, LenProperties DEF BatchesOK
  <2>3. Len(script[hook.phase]) <= Len(speech')
    BY <1>1, <2>2
  <2>. QED BY <1>3, <2>3
<1>4. ASSUME ~PhaseCompletes PROVE UNCHANGED <<script, hook>>
  <2>1. CASE \/ \E s \in Sockets : Connect(s) \/ Closes(s) \/ Disconnect(s)
             \/ \E t \in Tasks, s \in Sockets : Send(t, s)
             \/ PlanPrepared \/ PlanPrewarm
             \/ \E b \in 1 .. Len(batches) : Acquire(b) \/ Fallback(b) \/ Release(b)
             \/ \E r \in Requests : Listen(r) \/ Streaming(r) \/ Gone(r)
             \/ \E k \in Ageing : Passes(k)
             \/ UNCHANGED allVars
    BY <2>1 DEF Connect, Closes, Disconnect, Send, PlanPrepared, PlanPrewarm, PlanResumed,
       Acquire, Fallback, SpeechPrewarm, BatchResumed, Release, Listen, Streaming, Gone,
       Passes, streamVars, allVars
  <2>2. CASE RoundStarts \/ PhaseStarts \/ NarrationPrewarm \/ SpeechPrewarmScheduled
             \/ RoundEnds \/ RoundFails
    <3>1. \E at \in HookPcs \ {"speaking"} :
            \/ hook' = [hook EXCEPT !.at = at]
            \/ hook' = [hook EXCEPT !.at = at, !.phase = @ + 1]
            \/ hook' = [try |-> hook.try + 1, at |-> at, phase |-> 0]
      BY <2>2 DEF RoundStarts, PhaseStarts, NarrationPrewarm, SpeechPrewarmScheduled,
         RoundEnds, RoundFails, HookResumed, HookAt, HookPcs
    <3>2. hook \in [try : 0 .. Attempts, at : HookPcs, phase : 0 .. Len(script)]
      BY DEF RoundOK
    <3>3. PICK at \in HookPcs \ {"speaking"} :
            \/ hook' = [hook EXCEPT !.at = at]
            \/ hook' = [hook EXCEPT !.at = at, !.phase = @ + 1]
            \/ hook' = [try |-> hook.try + 1, at |-> at, phase |-> 0]
      BY <3>1
    <3>4. hook'.at = at
      <4>1. CASE hook' = [hook EXCEPT !.at = at]
        BY ONLY <3>2, <4>1
      <4>2. CASE hook' = [hook EXCEPT !.at = at, !.phase = @ + 1]
        BY ONLY <3>2, <4>2
      <4>3. CASE hook' = [try |-> hook.try + 1, at |-> at, phase |-> 0]
        BY ONLY <4>3
      <4>. QED BY <3>3, <4>1, <4>2, <4>3
    <3>5. at # "speaking"
      OBVIOUS
    <3>. QED BY <3>4, <3>5
  <2>3. ASSUME NEW r \in Requests, Ended(r) \/ Failed(r)
        PROVE  UNCHANGED <<script, hook>>
    <3>1. UNCHANGED script /\ \E status : Caller(r, status)
      BY <2>3, AnswerIs
    <3>. QED BY <3>1 DEF Caller, HookResumed, PlanResumed, BatchResumed, HookAt, RoundOK
  <2>. QED BY <1>4, <2>1, <2>2, <2>3 DEF StreamNext
<1>. QED BY <1>2, <1>3, <1>4

(* What becomes of the tasks: one is scheduled, one takes a step with its     *)
(* utterance, or turns to its next.                                          *)
Schedules ==
    LET spoken == Len(script[hook.phase]) IN
    batches' = Append(batches, [entries |-> [n \in 1 .. spoken |-> Len(speech) - spoken + n],
                                next |-> 1, step |-> "wait"])
Steps(b, step) ==
    /\ b \in 1 .. Len(batches) /\ step \in BatchSteps
    /\ batches' = [batches EXCEPT ![b].step = step]
TurnsToNext(b) ==
    /\ b \in 1 .. Len(batches)
    /\ batches' = [batches EXCEPT ![b] = NextEntry(b)]

(* A task that is waited for by a request waits for it.                       *)
LEMMA BatchMoves ==
    ASSUME NEW b \in 1 .. Len(batches), NEW r, NEW voice, NEW status \in {"ready", "error"},
           BatchResumed(b, r, voice, status)
    PROVE  \E step \in {"fallback", "ready", "error"} : Steps(b, step)
BY DEF BatchResumed, BatchStep, Steps, BatchSteps

LEMMA PrewarmMoves ==
    ASSUME NEW b \in 1 .. Len(batches), NEW by \in {"own", "default"}, NEW voice,
           SpeechPrewarm(b, by, voice)
    PROVE  \E step \in {"fallback", "ready", "error", by} : Steps(b, step)
<1>1. CASE BatchResumed(b, Request(by, Entry(b)), voice, "ready")
  BY <1>1, BatchMoves
<1>2. CASE BatchStep(b, by)
  BY <1>2 DEF BatchStep, Steps, BatchSteps
<1>. QED BY <1>1, <1>2 DEF SpeechPrewarm

LEMMA BatchesChange ==
    ASSUME StreamOK, [StreamNext]_allVars
    PROVE  \/ UNCHANGED <<batches, semaphore>>
           \/ SpeechPrewarmScheduled /\ Schedules /\ UNCHANGED semaphore
           \/ /\ \E b, step : Steps(b, step)
              /\ UNCHANGED semaphore \/ \E b \in 1 .. Len(batches) : semaphore' = b
           \/ \E b : TurnsToNext(b) /\ semaphore' = 0
<1>. USE DEF StreamOK
<1>1. ASSUME \/ \E s \in Sockets : Connect(s) \/ Closes(s) \/ Disconnect(s)
             \/ \E t \in Tasks, s \in Sockets : Send(t, s)
             \/ RoundStarts \/ NarrationPrewarm \/ PhaseStarts \/ PhaseCompletes
             \/ RoundEnds \/ RoundFails
             \/ PlanPrepared \/ PlanPrewarm
             \/ \E r \in Requests : Listen(r) \/ Streaming(r) \/ Gone(r)
             \/ \E k \in Ageing : Passes(k)
             \/ UNCHANGED allVars
      PROVE  UNCHANGED <<batches, semaphore>>
  BY <1>1 DEF Connect, Closes, Disconnect, Send, RoundStarts, NarrationPrewarm,
     HookResumed, PhaseStarts, PhaseCompletes, RoundEnds, RoundFails,
     PlanPrepared, PlanPrewarm, PlanResumed, Listen, Streaming, Gone, Passes,
     streamVars, allVars
<1>2. CASE SpeechPrewarmScheduled
  BY <1>2 DEF SpeechPrewarmScheduled, Schedules
<1>3. ASSUME NEW b \in 1 .. Len(batches), Acquire(b)
      PROVE  /\ \E c, step : Steps(c, step)
             /\ \E c \in 1 .. Len(batches) : semaphore' = c
  BY <1>3, PrewarmMoves DEF Acquire
<1>4. ASSUME NEW b \in 1 .. Len(batches), Fallback(b)
      PROVE  (\E c, step : Steps(c, step)) /\ UNCHANGED semaphore
  BY <1>4, PrewarmMoves DEF Fallback
<1>5. ASSUME NEW b \in 1 .. Len(batches), Release(b)
      PROVE  TurnsToNext(b) /\ semaphore' = 0
  BY <1>5 DEF Release, TurnsToNext
<1>6. ASSUME NEW r \in Requests, Ended(r) \/ Failed(r)
      PROVE  /\ UNCHANGED semaphore
             /\ UNCHANGED batches \/ \E b, step : Steps(b, step)
  <2>1. UNCHANGED semaphore /\ \E status \in {"ready", "error"} : Caller(r, status)
    BY <1>6, AnswerIs
  <2>. QED BY <2>1, BatchMoves DEF Caller, HookResumed, PlanResumed
<1>. QED BY <1>1, <1>2, <1>3, <1>4, <1>5, <1>6 DEF StreamNext

(* One task that changes leaves the other tasks alone.                       *)
LEMMA OneBatchChanges ==
    ASSUME BatchesOK, NEW b \in 1 .. Len(batches), NEW new \in Batches,
           batches' = [batches EXCEPT ![b] = new]
    PROVE  /\ batches' \in Seq(Batches) /\ Len(batches') = Len(batches)
           /\ batches'[b] = new
           /\ \A c \in 1 .. Len(batches) : c # b => batches'[c] = batches[c]
BY ExceptSeq DEF BatchesOK

LEMMA StepsChange ==
    ASSUME BatchesOK, NEW b, NEW step, Steps(b, step)
    PROVE  /\ batches' \in Seq(Batches) /\ Len(batches') = Len(batches)
           /\ batches'[b].step = step
           /\ \A c \in 1 .. Len(batches) :
                /\ c # b => batches'[c] = batches[c]
                /\ batches'[c].next = batches[c].next
                /\ batches'[c].entries = batches[c].entries
                /\ Entry(c)' = Entry(c)
<1>1. b \in 1 .. Len(batches) /\ batches[b] \in Batches /\ step \in BatchSteps
  BY ElementOfSeq DEF BatchesOK, Steps
<1>. DEFINE new == [batches[b] EXCEPT !.step = step]
<1>2. /\ new \in Batches /\ new.step = step /\ new.next = batches[b].next
      /\ new.entries = batches[b].entries
  BY <1>1 DEF Batches
<1>3. batches' = [batches EXCEPT ![b] = new]
  BY DEF Steps
<1>. HIDE DEF new
<1>4. /\ batches' \in Seq(Batches) /\ Len(batches') = Len(batches)
      /\ batches'[b] = new
      /\ \A c \in 1 .. Len(batches) : c # b => batches'[c] = batches[c]
  BY <1>1, <1>2, <1>3, OneBatchChanges
<1>. QED BY <1>1, <1>2, <1>4 DEF Entry

LEMMA NextChanges ==
    ASSUME BatchesOK, NEW b, TurnsToNext(b)
    PROVE  /\ batches' \in Seq(Batches) /\ Len(batches') = Len(batches)
           /\ \A c \in 1 .. Len(batches) :
                /\ c # b => batches'[c] = batches[c]
                /\ batches'[c].next \in 1 .. Len(batches'[c].entries)
                /\ batches'[c].entries = batches[c].entries
<1>1. /\ b \in 1 .. Len(batches) /\ batches[b] \in Batches
      /\ batches[b].next \in 1 .. Len(batches[b].entries)
  BY ElementOfSeq DEF BatchesOK, TurnsToNext
<1>2. Len(batches[b].entries) \in Nat
  BY <1>1, LenProperties DEF Batches
<1>. DEFINE new == NextEntry(b)
<1>3. /\ new \in Batches /\ new.entries = batches[b].entries
      /\ new.next \in 1 .. Len(batches[b].entries)
  <2>1. CASE batches[b].next = Len(batches[b].entries)
    <3>1. new = [batches[b] EXCEPT !.step = "done"]
      BY <2>1 DEF NextEntry
    <3>. QED BY <1>1, <3>1 DEF Batches, BatchSteps
  <2>2. CASE batches[b].next # Len(batches[b].entries)
    <3>1. new = [batches[b] EXCEPT !.step = "wait", !.next = @ + 1]
      BY <2>2 DEF NextEntry
    <3>2. batches[b].next + 1 \in 1 .. Len(batches[b].entries)
          /\ batches[b].next + 1 \in Nat
      BY <1>1, <1>2, <2>2
    <3>. QED BY <1>1, <3>1, <3>2 DEF Batches, BatchSteps
  <2>. QED BY <2>1, <2>2
<1>4. batches' = [batches EXCEPT ![b] = new]
  BY DEF TurnsToNext
<1>. HIDE DEF new
<1>5. /\ batches' \in Seq(Batches) /\ Len(batches') = Len(batches)
      /\ batches'[b] = new
      /\ \A c \in 1 .. Len(batches) : c # b => batches'[c] = batches[c]
  BY <1>1, <1>3, <1>4, OneBatchChanges
<1>. QED BY <1>1, <1>3, <1>5 DEF BatchesOK

(* A scheduled task begins with the first utterance of the phase.            *)
LEMMA ScheduleAdds ==
    ASSUME StreamOK, SpeechPrewarmScheduled, Schedules, batches' # batches
    PROVE  /\ batches' \in Seq(Batches) /\ Len(batches') = Len(batches) + 1
           /\ \A c \in 1 .. Len(batches) : batches'[c] = batches[c]
           /\ LET new == batches'[Len(batches) + 1] IN
                /\ new.next \in 1 .. Len(new.entries) /\ new.step = "wait"
                /\ Len(new.entries) = Len(script[hook.phase])
                /\ \A n \in 1 .. Len(new.entries) :
                     /\ new.entries[n] \in 1 .. Len(speech)
                     /\ new.entries[n] = Len(speech) - Len(script[hook.phase]) + n
<1>. USE DEF StreamOK
<1>. DEFINE spoken == Len(script[hook.phase])
            entries == [n \in 1 .. spoken |-> Len(speech) - spoken + n]
            new == [entries |-> entries, next |-> 1, step |-> "wait"]
<1>1. spoken > 0 /\ hook.at = "speaking"
  BY DEF SpeechPrewarmScheduled
<1>2. spoken \in Nat /\ spoken <= Len(speech) /\ Len(speech) \in Nat
  <2>1. Len(script) \in Nat /\ hook.phase \in 0 .. Len(script) /\ hook.phase # 0
    BY <1>1, LenProperties DEF RoundOK
  <2>2. script[hook.phase] \in Seq(Utterances)
    BY <2>1, ElementOfSeq DEF RoundOK
  <2>. QED BY <1>1, <2>2, LenProperties DEF BatchesOK, SpeechOK
<1>3. batches' = Append(batches, new)
  BY DEF Schedules
<1>. HIDE DEF spoken
<1>4. \A n \in 1 .. spoken : Len(speech) - spoken + n \in 1 .. Len(speech)
  BY <1>2
<1>5. /\ entries \in [1 .. spoken -> 1 .. Len(speech)] /\ entries \in [1 .. spoken -> Nat]
      /\ \A n \in 1 .. spoken : entries[n] = Len(speech) - spoken + n
  BY <1>2, <1>4
<1>. HIDE DEF entries
<1>6. entries \in Seq(Nat) /\ Len(entries) = spoken
  BY <1>2, <1>5, TableIsSeq
<1>7. 1 \in 1 .. spoken
  BY <1>1, <1>2 DEF spoken
<1>8. new \in Batches
  BY <1>6 DEF Batches, BatchSteps
<1>9. new.next = 1 /\ new.entries = entries /\ new.step = "wait"
  OBVIOUS
<1>. HIDE DEF new
<1>10. /\ batches' \in Seq(Batches) /\ Len(batches') = Len(batches) + 1
       /\ \A c \in 1 .. Len(batches) : batches'[c] = batches[c]
       /\ batches'[Len(batches) + 1] = new
  BY <1>3, <1>8, AppendProperties DEF BatchesOK
<1>. QED BY <1>5, <1>6, <1>7, <1>9, <1>10 DEF spoken

LEMMA BatchesKept ==
    ASSUME StreamOK, [StreamNext]_allVars
    PROVE  BatchesOK'
<1>. USE DEF StreamOK
<1>0. /\ Len(batches) \in Nat /\ Len(speech) \in Nat /\ Len(speech') \in Nat
      /\ Len(speech) <= Len(speech')
      /\ semaphore \in 0 .. Len(batches) /\ batches \in Seq(Batches)
      /\ \A b \in 1 .. Len(batches) :
           /\ batches[b].next \in 1 .. Len(batches[b].entries)
           /\ \A n \in 1 .. Len(batches[b].entries) : batches[b].entries[n] \in 1 .. Len(speech)
  BY SpeechKept, LenProperties DEF SpeechOK, BatchesOK, LogGrows
<1>1. hook'.at = "speaking" => Len(script'[hook'.phase]) <= Len(speech')
  BY PhaseIsLogged
<1>2. \A i \in 1 .. Len(speech) : i \in 1 .. Len(speech')
  BY <1>0
<1>3. CASE UNCHANGED <<batches, semaphore>>
  <2>1. \A b \in 1 .. Len(batches') :
           /\ batches'[b].next \in 1 .. Len(batches'[b].entries)
           /\ \A n \in 1 .. Len(batches'[b].entries) : batches'[b].entries[n] \in 1 .. Len(speech')
    BY <1>0, <1>2, <1>3
  <2>. QED BY <1>0, <1>1, <1>3, <2>1 DEF BatchesOK
<1>4. ASSUME SpeechPrewarmScheduled, Schedules, batches' # batches, UNCHANGED semaphore
      PROVE  BatchesOK'
  <2>1. /\ batches' \in Seq(Batches) /\ Len(batches') = Len(batches) + 1
        /\ \A c \in 1 .. Len(batches) : batches'[c] = batches[c]
        /\ LET new == batches'[Len(batches) + 1] IN
             /\ new.next \in 1 .. Len(new.entries)
             /\ \A n \in 1 .. Len(new.entries) : new.entries[n] \in 1 .. Len(speech)
    BY <1>4, ScheduleAdds
  <2>2. ASSUME NEW b \in 1 .. Len(batches')
        PROVE  /\ batches'[b].next \in 1 .. Len(batches'[b].entries)
               /\ \A n \in 1 .. Len(batches'[b].entries) :
                    batches'[b].entries[n] \in 1 .. Len(speech')
    <3>1. b \in 1 .. Len(batches) \/ b = Len(batches) + 1
      BY <1>0, <2>1
    <3>. QED BY <1>0, <1>2, <2>1, <3>1
  <2>3. semaphore' \in 0 .. Len(batches')
    BY <1>0, <1>4, <2>1
  <2>. QED BY <1>1, <2>1, <2>2, <2>3 DEF BatchesOK
<1>5. ASSUME NEW b, NEW step, Steps(b, step),
             UNCHANGED semaphore \/ \E c \in 1 .. Len(batches) : semaphore' = c
      PROVE  BatchesOK'
  <2>1. /\ batches' \in Seq(Batches) /\ Len(batches') = Len(batches)
        /\ \A c \in 1 .. Len(batches) :
             /\ batches'[c].next = batches[c].next
             /\ batches'[c].entries = batches[c].entries
    BY <1>5, StepsChange
  <2>2. \A c \in 1 .. Len(batches') :
           /\ batches'[c].next \in 1 .. Len(batches'[c].entries)
           /\ \A n \in 1 .. Len(batches'[c].entries) : batches'[c].entries[n] \in 1 .. Len(speech')
    BY <1>0, <1>2, <2>1
  <2>3. semaphore' \in 0 .. Len(batches')
    BY <1>0, <1>5, <2>1
  <2>. QED BY <1>1, <2>1, <2>2, <2>3 DEF BatchesOK
<1>6. ASSUME NEW b, TurnsToNext(b), semaphore' = 0 PROVE BatchesOK'
  <2>1. /\ batches' \in Seq(Batches) /\ Len(batches') = Len(batches)
        /\ \A c \in 1 .. Len(batches) :
             /\ batches'[c].next \in 1 .. Len(batches'[c].entries)
             /\ batches'[c].entries = batches[c].entries
    BY <1>6, NextChanges
  <2>2. \A c \in 1 .. Len(batches') :
           /\ batches'[c].next \in 1 .. Len(batches'[c].entries)
           /\ \A n \in 1 .. Len(batches'[c].entries) : batches'[c].entries[n] \in 1 .. Len(speech')
    BY <1>0, <1>2, <2>1
  <2>3. semaphore' \in 0 .. Len(batches')
    BY <1>0, <1>6, <2>1
  <2>. QED BY <1>1, <2>1, <2>2, <2>3 DEF BatchesOK
<1>. QED BY <1>3, <1>4, <1>5, <1>6, BatchesChange

-----------------------------------------------------------------------------
(* The requests of the prewarms, and the tasks that wait for them.            *)

(* A request asks once, and goes on to its end.                              *)
GoesOn(r) ==
    /\ pc'[r] # "new" => pc[r] # "new" /\ Key(r)' = Key(r)
    /\ UnderWay(r)' => UnderWay(r)

LEMMA AskerAlone ==
    ASSUME FlightInv, NEW r \in Requests, NEW k, NEW consumer, StreamFor(r, k, consumer)
    PROVE  /\ \A q \in Requests \ {r} : GoesOn(q)
           /\ Key(r)' = k /\ pc[r] = "new"
           /\ pc'[r] \in {"done", "starting", "waiting"}
<1>1. /\ pc[r] = "new" /\ ask' = [ask EXCEPT ![r] = [key |-> k, consumer |-> consumer]]
      /\ \E l \in {"done", "starting", "waiting"} : pc' = [pc EXCEPT ![r] = l]
  BY DEF StreamFor, Join, Goto
<1>. QED BY <1>1 DEF FlightInv, FlightType, GoesOn, UnderWay, Key

LEMMA AnswerAlone ==
    ASSUME FlightInv, NEW r \in Requests, UnderWay(r), UNCHANGED ask,
           NEW l \in {"done", "failed"}, pc' = [pc EXCEPT ![r] = l]
    PROVE  (\A q \in Requests : GoesOn(q)) /\ ~UnderWay(r)'
BY DEF FlightInv, FlightType, GoesOn, UnderWay, Key, Generating

LEMMA MoverAlone ==
    ASSUME FlightInv, NEW r \in Requests,
           ProviderStarts(r) \/ BodyBegins(r) \/ Finalise(r) \/ GoneMidBody(r)
           \/ GoneBeforeBody(r)
    PROVE  \A q \in Requests : GoesOn(q)
<1>1. /\ pc[r] \in Generating /\ UNCHANGED ask
      /\ \E l \in Generating \cup Answered : pc' = [pc EXCEPT ![r] = l]
  BY DEF ProviderStarts, BodyBegins, Finalise, GoneMidBody, GoneBeforeBody, Goto,
     Generating, Answered
<1>. QED BY <1>1 DEF FlightInv, FlightType, GoesOn, UnderWay, Key, Generating

(* Which requests are made, and for what.                                    *)
LEMMA WhoAsks ==
    ASSUME StreamOK, [StreamNext]_allVars, NEW q \in Requests, ~GoesOn(q)
    PROVE  \/ q.by = "http"
           \/ q = Request("round", hook.try) /\ NarrationPrewarm
           \/ q = Request("plan", 1) /\ PlanPrewarm
           \/ \E b \in 1 .. Len(batches), by \in {"own", "default"}, voice \in Voices :
                /\ q = Request(by, Entry(b)) /\ SpeechPrewarm(b, by, voice)
                /\ Key(q)' = <<speech[Entry(b)].text, voice>>
<1>. USE DEF StreamOK
<1>1. ASSUME UNCHANGED vars PROVE FALSE
  BY <1>1 DEF GoesOn, UnderWay, Key, vars
<1>2. CASE \/ \E s \in Sockets : Connect(s) \/ Closes(s) \/ Disconnect(s)
           \/ \E t \in Tasks, s \in Sockets : Send(t, s)
           \/ RoundStarts \/ PhaseStarts \/ PhaseCompletes \/ SpeechPrewarmScheduled
           \/ RoundEnds \/ RoundFails
           \/ \E b \in 1 .. Len(batches) : Release(b)
           \/ UNCHANGED allVars
  <2>1. UNCHANGED vars
    BY <1>2 DEF Connect, Closes, Disconnect, Send, RoundStarts, PhaseStarts,
       PhaseCompletes, SpeechPrewarmScheduled, RoundEnds, RoundFails, Release, noTTS,
       allVars
  <2>. QED BY <1>1, <2>1
<1>3. CASE NarrationPrewarm
  <2>1. StreamFor(Request("round", hook.try), NarrationKey, "prewarm")
    BY <1>1, <1>3 DEF NarrationPrewarm, noTTS
  <2>2. Request("round", hook.try) \in Requests
    BY <1>3, AskersAre DEF NarrationPrewarm
  <2>. QED BY <1>3, <2>1, <2>2, AskerAlone
<1>4. CASE PlanPrepared
  BY <1>4 DEF PlanPrepared, GetStatus, GoesOn, UnderWay, Key
<1>5. CASE PlanPrewarm
  BY <1>5, AskersAre, AskerAlone DEF PlanPrewarm
<1>6. ASSUME NEW b \in 1 .. Len(batches), Acquire(b) \/ Fallback(b)
      PROVE  \E by \in {"own", "default"}, voice \in Voices :
               /\ q = Request(by, Entry(b)) /\ SpeechPrewarm(b, by, voice)
               /\ Key(q)' = <<speech[Entry(b)].text, voice>>
  <2>1. \E by \in {"own", "default"}, voice \in Voices : SpeechPrewarm(b, by, voice)
    <3>1. OwnVoice(Entry(b)) \in Voices /\ DefaultVoice \in Voices
      BY EntryIs, TextIs DEF Voices
    <3>. QED BY <1>6, <3>1 DEF Acquire, Fallback
  <2>2. PICK by \in {"own", "default"}, voice \in Voices : SpeechPrewarm(b, by, voice)
    BY <2>1
  <2>3. Request(by, Entry(b)) \in Requests
    BY AskersAre
  <2>4. StreamFor(Request(by, Entry(b)), <<speech[Entry(b)].text, voice>>, "prewarm")
    BY <2>2 DEF SpeechPrewarm
  <2>. QED BY <2>2, <2>3, <2>4, AskerAlone
<1>7. ASSUME NEW r \in Requests, Listen(r) PROVE q.by = "http"
  BY <1>7, AskerAlone DEF Listen
<1>8. ASSUME NEW r \in Requests, Streaming(r) \/ Gone(r) PROVE FALSE
  BY <1>8, MoverAlone DEF Streaming, Gone
<1>9. ASSUME NEW r \in Requests, Ended(r) \/ Failed(r) PROVE FALSE
  BY <1>9, AnswerIs, AnswerAlone
<1>10. ASSUME NEW k \in Ageing, Passes(k) PROVE FALSE
  BY <1>10 DEF Passes, Expire, GoesOn, UnderWay, Key
<1>. QED BY <1>2, <1>3, <1>4, <1>5, <1>6, <1>7, <1>8, <1>9, <1>10 DEF StreamNext

LEMMA PrewarmKeysKept ==
    ASSUME StreamOK, [StreamNext]_allVars
    PROVE  PrewarmKeys'
<1>. SUFFICES ASSUME NEW r \in Prewarms, pc'[r] # "new"
              PROVE  /\ r.no \in 1 .. Len(speech')
                     /\ \E voice \in Voices : Key(r)' = <<speech'[r.no].text, voice>>
  BY DEF PrewarmKeys, Prewarms
<1>1. LogGrows
  BY SpeechKept
<1>2. CASE GoesOn(r)
  <2>1. /\ r.no \in 1 .. Len(speech) /\ Key(r)' = Key(r)
        /\ \E voice \in Voices : Key(r) = <<speech[r.no].text, voice>>
    BY <1>2 DEF GoesOn, StreamOK, PrewarmsOK, PrewarmKeys
  <2>. QED BY <1>1, <2>1 DEF LogGrows
<1>3. CASE ~GoesOn(r)
  <2>1. PICK b \in 1 .. Len(batches), by \in {"own", "default"}, voice \in Voices :
          /\ r = Request(by, Entry(b))
          /\ Key(r)' = <<speech[Entry(b)].text, voice>>
    BY <1>3, WhoAsks DEF Prewarms, Request
  <2>2. Entry(b) \in 1 .. Len(speech) /\ r.no = Entry(b)
    BY <2>1, EntryIs DEF Request
  <2>. QED BY <1>1, <2>1, <2>2 DEF LogGrows
<1>. QED BY <1>2, <1>3

(* A task that waits for its request goes on when it is answered.            *)
LEMMA TaskWaits ==
    ASSUME StreamOK, [StreamNext]_allVars, NEW c \in 1 .. Len(batches),
           batches[c].step \in {"own", "default"}
    PROVE  \/ /\ c \in 1 .. Len(batches')
              /\ batches'[c].step = batches[c].step /\ Entry(c)' = Entry(c)
           \/ \E r \in Prewarms :
                /\ Ended(r) \/ Failed(r)
                /\ r.by = batches[c].step /\ r.no = Entry(c)
<1>. USE DEF StreamOK
<1>. DEFINE Stays == /\ c \in 1 .. Len(batches')
                     /\ batches'[c].step = batches[c].step /\ Entry(c)' = Entry(c)
<1>0. Len(batches) \in Nat
  BY LenProperties DEF BatchesOK
<1>1. CASE UNCHANGED batches
  BY <1>1 DEF Entry
<1>2. ASSUME NEW b, NEW step, Steps(b, step), b # c PROVE Stays
  BY <1>2, StepsChange
<1>3. CASE SpeechPrewarmScheduled /\ batches' # batches
  <2>1. Schedules
    BY <1>3 DEF SpeechPrewarmScheduled, Schedules
  <2>2. Len(batches') = Len(batches) + 1 /\ batches'[c] = batches[c]
    BY <1>3, <2>1, ScheduleAdds
  <2>3. c \in 1 .. Len(batches) + 1
    BY <1>0
  <2>. QED BY <2>2, <2>3 DEF Entry
<1>4. ASSUME NEW b \in 1 .. Len(batches), Release(b) PROVE Stays
  <2>1. TurnsToNext(b) /\ b # c
    BY <1>4 DEF Release, TurnsToNext
  <2>2. Len(batches') = Len(batches) /\ batches'[c] = batches[c]
    BY <2>1, NextChanges
  <2>. QED BY <2>2 DEF Entry
<1>5. ASSUME NEW b \in 1 .. Len(batches), Acquire(b) \/ Fallback(b) PROVE Stays
  <2>1. \E by \in {"own", "default"} : \E voice : SpeechPrewarm(b, by, voice)
    BY <1>5 DEF Acquire, Fallback
  <2>2. b # c
    BY <1>5 DEF Acquire, Fallback
  <2>. QED BY <1>2, <2>1, <2>2, PrewarmMoves
<1>6. ASSUME NEW r \in Requests, Ended(r) \/ Failed(r)
      PROVE  \/ UNCHANGED batches \/ Stays
             \/ r \in Prewarms /\ r.by = batches[c].step /\ r.no = Entry(c)
  <2>1. PICK status \in {"ready", "error"} : Caller(r, status)
    BY <1>6, AnswerIs
  <2>2. CASE r \notin Prewarms
    BY <2>1, <2>2 DEF Caller, HookResumed, PlanResumed
  <2>3. CASE r \in Prewarms
    <3>1. PICK b \in 1 .. Len(batches), voice \in Voices :
            /\ batches[b].step = r.by /\ Entry(b) = r.no
            /\ BatchResumed(b, r, voice, status)
      BY <2>1, <2>3 DEF Caller, Prewarms
    <3>2. CASE b = c
      BY <2>3, <3>1, <3>2
    <3>3. CASE b # c
      BY <1>2, <3>1, <3>3, BatchMoves
    <3>. QED BY <3>2, <3>3
  <2>. QED BY <2>2, <2>3
<1>7. ASSUME \/ \E s \in Sockets : Connect(s) \/ Closes(s) \/ Disconnect(s)
             \/ \E t \in Tasks, s \in Sockets : Send(t, s)
             \/ RoundStarts \/ NarrationPrewarm \/ PhaseStarts \/ PhaseCompletes
             \/ RoundEnds \/ RoundFails
             \/ PlanPrepared \/ PlanPrewarm
             \/ \E r \in Requests : Listen(r) \/ Streaming(r) \/ Gone(r)
             \/ \E k \in Ageing : Passes(k)
             \/ UNCHANGED allVars
      PROVE  UNCHANGED batches
  BY <1>7 DEF Connect, Closes, Disconnect, Send, RoundStarts, NarrationPrewarm,
     HookResumed, PhaseStarts, PhaseCompletes, RoundEnds, RoundFails,
     PlanPrepared, PlanPrewarm, PlanResumed, Listen, Streaming, Gone, Passes,
     streamVars, allVars
<1>. QED BY <1>1, <1>3, <1>4, <1>5, <1>6, <1>7 DEF StreamNext

LEMMA PrewarmTasksKept ==
    ASSUME StreamOK, [StreamNext]_allVars
    PROVE  PrewarmTasks'
<1>. SUFFICES ASSUME NEW r \in Prewarms, UnderWay(r)'
              PROVE  \E b \in 1 .. Len(batches') : batches'[b].step = r.by /\ Entry(b)' = r.no
  BY DEF PrewarmTasks, Prewarms
<1>. USE DEF StreamOK
<1>1. r \in Requests /\ r.by \in {"own", "default"}
  BY DEF Prewarms
<1>2. CASE GoesOn(r)
  <2>1. UnderWay(r)
    BY <1>2 DEF GoesOn
  <2>2. PICK c \in 1 .. Len(batches) : batches[c].step = r.by /\ Entry(c) = r.no
    BY <2>1 DEF PrewarmsOK, PrewarmTasks
  <2>3. ASSUME NEW q \in Prewarms, Ended(q) \/ Failed(q), q.by = r.by, q.no = r.no
        PROVE  FALSE
    <3>1. q \in Requests
      BY DEF Prewarms
    <3>2. q = r
      BY <1>1, <2>3, <3>1, StreamAssumption
    <3>. QED BY <1>1, <2>3, <3>1, <3>2, AnswerIs, AnswerAlone
  <2>. QED BY <1>1, <2>2, <2>3, TaskWaits
<1>3. CASE ~GoesOn(r)
  <2>1. PICK b \in 1 .. Len(batches), by \in {"own", "default"}, voice \in Voices :
          r = Request(by, Entry(b)) /\ SpeechPrewarm(b, by, voice)
    BY <1>1, <1>3, WhoAsks DEF Request
  <2>2. pc'[r] # "done"
    BY DEF UnderWay, Generating
  <2>3. Steps(b, by)
    BY <2>1, <2>2 DEF SpeechPrewarm, BatchStep, Steps, BatchSteps
  <2>4. Len(batches') = Len(batches) /\ batches'[b].step = by /\ Entry(b)' = Entry(b)
    BY <2>3, StepsChange
  <2>. QED BY <2>1, <2>4 DEF Request
<1>. QED BY <1>2, <1>3

LEMMA NarrationTasksKept ==
    ASSUME StreamOK, [StreamNext]_allVars
    PROVE  NarrationTasks'
<1>. USE DEF StreamOK
<1>. SUFFICES ASSUME NEW r \in Requests, UnderWay(r)'
              PROVE  /\ r.by = "round" => hook'.at = "prewarm" /\ hook'.try = r.no
                     /\ r.by = "plan" => plan' = "prewarm" /\ r.no = 1
  BY DEF NarrationTasks
<1>1. CASE ~GoesOn(r)
  <2>1. ASSUME r.by = "round" PROVE hook'.at = "prewarm" /\ hook'.try = r.no
    <3>1. r = Request("round", hook.try) /\ NarrationPrewarm
      BY <1>1, <2>1, WhoAsks DEF Request
    <3>2. pc'[r] # "done" /\ (UNCHANGED vars => pc' = pc)
      BY DEF UnderWay, Generating, vars
    <3>3. ~UNCHANGED vars
      BY <1>1 DEF GoesOn, UnderWay, Key, vars
    <3>4. hook' = [hook EXCEPT !.at = "prewarm"]
      BY <3>1, <3>2, <3>3 DEF NarrationPrewarm, HookAt, noTTS
    <3>. QED BY <3>1, <3>4 DEF RoundOK, Request
  <2>2. ASSUME r.by = "plan" PROVE plan' = "prewarm" /\ r.no = 1
    <3>1. r = Request("plan", 1) /\ PlanPrewarm
      BY <1>1, <2>2, WhoAsks DEF Request
    <3>2. pc'[r] # "done"
      BY DEF UnderWay, Generating
    <3>. QED BY <3>1, <3>2 DEF PlanPrewarm, Request
  <2>. QED BY <2>1, <2>2
<1>2. CASE GoesOn(r)
  <2>1. /\ UnderWay(r)
        /\ r.by = "round" => hook.at = "prewarm" /\ hook.try = r.no
        /\ r.by = "plan" => plan = "prewarm" /\ r.no = 1
    BY <1>2 DEF GoesOn, PrewarmsOK, NarrationTasks
  <2>2. ASSUME hook.at = "prewarm"
        PROVE  UNCHANGED hook \/ \E q \in Requests :
                 q.by = "round" /\ q.no = hook.try /\ (Ended(q) \/ Failed(q))
    <3>1. CASE \E q \in Requests : Ended(q) \/ Failed(q)
      BY <3>1, AnswerIs DEF Caller, PlanResumed, BatchResumed
    <3>2. CASE ~ \E q \in Requests : Ended(q) \/ Failed(q)
      BY <2>2, <3>2 DEF StreamNext, Connect, Closes, Disconnect, Send, RoundStarts, PhaseStarts,
         NarrationPrewarm, PhaseCompletes, SpeechPrewarmScheduled, RoundEnds, RoundFails,
         PlanPrepared, PlanPrewarm, PlanResumed, Acquire, Fallback, SpeechPrewarm,
         BatchResumed, Release, Listen, Streaming, Gone, Passes, streamVars, allVars
    <3>. QED BY <3>1, <3>2
  <2>3. ASSUME plan = "prewarm"
        PROVE  UNCHANGED plan \/ \E q \in Requests :
                 q.by = "plan" /\ (Ended(q) \/ Failed(q))
    <3>1. CASE \E q \in Requests : Ended(q) \/ Failed(q)
      BY <3>1, AnswerIs DEF Caller, HookResumed, BatchResumed
    <3>2. CASE ~ \E q \in Requests : Ended(q) \/ Failed(q)
      BY <2>3, <3>2 DEF StreamNext, Connect, Closes, Disconnect, Send, RoundStarts, PhaseStarts,
         NarrationPrewarm, HookResumed, PhaseCompletes, SpeechPrewarmScheduled, RoundEnds, RoundFails,
         PlanPrepared, PlanPrewarm, Acquire, Fallback, SpeechPrewarm,
         BatchResumed, Release, Listen, Streaming, Gone, Passes, streamVars, allVars
    <3>. QED BY <3>1, <3>2
  <2>4. ASSUME NEW q \in Requests, Ended(q) \/ Failed(q), q.by = r.by, q.no = r.no
        PROVE  FALSE
    <3>1. q = r
      BY <2>4, StreamAssumption
    <3>. QED BY <2>4, <3>1, AnswerIs, AnswerAlone
  <2>5. ASSUME NEW q \in Requests, Ended(q) \/ Failed(q), q.by = "plan"
        PROVE  q.no = 1
    BY <2>5, AnswerIs DEF PrewarmsOK, NarrationTasks
  <2>. QED BY <2>1, <2>2, <2>3, <2>4, <2>5
<1>. QED BY <1>1, <1>2

-----------------------------------------------------------------------------
LEMMA StreamStarts == StreamInit => StreamOK
<1>. SUFFICES ASSUME StreamInit PROVE StreamOK
  OBVIOUS
<1>1. CacheOK /\ FlightInv
  BY CacheInit, FlightInit DEF StreamInit
<1>2. PICK round \in Rounds :
        /\ script = round.script
        /\ hook = [try |-> Attempts - round.attempts, at |-> "idle", phase |-> 0]
        /\ sockets = [s \in Sockets |-> IF s \in round.browsers THEN "new" ELSE "closed"]
        /\ plan = IF round.approved THEN "idle" ELSE "done"
  BY DEF StreamInit
<1>3. RoundOK
  <2>1. script \in Seq(Seq(Utterances)) /\ Len(script) \in Nat
    BY <1>2, StreamAssumption, LenProperties
  <2>2. Attempts - round.attempts \in 0 .. Attempts /\ 0 \in 0 .. Len(script)
    BY <2>1, StreamAssumption
  <2>. QED BY <1>2, <2>1, <2>2 DEF RoundOK, HookPcs
<1>4. SendingOK
  <2>1. <<>> \in Seq(Messages)
    BY EmptySeq
  <2>. QED BY <1>2, <2>1 DEF StreamInit, SendingOK
<1>5. ScreensOK
  <2>1. narration \in [Sockets -> Endings \cup {"none"}]
    BY DEF StreamInit
  <2>2. [i \in 1 .. MaxSpeech |-> "none"] \in [1 .. MaxSpeech -> Endings \cup {"none", "spoken"}]
    OBVIOUS
  <2>3. audio \in [Sockets -> [1 .. MaxSpeech -> Endings \cup {"none", "spoken"}]]
    BY <2>2 DEF StreamInit
  <2>. QED BY <2>1, <2>3 DEF ScreensOK
<1>6. speech = <<>> /\ batches = <<>> /\ semaphore = 0 /\ hook.at = "idle"
  BY <1>2 DEF StreamInit
<1>7. SpeechOK
  BY <1>6, EmptySeq, StreamAssumption DEF SpeechOK
<1>8. BatchesOK
  BY <1>6, EmptySeq DEF BatchesOK
<1>9. PrewarmsOK
  BY DEF StreamInit, Init, PrewarmsOK, PrewarmKeys, PrewarmTasks, NarrationTasks,
     Prewarms, UnderWay, Generating
<1>. QED BY <1>1, <1>3, <1>4, <1>5, <1>7, <1>8, <1>9 DEF StreamOK

LEMMA StreamKept ==
    ASSUME StreamOK, [StreamNext]_allVars
    PROVE  StreamOK' /\ Recent
BY StreamServed, RoundKept, SendingKept, ScreensKept, SpeechKept, BatchesKept,
   PrewarmKeysKept, PrewarmTasksKept, NarrationTasksKept DEF Served, StreamOK, PrewarmsOK

LEMMA StreamInv == StreamSpec => []StreamOK
<1>1. StreamOK /\ [StreamNext]_allVars => StreamOK'
  BY StreamKept
<1>. QED BY <1>1, StreamStarts, PTL DEF StreamSpec

(* Every variable of the round's streaming keeps its type, and what each part *)
(* says of the others agrees: a task with something to send has sockets left  *)
(* to send it to, and only sockets that opened are connected.                *)
THEOREM StreamTypeCorrect == StreamSpec => []StreamTypeOK
<1>1. ASSUME StreamOK PROVE StreamTypeOK
  <2>. USE <1>1 DEF StreamOK
  <2>1. TypeOK
    BY DEF CacheOK, FlightInv, FlightType, TypeOK
  <2>2. \A s \in Sockets, i \in 1 .. MaxSpeech : AudioRank(audio[s][i]) \in 0 .. 3
    <3>1. \A status : AudioRank(status) \in 0 .. 3
      BY DEF AudioRank
    <3>. QED BY <3>1
  <2>3. narration \in [Sockets -> {"none", "pending", "ready", "error", "unavailable"}]
    BY DEF ScreensOK, Endings
  <2>. QED BY <2>1, <2>2, <2>3 DEF StreamTypeOK, RoundOK, SendingOK, SpeechOK, BatchesOK
<1>. QED BY <1>1, StreamInv, PTL

(* The prewarms of a round, the audio its routes are asked for and clients    *)
(* that leave share one provider stream per key, and nobody waits for a       *)
(* generation that has ended (service.py:196-224, 272-285, audio.py:322-474). *)
THEOREM StreamSharesGenerations == StreamSpec => [](SingleFlight /\ InflightHasOwner)
<1>1. StreamOK => SingleFlight /\ InflightHasOwner
  BY OneOwner DEF StreamOK, FlightInv
<1>. QED BY <1>1, StreamInv, PTL

(* What a round has generated is cached, and a live entry leaves as the least *)
(* recently used one, whichever task put the last one in                      *)
(* (service.py:255-270).                                                     *)
THEOREM StreamEvictsOldest == StreamSpec => CacheKeepsRecent
<1>1. StreamOK /\ [StreamNext]_allVars
        => [/\ \A r \in Requests :
                 result[r] = "none" /\ result'[r] = "audio" =>
                     \E i \in 1 .. Len(cache') : cache'[i] = Key(r)
            /\ \A k \in Keys \ expired :
                 Cached(k) /\ ~(\E i \in 1 .. Len(cache') : cache'[i] = k) =>
                     k = cache[1]]_vars
  BY StreamKept DEF Recent, Holds
<1>. QED BY <1>1, StreamInv, PTL DEF StreamSpec, CacheKeepsRecent

-----------------------------------------------------------------------------
(* The index of an utterance counts those of its agent before it.            *)
Before(i) == {j \in 1 .. i - 1 : speech[j].agent = speech[i].agent}
IndexOK == \A i \in 1 .. Len(speech) : speech[i].index = Cardinality(Before(i))

Shifted(m, B) == {m + j : j \in B}

LEMMA ShiftCount ==
    ASSUME NEW m \in Nat, NEW n \in Nat, NEW B \in SUBSET (1 .. n)
    PROVE  /\ IsFiniteSet(Shifted(m, B))
           /\ Cardinality(Shifted(m, B)) = Cardinality(B)
<1>. DEFINE C == {m + j : j \in B}
            shift == [j \in B |-> m + j]
<1>1. IsFiniteSet(B)
  BY CountIsNat
<1>2. shift \in [B -> C]
  OBVIOUS
<1>3. \A i, j \in B : shift[i] = shift[j] => i = j
  OBVIOUS
<1>4. \A x \in C : \E j \in B : shift[j] = x
  OBVIOUS
<1>5. shift \in Bijection(B, C)
  BY <1>2, <1>3, <1>4 DEF Bijection, Injection, Surjection, IsInjective
<1>6. ExistsBijection(B, C)
  BY <1>5 DEF ExistsBijection
<1>. HIDE DEF C, shift
<1>7. IsFiniteSet(C) /\ Cardinality(C) = Cardinality(B)
  BY <1>1, <1>6, FS_Bijection
<1>. QED BY <1>7 DEF C, Shifted

(* What comes before an utterance of a phase: what the log held of its agent, *)
(* and what comes before it in the phase.                                    *)
LEMMA CountsAdd ==
    ASSUME NEW m \in Nat, NEW n \in Nat, NEW A \in SUBSET (1 .. m), NEW B \in SUBSET (1 .. n)
    PROVE  Cardinality(A \cup Shifted(m, B)) = Cardinality(A) + Cardinality(B)
<1>. DEFINE C == Shifted(m, B)
<1>1. /\ IsFiniteSet(C) /\ Cardinality(C) = Cardinality(B)
      /\ IsFiniteSet(A) /\ Cardinality(A) \in Nat /\ Cardinality(B) \in Nat
  BY ShiftCount, CountIsNat
<1>2. A \cap C = {}
  BY DEF Shifted
<1>. HIDE DEF C
<1>3. Cardinality(A \cup C) = Cardinality(A) + Cardinality(C) - Cardinality(A \cap C)
  BY <1>1, FS_Union
<1>4. Cardinality(A \cap C) = 0
  BY <1>2, FS_EmptySet
<1>5. Cardinality(A \cup C) = Cardinality(A) + Cardinality(B)
  BY <1>1, <1>3, <1>4
<1>. QED BY <1>5 DEF C

LEMMA LoggedAt ==
    ASSUME NEW lines, NEW n \in 1 .. Len(lines)
    PROVE  /\ Logged(lines)[n].agent = lines[n].agent
           /\ Logged(lines)[n].index = IndexFor(lines, n)
           /\ Logged(lines)[n].voice = None
BY DEF Logged

LEMMA IndexKept ==
    ASSUME StreamOK, IndexOK, [StreamNext]_allVars
    PROVE  IndexOK'
<1>. USE DEF StreamOK
<1>0. Len(speech) \in Nat
  BY LenProperties DEF SpeechOK
<1>1. ASSUME LogGrows, NEW i \in 1 .. Len(speech)
      PROVE  speech'[i].index = Cardinality(Before(i)')
  <2>1. Before(i)' = Before(i)
    BY <1>0, <1>1 DEF Before, LogGrows
  <2>. QED BY <1>1, <2>1 DEF IndexOK, LogGrows
<1>2. ASSUME NEW lines, Speaks(lines) PROVE IndexOK'
  <2>. PICK first \in Nat : first = Len(speech)
    BY <1>0
  <2>1. /\ LogGrows /\ Len(speech') = first + Len(lines)
        /\ \A i \in 1 .. first : speech'[i] = speech[i]
        /\ \A n \in 1 .. Len(lines) : speech'[first + n] = Logged(lines)[n]
    BY <1>2, SpeaksGrows
  <2>2. Len(lines) \in Nat
    BY <1>2, LenProperties DEF Speaks
  <2>3. ASSUME NEW n \in 1 .. Len(lines)
        PROVE  speech'[first + n].index = Cardinality(Before(first + n)')
    <3>. DEFINE A == {j \in 1 .. first : speech[j].agent = lines[n].agent}
                B == {j \in 1 .. n - 1 : lines[j].agent = lines[n].agent}
    <3>1. \A j \in 1 .. Len(lines) : speech'[first + j].agent = lines[j].agent
      BY <2>1, LoggedAt
    <3>2. speech'[first + n].index = Cardinality(A) + Cardinality(B)
      <4>1. speech'[first + n].index = IndexFor(lines, n)
        BY <2>1, LoggedAt
      <4>. QED BY <4>1 DEF IndexFor
    <3>3. Before(first + n)' = A \cup Shifted(first, B)
      <4>1. Before(first + n)'
              = {j \in 1 .. first + n - 1 : speech'[j].agent = lines[n].agent}
        BY <3>1 DEF Before
      <4>2. ASSUME NEW j \in 1 .. first + n - 1
            PROVE  speech'[j].agent = lines[n].agent
                     <=> j \in A \/ \E h \in B : j = first + h
        <5>1. CASE j \in 1 .. first
          BY <2>1, <2>2, <5>1
        <5>2. CASE j \notin 1 .. first
          <6>1. /\ j - first \in 1 .. n - 1 /\ j - first \in 1 .. Len(lines)
                /\ j = first + (j - first)
            BY <2>2, <5>2
          <6>2. \A h \in B : j = first + h => h = j - first
            BY <6>1
          <6>. QED BY <3>1, <5>2, <6>1, <6>2
        <5>. QED BY <5>1, <5>2
      <4>3. \A j : j \in A \/ (\E h \in B : j = first + h) => j \in 1 .. first + n - 1
        BY <2>2
      <4>. HIDE DEF A, B
      <4>. QED BY <4>1, <4>2, <4>3 DEF Shifted
    <3>4. A \in SUBSET (1 .. first) /\ B \in SUBSET (1 .. n - 1) /\ n - 1 \in Nat
      BY <2>2
    <3>. HIDE DEF A, B
    <3>5. Cardinality(A \cup Shifted(first, B)) = Cardinality(A) + Cardinality(B)
      BY <3>4, CountsAdd
    <3>. QED BY ONLY <3>2, <3>3, <3>5
  <2>4. ASSUME NEW i \in 1 .. first + Len(lines)
        PROVE  i \in 1 .. first \/ \E n \in 1 .. Len(lines) : i = first + n
    <3>1. CASE i > first
      <4>1. i - first \in 1 .. Len(lines) /\ i = first + (i - first)
        BY <2>2, <3>1
      <4>. QED BY <4>1
    <3>. QED BY <3>1
  <2>5. \A i \in 1 .. first + Len(lines) : speech'[i].index = Cardinality(Before(i)')
    BY <1>1, <2>1, <2>3, <2>4
  <2>. QED BY <2>1, <2>5 DEF IndexOK
<1>3. ASSUME NEW i, NEW voice, GetsVoice(i, voice) PROVE IndexOK'
  <2>1. LogGrows /\ Len(speech') = Len(speech)
    BY <1>3, VoiceGrows
  <2>. QED BY <1>1, <2>1 DEF IndexOK
<1>4. CASE UNCHANGED speech
  BY <1>4 DEF IndexOK, Before
<1>. QED BY <1>2, <1>3, <1>4, SpeechChanges

(* The agent, round and index of the speech routes name one utterance, however *)
(* many attempts of the round failed and left theirs in the log               *)
(* (streaming.py:237-242).                                                   *)
THEOREM OneUtterancePerIndex == StreamSpec => []IndexNamesUtterance
<1>1. ASSUME StreamOK, IndexOK PROVE IndexNamesUtterance
  <2>1. Len(speech) \in Nat
    BY <1>1, LenProperties DEF StreamOK, SpeechOK
  <2>2. ASSUME NEW i \in 1 .. Len(speech), NEW j \in 1 .. Len(speech), i < j,
               speech[i].agent = speech[j].agent, speech[i].index = speech[j].index
        PROVE  FALSE
    <3>1. Before(i) \in SUBSET Before(j) /\ i \in Before(j) /\ i \notin Before(i)
      BY <2>1, <2>2 DEF Before
    <3>2. IsFiniteSet(Before(j))
      <4>1. Before(j) \in SUBSET (1 .. Len(speech))
        BY <2>1 DEF Before
      <4>. QED BY <2>1, <4>1, CountIsNat
    <3>3. Cardinality(Before(i)) = Cardinality(Before(j))
      BY <1>1, <2>2 DEF IndexOK
    <3>. QED BY <3>1, <3>2, <3>3, FS_Subset
  <2>. QED BY <2>1, <2>2 DEF IndexNamesUtterance
<1>2. StreamInit => IndexOK
  BY DEF StreamInit, IndexOK
<1>3. StreamOK /\ IndexOK /\ [StreamNext]_allVars => IndexOK'
  BY IndexKept
<1>. QED BY <1>1, <1>2, <1>3, StreamInv, PTL DEF StreamSpec

-----------------------------------------------------------------------------
(* What was spoken, and what is said of it.                                  *)
Spoken(k) == \E r \in Requests : Key(r) = k /\ result[r] = "audio"
Truthful(m) == m.type = "agent_speech_audio" /\ m.status = "ready" => Voiced(m.entry)

CacheSpoken == \A k \in Keys : Cached(k) => Spoken(k)
VoicesSpoken == \A i \in 1 .. Len(speech) : speech[i].voice # None => Spoken(KeyOf(i))
MessagesTrue == \A t \in Tasks : \A n \in 1 .. Len(out[t]) : Truthful(out[t][n])
ScreensTrue == \A s \in Sockets, i \in 1 .. MaxSpeech : audio[s][i] = "ready" => Voiced(i)
HeardOK == CacheSpoken /\ VoicesSpoken /\ MessagesTrue /\ ScreensTrue

(* What a step of the cache and its requests makes of it.                    *)
StaysSpoken == \A k \in Keys : Spoken(k) \/ (Cached(k)' /\ ~Cached(k)) => Spoken(k)'

LEMMA SpokenAsk ==
    ASSUME CacheOK, FlightInv, NEW r \in Requests, NEW k \in Keys, NEW consumer,
           StreamFor(r, k, consumer)
    PROVE  StaysSpoken
<1>1. \A q \in Requests : result[q] = "audio" => q # r
  BY DEF StreamFor, FlightInv, Asking
<1>2. UNCHANGED result /\ \A q \in Requests \ {r} : Key(q)' = Key(q)
  BY DEF StreamFor, FlightInv, FlightType, Key
<1>3. \A x : Cached(x)' => Cached(x)
  BY LookupKeeps DEF StreamFor
<1>. QED BY <1>1, <1>2, <1>3 DEF StaysSpoken, Spoken

LEMMA SpokenRest ==
    ASSUME UNCHANGED <<ask, result>>, \A k \in Keys : Cached(k)' => Cached(k)
    PROVE  StaysSpoken
BY DEF StaysSpoken, Spoken, Key

LEMMA SpokenEnd ==
    ASSUME CacheOK, FlightInv, NEW r \in Requests, Finishes(r)
    PROVE  StaysSpoken /\ (StreamEnds(r) => result'[r] = "audio")
<1>1. inflight[Key(r)] = r /\ r # None /\ Key(r) \in Keys /\ result[r] = "none"
      /\ UNCHANGED ask
  BY OwnEntry, NarrationAssumption
<1>2. \A q \in Requests : result[q] = "audio" => result'[q] = "audio"
  BY <1>1 DEF Finishes, StreamEnds, StreamFails, Finalise, Finish, FlightInv, FlightType
<1>3. StreamEnds(r) => result'[r] = "audio"
  BY <1>1 DEF StreamEnds, Finish, FlightInv, FlightType
<1>4. ASSUME NEW k \in Keys, Cached(k)', ~Cached(k) PROVE k = Key(r) /\ StreamEnds(r)
  <2>1. StreamEnds(r)
    BY <1>4 DEF Finishes, StreamFails, Finalise, Cached
  <2>2. Holds(Stored(Key(r)), k)
    BY <1>4, <2>1 DEF StreamEnds, Cached, Holds
  <2>. QED BY <1>1, <1>4, <2>1, <2>2, StoredKeeps
<1>. QED BY <1>1, <1>2, <1>3, <1>4 DEF StaysSpoken, Spoken, Key

LEMMA StreamSpoken ==
    ASSUME StreamOK, [StreamNext]_allVars
    PROVE  StaysSpoken
<1>. USE DEF StreamOK
<1>1. ASSUME \/ \E s \in Sockets : Connect(s) \/ Closes(s) \/ Disconnect(s)
             \/ \E t \in Tasks, s \in Sockets : Send(t, s)
             \/ RoundStarts \/ PhaseStarts \/ PhaseCompletes \/ SpeechPrewarmScheduled
             \/ RoundEnds \/ RoundFails
             \/ \E b \in 1 .. Len(batches) : Release(b)
             \/ UNCHANGED allVars
      PROVE  UNCHANGED vars
  BY <1>1 DEF Connect, Closes, Disconnect, Send, RoundStarts, PhaseStarts,
     PhaseCompletes, SpeechPrewarmScheduled, RoundEnds, RoundFails, Release, noTTS,
     allVars
<1>2. ASSUME UNCHANGED vars PROVE StaysSpoken
  BY <1>2, SpokenRest DEF vars, Cached
<1>3. CASE NarrationPrewarm
  <2>1. CASE StreamFor(Request("round", hook.try), NarrationKey, "prewarm")
    BY <1>3, <2>1, AskersAre, SpokenAsk, StreamAssumption DEF NarrationPrewarm
  <2>. QED BY <1>2, <1>3, <2>1 DEF NarrationPrewarm, noTTS
<1>4. CASE PlanPrepared
  <2>1. Lookup(NarrationKey) /\ UNCHANGED <<ask, result>>
    BY <1>4 DEF PlanPrepared, GetStatus
  <2>. QED BY <2>1, LookupKeeps, SpokenRest, StreamAssumption
<1>5. CASE PlanPrewarm
  BY <1>5, AskersAre, SpokenAsk, StreamAssumption DEF PlanPrewarm
<1>6. ASSUME NEW b \in 1 .. Len(batches), Acquire(b) \/ Fallback(b) PROVE StaysSpoken
  <2>1. OwnVoice(Entry(b)) \in Voices /\ DefaultVoice \in Voices
    BY EntryIs, TextIs DEF Voices
  <2>2. PICK by \in {"own", "default"}, voice \in Voices : SpeechPrewarm(b, by, voice)
    BY <1>6, <2>1 DEF Acquire, Fallback
  <2>3. <<speech[Entry(b)].text, voice>> \in Keys /\ Request(by, Entry(b)) \in Requests
    BY EntryIs, TextIs, AskersAre
  <2>. QED BY <2>2, <2>3, SpokenAsk DEF SpeechPrewarm
<1>7. ASSUME NEW r \in Requests, Listen(r) PROVE StaysSpoken
  <2>1. PICK k \in {NarrationKey} \cup {KeyOf(i) : i \in 1 .. Len(speech)} :
          StreamFor(r, k, "http")
    BY <1>7 DEF Listen
  <2>2. k \in Keys
    BY <2>1, TextIs, StreamAssumption
  <2>. QED BY <2>1, <2>2, SpokenAsk
<1>8. ASSUME NEW r \in Requests,
             ProviderStarts(r) \/ BodyBegins(r) \/ GoneMidBody(r) \/ GoneBeforeBody(r)
             \/ (WakeUp(r) /\ UNCHANGED <<cache, expired>>)
      PROVE  StaysSpoken
  <2>1. UNCHANGED <<cache, ask, result>>
    BY <1>8 DEF ProviderStarts, BodyBegins, GoneMidBody, GoneBeforeBody, WakeUp
  <2>. QED BY <2>1, SpokenRest DEF Cached
<1>9. ASSUME NEW r \in Requests, StreamEnds(r) \/ StreamFails(r) \/ Finalise(r)
      PROVE  StaysSpoken
  BY <1>9, SpokenEnd DEF Finishes
<1>10. ASSUME NEW r \in Requests, WakeUp(r), Lookup(Key(r)) PROVE StaysSpoken
  <2>1. Key(r) \in Keys /\ UNCHANGED <<ask, result>>
    BY <1>10 DEF WakeUp, Signalled, FlightInv, Asking
  <2>. QED BY <1>10, <2>1, LookupKeeps, SpokenRest
<1>11. ASSUME NEW r \in Requests, Ended(r) \/ Failed(r) \/ Streaming(r) \/ Gone(r)
       PROVE  StaysSpoken
  BY <1>8, <1>9, <1>10, <1>11 DEF Ended, Failed, Streaming, Gone
<1>12. ASSUME NEW k \in Ageing, Passes(k) PROVE StaysSpoken
  BY <1>12, SpokenRest DEF Passes, Expire, Cached
<1>. QED BY <1>1, <1>2, <1>3, <1>4, <1>5, <1>6, <1>7, <1>11, <1>12 DEF StreamNext

(* An utterance gets the voice its audio was generated in.                   *)
VoicedIn(i, voice) ==
    GetsVoice(i, voice) /\ \E k \in Keys : k = <<speech[i].text, voice>> /\ Spoken(k)'

LEMMA ReadyVoices ==
    ASSUME StreamOK, NEW r, NEW b, NEW voice \in Voices, NEW status,
           r.no \in 1 .. Len(speech), BatchResumed(b, r, voice, status),
           NEW k \in Keys, k = <<speech[r.no].text, voice>>, status = "ready" => Spoken(k)'
    PROVE  UNCHANGED speech \/ VoicedIn(r.no, voice)
BY VoicesCome DEF BatchResumed, VoicedIn

LEMMA VoicesAreSpoken ==
    ASSUME StreamOK, CacheSpoken, [StreamNext]_allVars
    PROVE  \/ UNCHANGED speech
           \/ PhaseCompletes /\ \E lines : Speaks(lines)
           \/ \E i, voice : VoicedIn(i, voice)
<1>. USE DEF StreamOK
<1>0. StaysSpoken
  BY StreamSpoken
<1>1. ASSUME \/ \E s \in Sockets : Connect(s) \/ Closes(s) \/ Disconnect(s)
             \/ \E t \in Tasks, s \in Sockets : Send(t, s)
             \/ RoundStarts \/ NarrationPrewarm \/ PhaseStarts
             \/ SpeechPrewarmScheduled \/ RoundEnds \/ RoundFails
             \/ PlanPrepared \/ PlanPrewarm
             \/ \E b \in 1 .. Len(batches) : Release(b)
             \/ \E r \in Requests : Listen(r) \/ Streaming(r) \/ Gone(r)
             \/ \E k \in Ageing : Passes(k)
             \/ UNCHANGED allVars
      PROVE  UNCHANGED speech
  BY <1>1 DEF Connect, Closes, Disconnect, Send, RoundStarts, NarrationPrewarm,
     HookResumed, PhaseStarts, SpeechPrewarmScheduled, RoundEnds, RoundFails,
     PlanPrepared, PlanPrewarm, PlanResumed, Release, Listen, Streaming, Gone, Passes,
     streamVars, allVars
<1>2. CASE PhaseCompletes
  BY <1>2, PhaseSpeaks
<1>3. ASSUME NEW b \in 1 .. Len(batches), Acquire(b) \/ Fallback(b)
      PROVE  UNCHANGED speech \/ \E i, v : VoicedIn(i, v)
  <2>1. OwnVoice(Entry(b)) \in Voices /\ DefaultVoice \in Voices
    BY EntryIs, TextIs DEF Voices
  <2>2. PICK by \in {"own", "default"}, voice \in Voices : SpeechPrewarm(b, by, voice)
    BY <1>3, <2>1 DEF Acquire, Fallback
  <2>3. PICK r \in Requests : r = Request(by, Entry(b))
    BY AskersAre
  <2>4. r.no \in 1 .. Len(speech) /\ r.no = Entry(b)
    BY <2>3, EntryIs DEF Request
  <2>5. PICK k \in Keys : k = <<speech[r.no].text, voice>>
    BY <2>4, TextIs
  <2>6. CASE UNCHANGED speech
    BY <2>6
  <2>7. CASE BatchResumed(b, r, voice, "ready") /\ pc'[r] = "done"
    <3>1. StreamFor(r, k, "prewarm")
      BY <2>2, <2>3, <2>4, <2>5 DEF SpeechPrewarm
    <3>2. Cached(k)
      BY <2>7, <3>1 DEF StreamFor, Join, Goto, FlightInv, FlightType
    <3>3. Spoken(k)'
      BY <1>0, <3>2 DEF CacheSpoken, StaysSpoken
    <3>. QED BY <2>4, <2>5, <2>7, <3>3, ReadyVoices
  <2>. QED BY <2>2, <2>3, <2>6, <2>7 DEF SpeechPrewarm
<1>4. ASSUME NEW r \in Requests, Ended(r) \/ Failed(r)
      PROVE  UNCHANGED speech \/ \E i, v : VoicedIn(i, v)
  <2>1. PICK l \in {"done", "failed"} :
          pc' = [pc EXCEPT ![r] = l] /\ Caller(r, IF l = "done" THEN "ready" ELSE "error")
    BY <1>4, AnswerIs
  <2>2. pc'[r] = l
    BY <2>1 DEF FlightInv, FlightType
  <2>3. CASE r \notin Prewarms
    BY <2>1, <2>3 DEF Caller, HookResumed, PlanResumed
  <2>4. CASE r \in Prewarms
    <3>. DEFINE status == IF l = "done" THEN "ready" ELSE "error"
    <3>1. PICK b \in 1 .. Len(batches), voice \in Voices :
            /\ Entry(b) = r.no /\ Key(r) = <<speech[r.no].text, voice>>
            /\ BatchResumed(b, r, voice, status)
      BY <2>1, <2>4 DEF Caller, Prewarms
    <3>2. r.no \in 1 .. Len(speech)
      BY <3>1, EntryIs
    <3>3. PICK k \in Keys : k = <<speech[r.no].text, voice>>
      BY <3>2, TextIs
    <3>4. ASSUME l = "done" PROVE Spoken(k)'
      <4>1. CASE StreamEnds(r)
        <5>1. result'[r] = "audio" /\ Key(r)' = Key(r)
          BY <4>1, SpokenEnd DEF Finishes, StreamEnds, Key
        <5>. QED BY <3>1, <3>3, <5>1 DEF Spoken
      <4>2. CASE WakeUp(r)
        <5>1. result[awaits[r]] = "audio"
          BY <2>2, <3>4, <4>2 DEF WakeUp, Goto, FlightInv, FlightType
        <5>2. awaits[r] \in Requests /\ Key(awaits[r]) = k
          BY <3>1, <3>3, <4>2 DEF WakeUp, Signalled, FlightInv, Asking
        <5>3. Spoken(k)
          BY <5>1, <5>2 DEF Spoken
        <5>. QED BY <1>0, <5>3 DEF StaysSpoken
      <4>3. ~Failed(r)
        BY <2>2, <3>4 DEF Failed, StreamFails, Goto, FlightInv, FlightType
      <4>. QED BY <1>4, <4>1, <4>2, <4>3 DEF Ended
    <3>5. status = "ready" => l = "done"
      OBVIOUS
    <3>. HIDE DEF status
    <3>. QED BY <3>1, <3>2, <3>3, <3>4, <3>5, ReadyVoices
  <2>. QED BY <2>3, <2>4
<1>. QED BY <1>1, <1>2, <1>3, <1>4 DEF StreamNext

(* A voice that is recorded stays, or is replaced by one that spoke too.      *)
LEMMA VoicesKept ==
    ASSUME StreamOK, CacheSpoken, VoicesSpoken, [StreamNext]_allVars
    PROVE  VoicesSpoken' /\ \A i : Voiced(i) => Voiced(i)'
<1>. USE DEF StreamOK
<1>0. StaysSpoken /\ Len(speech) \in Nat /\ LogGrows
  BY StreamSpoken, SpeechKept, LenProperties DEF SpeechOK
<1>1. ASSUME NEW i \in 1 .. Len(speech), speech'[i] = speech[i]
      PROVE  /\ speech'[i].voice # None => Spoken(KeyOf(i))'
             /\ Voiced(i) => Voiced(i)'
  <2>1. ASSUME speech[i].voice # None PROVE Spoken(KeyOf(i))'
    <3>1. PICK k \in Keys : k = KeyOf(i)
      BY TextIs
    <3>2. KeyOf(i)' = k
      BY <1>1, <2>1, <3>1 DEF KeyOf
    <3>3. Spoken(k)
      BY <2>1, <3>1 DEF VoicesSpoken
    <3>. QED BY <1>0, <3>2, <3>3 DEF StaysSpoken, Spoken
  <2>. QED BY <1>0, <1>1, <2>1 DEF Voiced, LogGrows
<1>2. CASE UNCHANGED speech
  BY <1>1, <1>2 DEF VoicesSpoken, Voiced
<1>3. ASSUME NEW lines, Speaks(lines)
      PROVE  VoicesSpoken' /\ \A i : Voiced(i) => Voiced(i)'
  <2>. PICK first \in Nat : first = Len(speech)
    BY <1>0
  <2>1. /\ Len(speech') = first + Len(lines) /\ Len(lines) \in Nat
        /\ \A i \in 1 .. first : speech'[i] = speech[i]
        /\ \A n \in 1 .. Len(lines) : speech'[first + n] = Logged(lines)[n]
    BY <1>3, SpeaksGrows, LenProperties DEF Speaks
  <2>2. ASSUME NEW i \in 1 .. first + Len(lines), i \notin 1 .. first
        PROVE  speech'[i].voice = None
    <3>1. i - first \in 1 .. Len(lines) /\ i = first + (i - first)
      BY <2>1, <2>2
    <3>2. PICK n \in 1 .. Len(lines) : i = first + n
      BY <3>1
    <3>3. speech'[i] = Logged(lines)[n]
      BY <2>1, <3>2
    <3>. QED BY <3>3, LoggedAt
  <2>3. VoicesSpoken'
    BY <1>1, <2>1, <2>2 DEF VoicesSpoken
  <2>. QED BY <1>1, <2>1, <2>3 DEF Voiced
<1>4. ASSUME NEW i, NEW voice, VoicedIn(i, voice)
      PROVE  VoicesSpoken' /\ \A j : Voiced(j) => Voiced(j)'
  <2>1. /\ Len(speech') = Len(speech) /\ speech'[i].voice = voice /\ voice # None
        /\ i \in 1 .. Len(speech)
        /\ \A j \in 1 .. Len(speech) : j # i => speech'[j] = speech[j]
    BY <1>4, VoiceGrows, StreamAssumption DEF VoicedIn, GetsVoice
  <2>2. PICK k \in Keys : k = <<speech[i].text, voice>> /\ Spoken(k)'
    BY <1>4 DEF VoicedIn
  <2>3. KeyOf(i)' = k
    BY <1>0, <2>1, <2>2 DEF KeyOf, LogGrows
  <2>4. Spoken(KeyOf(i))'
    BY <2>2, <2>3 DEF Spoken
  <2>5. VoicesSpoken'
    BY <1>1, <2>1, <2>4 DEF VoicesSpoken
  <2>6. \A j : Voiced(j) => Voiced(j)'
    BY <1>1, <2>1 DEF Voiced
  <2>. QED BY <2>5, <2>6
<1>. QED BY <1>2, <1>3, <1>4, VoicesAreSpoken

StaysTrue(m) ==
    m.type = "agent_speech_audio" /\ m.status = "ready" =>
        m.entry \in 1 .. Len(speech') /\ speech'[m.entry].voice # None
NextAreTrue == \A t \in Tasks : \A n \in 1 .. Len(out'[t]) : StaysTrue(out'[t][n])

LEMMA SentIsTrue ==
    ASSUME StreamOK, MessagesTrue, \A i : Voiced(i) => Voiced(i)', [StreamNext]_allVars
    PROVE  MessagesTrue'
<1>. USE DEF StreamOK
<1>. SUFFICES NextAreTrue
  BY DEF NextAreTrue, StaysTrue, MessagesTrue, Truthful, Voiced
<1>1. ASSUME NEW m, Truthful(m) PROVE StaysTrue(m)
  BY <1>1 DEF Truthful, StaysTrue, Voiced
<1>2. ASSUME NEW t \in Tasks, out'[t] = out[t] PROVE \A n \in 1 .. Len(out'[t]) : StaysTrue(out'[t][n])
  BY <1>1, <1>2 DEF MessagesTrue
<1>3. ASSUME NEW t \in Tasks, out'[t] = <<>>
      PROVE  \A n \in 1 .. Len(out'[t]) : StaysTrue(out'[t][n])
  BY <1>3
<1>4. CASE \E s \in Sockets : Connect(s) \/ Closes(s) \/ Disconnect(s)
  BY <1>2, <1>4 DEF Connect, Closes, Disconnect, NextAreTrue
<1>5. ASSUME NEW t \in Tasks, NEW s \in Sockets, Send(t, s) PROVE NextAreTrue
  <2>1. out[t] \in Seq(Messages) /\ out[t] # <<>>
    BY <1>5 DEF Send, SendingOK
  <2>2. \A u \in Tasks : u # t => out'[u] = out[u]
    BY <1>5 DEF Send, SendingOK
  <2>3. out'[t] = out[t] \/ out'[t] = <<>> \/ out'[t] = Tail(out[t])
    BY <1>5 DEF Send, SendingOK
  <2>4. ASSUME out'[t] = Tail(out[t])
        PROVE  \A n \in 1 .. Len(out'[t]) : StaysTrue(out'[t][n])
    <3>1. /\ Len(out'[t]) = Len(out[t]) - 1 /\ Len(out[t]) \in Nat
          /\ \A n \in 1 .. Len(out[t]) - 1 : out'[t][n] = out[t][n + 1]
      BY <2>1, <2>4, HeadTailProperties, LenProperties
    <3>2. \A n \in 1 .. Len(out[t]) - 1 : n + 1 \in 1 .. Len(out[t])
      BY <3>1
    <3>. QED BY <1>1, <3>1, <3>2 DEF MessagesTrue
  <2>5. \A n \in 1 .. Len(out'[t]) : StaysTrue(out'[t][n])
    BY <1>2, <1>3, <2>3, <2>4
  <2>. QED BY <1>2, <2>2, <2>5 DEF NextAreTrue
<1>6. ASSUME NEW t, NEW messages, Broadcasts(t, messages),
             \A n \in 1 .. Len(messages) : StaysTrue(messages[n])
      PROVE  NextAreTrue
  <2>1. ASSUME NEW u \in Tasks PROVE \A n \in 1 .. Len(out'[u]) : StaysTrue(out'[u][n])
    <3>1. out'[u] = out[u] \/ out'[u] = <<>> \/ out'[u] = messages
      BY <1>6 DEF Broadcasts, SendingOK
    <3>. QED BY <1>2, <1>3, <1>6, <3>1
  <2>. QED BY <2>1 DEF NextAreTrue
<1>7. CASE SendsSome
  <2>1. CASE UNCHANGED <<out, left>>
    BY <1>2, <2>1 DEF NextAreTrue
  <2>2. ASSUME NEW t, NEW messages \in Seq(Plain), Broadcasts(t, messages) PROVE NextAreTrue
    <3>1. \A m \in Plain : ~(m.type = "agent_speech_audio" /\ m.status = "ready")
      BY DEF Plain, Bulletins
    <3>2. \A n \in 1 .. Len(messages) : StaysTrue(messages[n])
      BY <3>1, ElementOfSeq DEF StaysTrue, Voiced
    <3>. QED BY <1>6, <2>2, <3>2
  <2>3. ASSUME NEW t, NEW i \in 1 .. MaxSpeech, Voiced(i)',
               Broadcasts(t, <<AudioStatus(i, "ready")>>)
        PROVE  NextAreTrue
    <3>1. StaysTrue(AudioStatus(i, "ready"))
      BY <2>3 DEF StaysTrue, Voiced, AudioStatus, Message
    <3>. QED BY <1>6, <2>3, <3>1
  <2>. QED BY <1>7, <2>1, <2>2, <2>3 DEF SendsSome
<1>. QED BY <1>4, <1>5, <1>7, StreamSends

LEMMA ShownIsTrue ==
    ASSUME StreamOK, MessagesTrue, ScreensTrue, \A i : Voiced(i) => Voiced(i)',
           [StreamNext]_allVars
    PROVE  ScreensTrue'
<1>. USE DEF StreamOK
<1>1. CASE UNCHANGED <<narration, audio>>
  BY <1>1 DEF ScreensTrue
<1>2. ASSUME NEW t \in Tasks, NEW s \in Sockets, out[t] # <<>>, Received(s, Head(out[t]))
      PROVE  ScreensTrue'
  <2>. PICK m : m = Head(out[t])
    OBVIOUS
  <2>1. m \in Messages /\ Truthful(m)
    <3>1. /\ out[t] \in Seq(Messages) /\ Len(out[t]) \in Nat /\ Len(out[t]) # 0
          /\ m = out[t][1] /\ m \in Messages
      BY <1>2, HeadTailProperties, LenProperties, EmptySeq DEF SendingOK
    <3>2. 1 \in 1 .. Len(out[t])
      BY <3>1
    <3>. QED BY <3>1, <3>2 DEF MessagesTrue
  <2>2. audio' = audio \/ \E i \in 1 .. MaxSpeech :
          \/ audio' = [audio EXCEPT ![s][i] = "spoken"]
          \/ /\ audio' = [audio EXCEPT ![s][i] = m.status]
             /\ m.type = "agent_speech_audio" /\ m.entry = i
    BY <1>2, <2>1 DEF Received, Messages, Plain, Bulletins
  <2>3. ASSUME NEW i \in 1 .. MaxSpeech, NEW status,
               audio' = [audio EXCEPT ![s][i] = status], status = "ready" => Voiced(i)
        PROVE  ScreensTrue'
    <3>1. audio[s] \in [1 .. MaxSpeech -> Endings \cup {"none", "spoken"}]
      BY DEF ScreensOK
    <3>2. \A u \in Sockets, j \in 1 .. MaxSpeech :
            audio'[u][j] = IF u = s /\ j = i THEN status ELSE audio[u][j]
      BY <2>3, <3>1 DEF ScreensOK
    <3>. QED BY <2>3, <3>2 DEF ScreensTrue
  <2>4. CASE audio' = audio
    BY <2>4 DEF ScreensTrue
  <2>5. m.type = "agent_speech_audio" /\ m.status = "ready" => Voiced(m.entry)
    BY <2>1 DEF Truthful
  <2>. QED BY <2>2, <2>3, <2>4, <2>5
<1>. QED BY <1>1, <1>2, ScreensChange

(* An utterance a browser shows as ready was spoken in the voice a request for *)
(* it will ask for: by its own prewarm, by the one that fell back, or by      *)
(* whoever had asked for it before (audio.py:332, 374).                      *)
THEOREM ReadyMeansSpoken == StreamSpec => []ReadyWasSpoken
<1>1. StreamOK /\ HeardOK => ReadyWasSpoken
  <2>. SUFFICES ASSUME StreamOK, HeardOK, NEW s \in Sockets, NEW i \in 1 .. Len(speech),
                       audio[s][i] = "ready"
                PROVE  Spoken(KeyOf(i))
    BY DEF ReadyWasSpoken, Spoken
  <2>1. i \in 1 .. MaxSpeech
    <3>1. Len(speech) \in Nat /\ Len(speech) <= MaxSpeech /\ MaxSpeech \in Nat
      BY StreamAssumption, LenProperties DEF StreamOK, SpeechOK
    <3>. QED BY <3>1
  <2>2. Voiced(i)
    BY <2>1 DEF HeardOK, ScreensTrue
  <2>. QED BY <2>2 DEF HeardOK, VoicesSpoken, Voiced
<1>2. StreamInit => HeardOK
  BY DEF StreamInit, Init, HeardOK, CacheSpoken, VoicesSpoken, MessagesTrue, ScreensTrue,
     Cached
<1>3. StreamOK /\ HeardOK /\ [StreamNext]_allVars => HeardOK'
  <2>. SUFFICES ASSUME StreamOK, HeardOK, [StreamNext]_allVars PROVE HeardOK'
    OBVIOUS
  <2>. USE DEF HeardOK
  <2>1. CacheSpoken'
    BY StreamSpoken DEF CacheSpoken, StaysSpoken
  <2>. QED BY <2>1, VoicesKept, SentIsTrue, ShownIsTrue
<1>. QED BY <1>1, <1>2, <1>3, StreamInv, PTL DEF StreamSpec
=============================================================================
