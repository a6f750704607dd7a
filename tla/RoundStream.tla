---------------------------- MODULE RoundStream ----------------------------
(***************************************************************************)
(* What a playing round sends to the browsers, and the audio it has made   *)
(* meanwhile: StreamingHook (api/services/streaming.py), the narration and *)
(* speech prewarm tasks (api/services/audio.py) and ConnectionManager      *)
(* (api/ws_manager.py), over the cache of NarrationTTS.  One experiment,   *)
(* one round; a failed attempt is played again.                            *)
(*                                                                         *)
(* A task awaits each send of each of its broadcasts, and each prewarm;    *)
(* other tasks, sockets and HTTP requests run at those points.  A prewarm  *)
(* that ends resumes its caller with no suspension: one step.              *)
(***************************************************************************)
EXTENDS NarrationTTS, FiniteSets

CONSTANTS
    Sockets,       (* browsers that open the experiment's websocket           *)
    Rounds,        (* the rounds that may be played: the utterances of each   *)
                   (* phase, whether its plan is approved meanwhile, whether  *)
                   (* its audio is asked for, the browsers that watch, and    *)
                   (* how often it is started                                 *)
    MaxPhases,     (* bound: phases of a round                                *)
    VoiceOf,       (* CHARACTER_VOICE_IDS: the voice of each agent            *)
    DefaultVoice,  (* elevenlabs_voice_id                                     *)
    NarrationKey,  (* the cache key of the round's narration                  *)
    Ageing,        (* bound: the keys whose audio may get too old             *)
    Attempts,      (* bound: how often any of them is started                 *)
    MaxSpeech      (* bound: utterances of all the attempts                   *)

Voices == {VoiceOf[agent] : agent \in DOMAIN VoiceOf} \cup {DefaultVoice}

(* A key is that of a text in a voice; a text that is spoken has one for each. *)
Texts == {text \in {k[1] : k \in Keys} : {text} \X Voices \subseteq Keys}
Utterances == [agent : DOMAIN VoiceOf, text : Texts]

(* A request says who makes it: the hook ("round"), the task of a new plan    *)
(* ("plan"), the prewarm of an utterance in its own or the default voice      *)
(* ("own", "default"), or a GET route ("http").                              *)
ASSUME StreamAssumption ==
    /\ Requests \subseteq [by : {"round", "plan", "own", "default", "http"}, no : Nat]
    /\ [by : {"round"}, no : 1 .. Attempts] \subseteq Requests
    /\ [by : {"plan"}, no : {1}] \subseteq Requests
    /\ [by : {"own", "default"}, no : 1 .. MaxSpeech] \subseteq Requests
    /\ NarrationKey \in Keys
    /\ None \notin Voices
    /\ Ageing \subseteq Keys
    /\ \A round \in Rounds :
         /\ round.script \in Seq(Seq(Utterances)) /\ Len(round.script) <= MaxPhases
         /\ round.attempts \in 0 .. Attempts
    /\ Attempts \in Nat
    /\ MaxPhases \in Nat
    /\ MaxSpeech \in Nat

VARIABLES
    script,       (* the utterances of each phase of this round              *)
    asked,        (* its audio is asked for meanwhile                        *)
    configured,   (* an ElevenLabs key is set                                 *)
    sockets,      (* each browser's socket                                    *)
    connections,  (* ConnectionManager.connections[experiment_id]             *)
    out,          (* the messages a task still has to broadcast               *)
    left,         (* the sockets its current broadcast has yet to send to     *)
    hook,         (* the attempt of the round, and where it is                *)
    plan,         (* where prepare_narration_audio is                         *)
    batches,      (* the speech prewarm tasks, one per phase that spoke       *)
    semaphore,    (* the batch that holds it, 0 when it is free               *)
    speech,       (* agent_speech_log of this round                           *)
    narration,    (* the narration audio status a browser was last given      *)
    audio         (* what it was last told of each utterance                  *)

streamVars == <<script, asked, configured, sockets, connections, out, left, hook, plan, batches,
                semaphore, speech, narration, audio>>
allVars == <<vars, streamVars>>
noTTS == UNCHANGED vars

HookTask == <<"hook", 0>>
PlanTask == <<"plan", 0>>
BatchTask(b) == <<"speech", b>>
Tasks == {HookTask, PlanTask} \cup {BatchTask(b) : b \in 1 .. Attempts * MaxPhases}

Message(type, entry, status) == [type |-> type, entry |-> entry, status |-> status]
Told(type) == Message(type, 0, "")
AudioStatus(i, status) == Message("agent_speech_audio", i, status)

StreamInit ==
    /\ Init
    /\ configured \in BOOLEAN
    /\ connections = {}
    /\ out = [t \in Tasks |-> <<>>]
    /\ left = [t \in Tasks |-> {}]
    /\ \E round \in Rounds :
         /\ script = round.script
         /\ hook = [try |-> Attempts - round.attempts, at |-> "idle", phase |-> 0]
         /\ asked = round.asked
         /\ sockets = [s \in Sockets |-> IF s \in round.browsers THEN "new" ELSE "closed"]
         /\ plan = IF round.approved THEN "idle" ELSE "done"
    /\ batches = <<>>
    /\ semaphore = 0
    /\ speech = <<>>
    /\ narration = [s \in Sockets |-> "none"]
    /\ audio = [s \in Sockets |-> [i \in 1 .. MaxSpeech |-> "none"]]

-----------------------------------------------------------------------------
(* ConnectionManager.  A broadcast with no connection returns at once; a     *)
(* socket that closed is found out by the send.                              *)
Idle(t) == out[t] = <<>>

(* Mutant: the task waits although there is nobody to send to.               *)
BroadcastsBlindly(t, messages) ==
    /\ out' = [out EXCEPT ![t] = messages]
    /\ left' = [left EXCEPT ![t] = connections]
Broadcasts(t, messages) ==
    /\ out' = [out EXCEPT ![t] = IF connections = {} THEN <<>> ELSE messages]
    /\ left' = [left EXCEPT ![t] = IF messages = <<>> THEN {} ELSE connections]

(* What a browser makes of a message: a plan brings its narration and status, *)
(* a narration status before any plan is ignored (stores/gm.ts).             *)
Received(s, m) ==
    /\ narration' = IF \/ m.type = "gm_plan"
                       \/ m.type = "gm_audio_status" /\ narration[s] # "none"
                    THEN [narration EXCEPT ![s] = m.status] ELSE narration
    /\ audio' = CASE m.type = "agent_speak" -> [audio EXCEPT ![s][m.entry] = "spoken"]
                  [] m.type = "agent_speech_audio" -> [audio EXCEPT ![s][m.entry] = m.status]
                  [] OTHER -> audio

(* One send of the loop of broadcast(); after the last one the task goes on   *)
(* to its next message, for those connected by then.                         *)
Send(t, s) ==
    LET dead == sockets[s] # "open"
        remaining == connections \ (IF dead THEN {s} ELSE {})
    IN
    /\ s \in left[t]
    /\ IF dead THEN UNCHANGED <<narration, audio>> ELSE Received(s, Head(out[t]))
    /\ connections' = remaining
    /\ IF left[t] # {s}
       THEN left' = [left EXCEPT ![t] = @ \ {s}] /\ UNCHANGED out
       ELSE LET more == IF remaining = {} THEN <<>> ELSE Tail(out[t]) IN
            /\ out' = [out EXCEPT ![t] = more]
            /\ left' = [left EXCEPT ![t] = IF more = <<>> THEN {} ELSE remaining]
    /\ noTTS /\ UNCHANGED <<script, asked, configured, sockets, hook, plan, batches, semaphore, speech>>

Connect(s) ==
    /\ sockets[s] = "new"
    /\ sockets' = [sockets EXCEPT ![s] = "open"]
    /\ connections' = connections \cup {s}
    /\ noTTS /\ UNCHANGED <<script, asked, configured, out, left, hook, plan, batches, semaphore, speech,
                            narration, audio>>

(* The browser closes; the endpoint learns of it in receive_text, or a send   *)
(* does before.                                                              *)
Closes(s) ==
    /\ sockets[s] = "open"
    /\ sockets' = [sockets EXCEPT ![s] = "closed"]
    /\ noTTS /\ UNCHANGED <<script, asked, configured, connections, out, left, hook, plan, batches,
                            semaphore, speech, narration, audio>>

Disconnect(s) ==
    /\ sockets[s] = "closed" /\ s \in connections
    /\ connections' = connections \ {s}
    /\ noTTS /\ UNCHANGED <<script, asked, configured, sockets, out, left, hook, plan, batches, semaphore,
                            speech, narration, audio>>

-----------------------------------------------------------------------------
Request(by, no) == [by |-> by, no |-> no]
HookAt(at) == hook' = [hook EXCEPT !.at = at]

(* on_round_start, once it has the narration's audio snapshot.               *)
Announcement(status) ==
    <<Told("round_start"), Message("gm_plan", 0, status)>>
    \o (IF configured THEN <<Message("gm_audio_status", 0, status)>> ELSE <<>>)
    \o <<Told("crisis_event")>>

(* Mutant: a failed preparation is only logged.                              *)
PlanStatusOrSilence(status) ==
    IF status = "error" THEN <<>> ELSE <<Message("gm_audio_status", 0, status)>>
PlanStatus(status) == <<Message("gm_audio_status", 0, status)>>

(* An utterance is kept under the voice that spoke it; a request for it uses  *)
(* that voice, or its agent's while there is none.                           *)
OwnVoice(i) == VoiceOf[speech[i].agent]
KeyOf(i) == <<speech[i].text,
              IF speech[i].voice = None THEN OwnVoice(i) ELSE speech[i].voice>>

(* Mutant: the voice recorded is the agent's, whichever spoke.               *)
SpokenInOwn(i, voice) == [speech EXCEPT ![i].voice = OwnVoice(i)]
SpokenIn(i, voice) == [speech EXCEPT ![i].voice = voice]

Entry(b) == batches[b].entries[batches[b].next]
BatchStep(b, step) == batches' = [batches EXCEPT ![b].step = step]
BatchOf(r) == CHOOSE b \in 1 .. Len(batches) : batches[b].step = r.by /\ Entry(b) = r.no

(* The caller of prewarm goes on: on_round_start, prepare_narration_audio,    *)
(* or _prewarm_one, which tries a failed utterance again in the default voice *)
(* unless that is its own.                                                   *)
HookResumed(status) ==
    /\ Broadcasts(HookTask, Announcement(status))
    /\ HookAt("playing")
    /\ UNCHANGED <<plan, batches, speech>>

PlanResumed(status) ==
    /\ Broadcasts(PlanTask, PlanStatus(status))
    /\ plan' = "done"
    /\ UNCHANGED <<hook, batches, speech>>

BatchResumed(b, r, voice, status) ==
    /\ IF status = "error" /\ r.by = "own" /\ OwnVoice(r.no) # DefaultVoice
       THEN BatchStep(b, "fallback") /\ UNCHANGED <<out, left>>
       ELSE /\ BatchStep(b, status)
            /\ Broadcasts(BatchTask(b), <<AudioStatus(r.no, status)>>)
    /\ speech' = IF status = "ready" THEN SpokenIn(r.no, voice) ELSE speech
    /\ UNCHANGED <<hook, plan>>

Resumed(r, status) ==
    /\ CASE r.by = "round" -> HookResumed(status)
         [] r.by = "plan" -> PlanResumed(status)
         [] r.by \in {"own", "default"} -> BatchResumed(BatchOf(r), r, Key(r)[2], status)
         [] r.by = "http" -> UNCHANGED <<out, left, hook, plan, batches, speech>>
    /\ UNCHANGED <<script, asked, configured, sockets, connections, semaphore, narration, audio>>

-----------------------------------------------------------------------------
(* step(): the next attempt of the round.                                    *)
RoundStarts ==
    /\ hook.at = "idle" /\ Idle(HookTask)
    /\ hook.try < Attempts
    /\ hook' = [try |-> hook.try + 1, at |-> "starting", phase |-> 0]
    /\ noTTS /\ UNCHANGED <<script, asked, configured, sockets, connections, out, left, plan, batches,
                            semaphore, speech, narration, audio>>

(* resolve_narration_audio_snapshot_for_plan(prewarm=True).                  *)
NarrationPrewarm ==
    LET r == Request("round", hook.try) IN
    /\ hook.at = "starting"
    /\ IF ~configured THEN noTTS /\ HookResumed("unavailable")
       ELSE /\ StreamFor(r, NarrationKey, "prewarm")
            /\ IF pc'[r] = "done" THEN HookResumed("ready")
               ELSE HookAt("prewarm") /\ UNCHANGED <<out, left, plan, batches, speech>>
    /\ UNCHANGED <<script, asked, configured, sockets, connections, semaphore, narration, audio>>

PhaseStarts ==
    /\ hook.at = "playing" /\ Idle(HookTask)
    /\ hook.phase < Len(script)
    /\ Broadcasts(HookTask, <<Told("phase_change")>>)
    /\ hook' = [hook EXCEPT !.at = "phase", !.phase = @ + 1]
    /\ noTTS /\ UNCHANGED <<script, asked, configured, sockets, connections, plan, batches, semaphore,
                            speech, narration, audio>>

(* Mutant: an utterance's index counts those of its own phase.               *)
IndexInPhase(lines, n) ==
    Cardinality({j \in 1 .. n - 1 : lines[j].agent = lines[n].agent})

(* Its index counts what the log holds of the agent in this round, failed     *)
(* attempts included.                                                        *)
IndexFor(lines, n) ==
    Cardinality({j \in 1 .. Len(speech) : speech[j].agent = lines[n].agent})
    + Cardinality({j \in 1 .. n - 1 : lines[j].agent = lines[n].agent})

(* on_phase_complete: each utterance is sent and logged, then all are told    *)
(* pending, or unavailable when no voice is configured.                      *)
PhaseCompletes ==
    LET lines == script[hook.phase]
        first == Len(speech)
        positions == [n \in 1 .. Len(lines) |-> first + n]
    IN
    /\ hook.at = "phase" /\ Idle(HookTask)
    /\ Len(speech) + Len(lines) <= MaxSpeech
    /\ speech' = speech \o [n \in 1 .. Len(lines) |->
                               [agent |-> lines[n].agent, text |-> lines[n].text,
                                index |-> IndexFor(lines, n), voice |-> None]]
    /\ Broadcasts(HookTask,
           <<Told("phase_change")>>
           \o [n \in 1 .. Len(lines) |-> Message("agent_speak", positions[n], "")]
           \o [n \in 1 .. Len(lines) |->
                 AudioStatus(positions[n], IF configured THEN "pending" ELSE "unavailable")])
    /\ HookAt("speaking")
    /\ noTTS /\ UNCHANGED <<script, asked, configured, sockets, connections, plan, batches, semaphore,
                            narration, audio>>

(* Mutant: the prewarm does not wait for the statuses to be sent.            *)
StatusesNeedNotBeSent == TRUE
StatusesSent == Idle(HookTask)

SpeechPrewarmScheduled ==
    LET spoken == Len(script[hook.phase]) IN
    /\ hook.at = "speaking" /\ StatusesSent
    /\ batches' = IF configured /\ spoken > 0
                  THEN Append(batches,
                         [entries |-> [n \in 1 .. spoken |-> Len(speech) - spoken + n],
                          next |-> 1, step |-> "wait"])
                  ELSE batches
    /\ HookAt("playing")
    /\ noTTS /\ UNCHANGED <<script, asked, configured, sockets, connections, out, left, plan, semaphore,
                            speech, narration, audio>>

(* The lock is released and broadcast_round_end follows; or a phase raises    *)
(* and the browsers are told.                                                *)
RoundEnds ==
    /\ hook.at = "playing" /\ Idle(HookTask)
    /\ hook.phase = Len(script)
    /\ Broadcasts(HookTask, <<Told("resource_update"), Told("threat_update"),
                              Told("round_end"), Told("experiment_end")>>)
    /\ HookAt("ended")
    /\ noTTS /\ UNCHANGED <<script, asked, configured, sockets, connections, plan, batches, semaphore,
                            speech, narration, audio>>

RoundFails ==
    /\ hook.at \in {"playing", "phase"} /\ Idle(HookTask)
    /\ Broadcasts(HookTask, <<Told("step_error")>>)
    /\ HookAt("idle")
    /\ noTTS /\ UNCHANGED <<script, asked, configured, sockets, connections, plan, batches, semaphore,
                            speech, narration, audio>>

-----------------------------------------------------------------------------
(* prepare_narration_audio, when the round's plan is approved: the status as  *)
(* it is, then the prewarm, then the status again.                           *)
PlanPrepared ==
    /\ plan = "idle" /\ configured
    /\ GetStatus(NarrationKey)
    /\ Broadcasts(PlanTask,
           PlanStatus(IF Cached(NarrationKey) /\ NarrationKey \notin expired
                      THEN "ready" ELSE "pending"))
    /\ plan' = "announced"
    /\ UNCHANGED <<script, asked, configured, sockets, connections, hook, batches, semaphore, speech,
                   narration, audio>>

PlanPrewarm ==
    LET r == Request("plan", 1) IN
    /\ plan = "announced" /\ Idle(PlanTask)
    /\ StreamFor(r, NarrationKey, "prewarm")
    /\ IF pc'[r] = "done" THEN PlanResumed("ready")
       ELSE plan' = "prewarm" /\ UNCHANGED <<out, left, hook, batches, speech>>
    /\ UNCHANGED <<script, asked, configured, sockets, connections, semaphore, narration, audio>>

(* _prewarm_one of the next utterance of a batch, one at a time over all the  *)
(* batches.                                                                  *)
SpeechPrewarm(b, by, voice) ==
    LET r == Request(by, Entry(b)) IN
    /\ StreamFor(r, <<speech[Entry(b)].text, voice>>, "prewarm")
    /\ IF pc'[r] = "done" THEN BatchResumed(b, r, voice, "ready")
       ELSE BatchStep(b, by) /\ UNCHANGED <<out, left, hook, plan, speech>>
    /\ UNCHANGED <<script, asked, configured, sockets, connections, narration, audio>>

Acquire(b) ==
    /\ batches[b].step = "wait" /\ semaphore = 0
    /\ semaphore' = b
    /\ SpeechPrewarm(b, "own", OwnVoice(Entry(b)))

Fallback(b) ==
    /\ batches[b].step = "fallback"
    /\ SpeechPrewarm(b, "default", DefaultVoice)
    /\ UNCHANGED semaphore

(* Mutant: the batch ends with the first utterance that cannot be spoken.     *)
NextUnlessFailed(b) ==
    IF batches[b].step = "error" \/ batches[b].next = Len(batches[b].entries)
    THEN [batches[b] EXCEPT !.step = "done"]
    ELSE [batches[b] EXCEPT !.step = "wait", !.next = @ + 1]
NextEntry(b) ==
    IF batches[b].next = Len(batches[b].entries) THEN [batches[b] EXCEPT !.step = "done"]
    ELSE [batches[b] EXCEPT !.step = "wait", !.next = @ + 1]

Release(b) ==
    /\ batches[b].step \in {"ready", "error"} /\ Idle(BatchTask(b))
    /\ semaphore' = 0
    /\ batches' = [batches EXCEPT ![b] = NextEntry(b)]
    /\ noTTS /\ UNCHANGED <<script, asked, configured, sockets, connections, out, left, hook, plan,
                            speech, narration, audio>>

-----------------------------------------------------------------------------
(* The GET routes stream the round's narration or an utterance of the log.    *)
Listen(r) ==
    /\ r.by = "http" /\ asked /\ configured
    /\ \E k \in {NarrationKey} \cup {KeyOf(i) : i \in 1 .. Len(speech)} :
         StreamFor(r, k, "http")
    /\ UNCHANGED streamVars

(* A waiter runs in the tick after its event is set: the 16 entries of the    *)
(* cache and their 15 minutes outlast that.                                  *)
Awaited(k) == \E r \in Requests : Signalled(r) /\ Key(r) = k
NoneAwaitedLeaves == \A k \in Keys : Awaited(k) /\ Cached(k) =>
                          \E i \in 1 .. Len(cache') : cache'[i] = k

Ended(r) ==
    \/ StreamEnds(r) /\ NoneAwaitedLeaves /\ Resumed(r, "ready")
    \/ /\ WakeUp(r)
       /\ IF r.by \in {"round", "plan"} THEN Lookup(Key(r)) ELSE UNCHANGED <<cache, expired>>
       /\ Resumed(r, IF pc'[r] = "done" THEN "ready" ELSE "error")

Failed(r) == StreamFails(r) /\ Resumed(r, "error")

Streaming(r) == (ProviderStarts(r) \/ BodyBegins(r) \/ Finalise(r)) /\ UNCHANGED streamVars
Gone(r) == (GoneMidBody(r) \/ GoneBeforeBody(r)) /\ UNCHANGED streamVars
Passes(k) == Expire(k) /\ ~Awaited(k) /\ UNCHANGED streamVars

StreamNext ==
    \/ \E s \in Sockets : Connect(s) \/ Closes(s) \/ Disconnect(s)
    \/ \E t \in Tasks, s \in Sockets : Send(t, s)
    \/ RoundStarts \/ NarrationPrewarm \/ PhaseStarts \/ PhaseCompletes
    \/ SpeechPrewarmScheduled \/ RoundEnds \/ RoundFails
    \/ PlanPrepared \/ PlanPrewarm
    \/ \E b \in 1 .. Len(batches) : Acquire(b) \/ Fallback(b) \/ Release(b)
    \/ \E r \in Requests : Listen(r) \/ Streaming(r) \/ Ended(r) \/ Failed(r) \/ Gone(r)
    \/ \E k \in Ageing : Passes(k)

StreamSpec == StreamInit /\ [][StreamNext]_allVars

(* What goes on by itself: sends end, as the sockets' own timeouts see to, a   *)
(* task that may run is run by the loop, and the provider's client has a      *)
(* timeout.  All of it is bounded, so that one weak fairness stands for one   *)
(* per task and request.                                                     *)
Work ==
    \/ \E t \in Tasks, s \in Sockets : Send(t, s)
    \/ SpeechPrewarmScheduled \/ PlanPrewarm
    \/ \E b \in 1 .. Len(batches) : Acquire(b) \/ Fallback(b) \/ Release(b)
    \/ \E r \in Requests : Streaming(r) \/ Ended(r)

StreamFairSpec == StreamSpec /\ WF_allVars(Work)

-----------------------------------------------------------------------------
AudioRank(status) ==
    CASE status = "none" -> 0 [] status = "spoken" -> 1 [] status = "pending" -> 2
      [] OTHER -> 3

(* Type invariant of the round's streaming state.                            *)
StreamTypeOK ==
    /\ TypeOK
    /\ connections \subseteq {s \in Sockets : sockets[s] # "new"}
    /\ \A t \in Tasks : left[t] \subseteq Sockets /\ (out[t] = <<>> <=> left[t] = {})
    /\ hook.try \in 0 .. Attempts /\ hook.phase \in 0 .. Len(script)
    /\ plan \in {"idle", "announced", "prewarm", "done"}
    /\ semaphore \in 0 .. Len(batches)
    /\ Len(speech) <= MaxSpeech
    /\ narration \in [Sockets -> {"none", "pending", "ready", "error", "unavailable"}]
    /\ \A s \in Sockets, i \in 1 .. MaxSpeech : AudioRank(audio[s][i]) \in 0 .. 3

(* The agent, round and index of the speech routes name one utterance, also   *)
(* after an attempt of the round that failed (streaming.py:237-242).         *)
IndexNamesUtterance ==
    \A i, j \in 1 .. Len(speech) :
        speech[i].agent = speech[j].agent /\ speech[i].index = speech[j].index => i = j

(* An utterance a browser was told is ready was spoken in the voice a request *)
(* for it will ask for, so that the request does not pay for it again or meet *)
(* the voice that failed (audio.py:332, 374).                                *)
ReadyWasSpoken ==
    \A s \in Sockets, i \in 1 .. Len(speech) :
        audio[s][i] = "ready" =>
            \E r \in Requests : Key(r) = KeyOf(i) /\ result[r] = "audio"

(* What a browser is told of an utterance only moves forward: spoken, then    *)
(* pending, then how it ended, once, whichever task sends it                 *)
(* (streaming.py:217-265, audio.py:305-420).                                 *)
AudioMovesForward ==
    [][\A s \in Sockets, i \in 1 .. MaxSpeech :
          audio'[s][i] # audio[s][i] => AudioRank(audio[s][i]) < AudioRank(audio'[s][i])]_allVars

(* A browser told that an utterance is pending is told how it ended, if it    *)
(* stays and no client leaves a body unread: a failed voice, a failed attempt *)
(* and another batch's turn at the semaphore do not leave it waiting          *)
(* (audio.py:322-437).                                                       *)
SpeechSettles ==
    []<>(Unread \/ \A s \in Sockets, i \in 1 .. MaxSpeech :
            audio[s][i] = "pending" => sockets[s] = "closed")

(* A browser whose narration was put back to pending by a preparation that    *)
(* overlaps the round is told how it ended, under the same condition          *)
(* (audio.py:439-474).                                                       *)
NarrationSettles ==
    []<>(Unread \/ \A s \in Sockets :
            narration[s] = "pending" => sockets[s] = "closed")
=============================================================================
