---------------------------- MODULE NarrationTTS ----------------------------
(***************************************************************************)
(* The audio cache of backend/app/tts/service.py (NarrationTTSService):    *)
(* the first request for a key becomes the owner of an in-flight entry and *)
(* streams the provider's audio through to its own caller; the others wait *)
(* for that entry's event; the audio is cached when the stream ends.       *)
(*                                                                         *)
(* _cache_lock is never held across a suspension, so each of its critical  *)
(* sections is part of one step.  The owner's stream is a lazy generator:  *)
(* nothing of _proxy_and_cache, its finally clause included, runs before   *)
(* the consumer asks for the first chunk.  An HTTP client may disconnect   *)
(* before that, while the response is starting, or between two chunks.     *)
(***************************************************************************)
EXTENDS Naturals, Sequences

CONSTANTS
    Requests,     (* calls of stream() and prewarm()                         *)
    Keys,         (* cache keys: a digest of text, voice, round and settings *)
    MaxEntries,   (* cache_max_entries                                       *)
    Disconnects,  (* when HTTP clients disconnect, a subset of               *)
                  (* {"before_body", "mid_body"}                             *)
    None          (* no request, no key                                      *)

ASSUME NarrationAssumption ==
    /\ MaxEntries \in Nat \ {0}
    /\ Disconnects \subseteq {"before_body", "mid_body"}
    /\ None \notin Requests
    /\ None \notin Keys

VARIABLES
    cache,      (* _cache: the keys, least recently used first               *)
    expired,    (* cached keys older than cache_ttl_seconds                  *)
    inflight,   (* _inflight: the request that owns the entry of each key    *)
    result,     (* what the in-flight entry a request created ended with     *)
    pc,         (* where each request is                                     *)
    ask,        (* the key it wants, and who consumes its stream             *)
    awaits      (* the owner whose event it waits for                        *)

vars == <<cache, expired, inflight, result, pc, ask, awaits>>

(* An owner goes from starting to streaming and ends done or failed; "opened" *)
(* is a response whose body has not been asked for, "gone" one that never     *)
(* will be, "dropped" a suspended generator nobody holds any more.            *)
Generating == {"starting", "opened", "streaming", "dropped"}
Answered == {"done", "failed", "gone"}

Key(r) == ask[r].key
Cached(k) == \E i \in 1 .. Len(cache) : cache[i] = k

(* _cache.pop(k): the cache is an OrderedDict, which holds a key once.        *)
Without(k) ==
    IF ~Cached(k) THEN cache
    ELSE LET i == CHOOSE i \in 1 .. Len(cache) : cache[i] = k
         IN SubSeq(cache, 1, i - 1) \o SubSeq(cache, i + 1, Len(cache))

Goto(r, l) == pc' = [pc EXCEPT ![r] = l]

Init ==
    /\ cache = <<>>
    /\ expired = {}
    /\ inflight = [k \in Keys |-> None]
    /\ result = [r \in Requests |-> "none"]
    /\ pc = [r \in Requests |-> "new"]
    /\ ask = [r \in Requests |-> [key |-> None, consumer |-> "none"]]
    /\ awaits = [r \in Requests |-> None]

-----------------------------------------------------------------------------
(* _get_cached_no_lock: an expired entry is popped, another moves to the end. *)
Lookup(k) ==
    /\ cache' = IF ~Cached(k) THEN cache
                ELSE IF k \in expired THEN Without(k)
                ELSE Append(Without(k), k)
    /\ expired' = expired \ {k}

(* Mutant: every request that misses becomes an owner.                       *)
JoinAlone(r, k) ==
    /\ inflight' = [inflight EXCEPT ![k] = r]
    /\ Goto(r, "starting")
    /\ UNCHANGED awaits

(* A miss: own the key's entry, or wait for the one in flight.               *)
Join(r, k) ==
    IF inflight[k] = None
    THEN /\ inflight' = [inflight EXCEPT ![k] = r]
         /\ Goto(r, "starting")
         /\ UNCHANGED awaits
    ELSE /\ awaits' = [awaits EXCEPT ![r] = inflight[k]]
         /\ Goto(r, "waiting")
         /\ UNCHANGED inflight

(* stream() up to its first suspension.                                      *)
StreamFor(r, k, consumer) ==
    /\ pc[r] = "new"
    /\ ask' = [ask EXCEPT ![r] = [key |-> k, consumer |-> consumer]]
    /\ Lookup(k)
    /\ IF Cached(k) /\ k \notin expired
       THEN Goto(r, "done") /\ UNCHANGED <<inflight, awaits>>
       ELSE Join(r, k)
    /\ UNCHANGED result

Stream(r) ==
    \E k \in Keys, consumer \in {"http", "prewarm"} : StreamFor(r, k, consumer)

GetStatus(k) == Lookup(k) /\ UNCHANGED <<inflight, result, pc, ask, awaits>>

(* Mutant: the entry stays, and with it the end of the last generation.      *)
FinishKeeping(r, how) ==
    /\ UNCHANGED inflight
    /\ result' = [result EXCEPT ![r] = how]

(* _finish_inflight: whoever finishes pops the entry of its KEY, gives it the *)
(* outcome and sets its event.                                               *)
Finish(r, how) ==
    LET owner == inflight[Key(r)] IN
    IF owner = None THEN UNCHANGED <<inflight, result>>
    ELSE /\ inflight' = [inflight EXCEPT ![Key(r)] = None]
         /\ result' = [result EXCEPT ![owner] = how]

(* provider.start_stream answers.  prewarm() asks for the first chunk at     *)
(* once, the route hands the generator to a StreamingResponse.               *)
ProviderStarts(r) ==
    /\ pc[r] = "starting"
    /\ Goto(r, IF ask[r].consumer = "prewarm" THEN "streaming" ELSE "opened")
    /\ UNCHANGED <<cache, expired, inflight, result, ask, awaits>>

BodyBegins(r) ==
    /\ pc[r] = "opened"
    /\ Goto(r, "streaming")
    /\ UNCHANGED <<cache, expired, inflight, result, ask, awaits>>

(* Mutant: the newest entry is evicted.                                      *)
StoredNewestOut(k) ==
    LET s == Append(Without(k), k) IN
    IF Len(s) > MaxEntries THEN SubSeq(s, 1, MaxEntries) ELSE s

(* _store_cache_entry: at the end, then the oldest ones out.                 *)
Stored(k) ==
    LET s == Append(Without(k), k) IN
    SubSeq(s, IF Len(s) > MaxEntries THEN Len(s) - MaxEntries + 1 ELSE 1, Len(s))

(* The provider's stream ends: store, then finish, with no suspension.       *)
StreamEnds(r) ==
    /\ pc[r] = "streaming"
    /\ cache' = Stored(Key(r))
    /\ expired' = {k \in expired \ {Key(r)} :
                     \E i \in 1 .. Len(cache') : cache'[i] = k}
    /\ Finish(r, "audio")
    /\ Goto(r, "done")
    /\ UNCHANGED <<ask, awaits>>

(* The provider refuses, or breaks off, or a cancellation lands in its await. *)
StreamFails(r) ==
    /\ pc[r] \in {"starting", "streaming"}
    /\ Finish(r, "error")
    /\ Goto(r, "failed")
    /\ UNCHANGED <<cache, expired, ask, awaits>>

(* A client disconnects.  Between two chunks the generator is left suspended  *)
(* at its yield until the loop finalises it.                                 *)
GoneMidBody(r) ==
    /\ "mid_body" \in Disconnects
    /\ pc[r] = "streaming" /\ ask[r].consumer = "http"
    /\ Goto(r, "dropped")
    /\ UNCHANGED <<cache, expired, inflight, result, ask, awaits>>

(* Mutant: no finally clause.                                                *)
FinaliseSilent(r) ==
    /\ pc[r] = "dropped"
    /\ Goto(r, "failed")
    /\ UNCHANGED <<cache, expired, inflight, result, ask, awaits>>

Finalise(r) ==
    /\ pc[r] = "dropped"
    /\ Finish(r, "error")
    /\ Goto(r, "failed")
    /\ UNCHANGED <<cache, expired, ask, awaits>>

(* Before the first chunk there is no frame whose finally could run.         *)
GoneBeforeBody(r) ==
    /\ "before_body" \in Disconnects
    /\ pc[r] = "opened"
    /\ Goto(r, "gone")
    /\ UNCHANGED <<cache, expired, inflight, result, ask, awaits>>

(* inflight.event.wait() returns.                                            *)
Signalled(r) == pc[r] = "waiting" /\ result[awaits[r]] # "none"

WakeUp(r) ==
    /\ Signalled(r)
    /\ Goto(r, IF result[awaits[r]] = "audio" THEN "done" ELSE "failed")
    /\ UNCHANGED <<inflight, result, ask, awaits>>

Wake(r) == WakeUp(r) /\ UNCHANGED <<cache, expired>>

(* Time passes.                                                              *)
Expire(k) ==
    /\ Cached(k) /\ k \notin expired
    /\ expired' = expired \cup {k}
    /\ UNCHANGED <<cache, inflight, result, pc, ask, awaits>>

Progress(r) ==
    ProviderStarts(r) \/ BodyBegins(r) \/ StreamEnds(r) \/ Finalise(r) \/ Wake(r)

Next ==
    \/ \E r \in Requests :
         \/ Stream(r) \/ Progress(r)
         \/ StreamFails(r) \/ GoneMidBody(r) \/ GoneBeforeBody(r)
    \/ \E k \in Keys : GetStatus(k) \/ Expire(k)

Spec == Init /\ [][Next]_vars

(* The provider's client has a timeout, generators are finalised by the loop, *)
(* and a set event wakes its waiters.                                        *)
FairSpec == Spec /\ \A r \in Requests : WF_vars(Progress(r))

-----------------------------------------------------------------------------
(* Type invariant of the service's state.                                    *)
TypeOK ==
    /\ cache \in Seq(Keys)
    /\ expired \subseteq Keys
    /\ inflight \in [Keys -> Requests \cup {None}]
    /\ result \in [Requests -> {"none", "audio", "error"}]
    /\ pc \in [Requests -> Generating \cup Answered \cup {"new", "waiting"}]
    /\ ask \in [Requests -> [key : Keys \cup {None},
                              consumer : {"http", "prewarm", "none"}]]
    /\ awaits \in [Requests -> Requests \cup {None}]

(* One provider stream per key: never do two requests generate the same audio *)
(* at once (service.py:196-206).                                             *)
SingleFlight ==
    \A r, q \in Requests :
        pc[r] \in Generating /\ pc[q] \in Generating /\ Key(r) = Key(q) => r = q

(* The in-flight table and the requests agree: a key has an entry exactly     *)
(* while its owner generates, the entry is not finished, and who waits for    *)
(* an unfinished entry waits for the one in the table: no request can join a  *)
(* generation that has ended, and none is left waiting for one that was       *)
(* popped by somebody else's end (service.py:200-224, 272-285).              *)
InflightHasOwner ==
    /\ \A k \in Keys, r \in Requests :
         inflight[k] = r => Key(r) = k /\ pc[r] \in Generating \cup {"gone"}
                              /\ result[r] = "none"
    /\ \A r \in Requests : pc[r] \in Generating => inflight[Key(r)] = r
    /\ \A r \in Requests :
         pc[r] = "waiting" /\ result[awaits[r]] = "none" =>
             inflight[Key(r)] = awaits[r]

(* A generation that succeeds leaves its audio cached, and a live entry is    *)
(* only ever evicted as the least recently used one (service.py:255-270).    *)
CacheKeepsRecent ==
    [][/\ \A r \in Requests :
            result[r] = "none" /\ result'[r] = "audio" =>
                \E i \in 1 .. Len(cache') : cache'[i] = Key(r)
       /\ \A k \in Keys \ expired :
            Cached(k) /\ ~(\E i \in 1 .. Len(cache') : cache'[i] = k) =>
                k = cache[1]]_vars

(* Again and again every request has its audio or an error: a stream          *)
(* cancelled by its client clears the in-flight entry and lets the others     *)
(* retry (test_tts_service.py:154).                                          *)
RequestsAnswered == []<>(\A r \in Requests : pc[r] \in Answered \cup {"new"})

(* They have, as long as no client left before it asked for its body.         *)
Unread == \E r \in Requests : pc[r] = "gone"
AnsweredUnlessUnread ==
    []<>(Unread \/ \A r \in Requests : pc[r] \in Answered \cup {"new"})
=============================================================================
