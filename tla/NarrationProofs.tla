--------------------------- MODULE NarrationProofs ---------------------------
(***************************************************************************)
(* Proofs about NarrationTTS: for every set of requests and keys and every *)
(* cache size, one provider stream per key, an in-flight table that agrees *)
(* with the requests, and a cache that gives up its oldest entry only.     *)
(*                                                                         *)
(* The facts about single steps do not say which steps come together, so   *)
(* that RoundStream, which makes some of them one step with its own, has   *)
(* them too.                                                               *)
(***************************************************************************)
EXTENDS NarrationTTS, SequenceTheorems, TLAPS

flight == <<inflight, result, pc, ask, awaits>>

FlightType ==
    /\ inflight \in [Keys -> Requests \cup {None}]
    /\ result \in [Requests -> {"none", "audio", "error"}]
    /\ pc \in [Requests -> Generating \cup Answered \cup {"new", "waiting"}]
    /\ ask \in [Requests -> [key : Keys \cup {None},
                              consumer : {"http", "prewarm", "none"}]]
    /\ awaits \in [Requests -> Requests \cup {None}]

(* What a request asks for, and whom it waits for.                           *)
Asking ==
    \A r \in Requests :
        /\ pc[r] # "new" => Key(r) \in Keys
        /\ pc[r] = "new" => result[r] = "none"
        /\ pc[r] = "waiting" =>
             awaits[r] \in Requests /\ pc[awaits[r]] # "new" /\ Key(awaits[r]) = Key(r)

FlightInv == FlightType /\ Asking /\ InflightHasOwner

(* The steps of the requests, whatever else happens meanwhile.               *)
Asks(r) == \E k \in Keys, consumer \in {"http", "prewarm"} : StreamFor(r, k, consumer)
MovesOn(r) ==
    \/ ProviderStarts(r) \/ BodyBegins(r) \/ GoneMidBody(r) \/ GoneBeforeBody(r)
    \/ WakeUp(r)
Finishes(r) == StreamEnds(r) \/ StreamFails(r) \/ Finalise(r)
FlightStep == (\E r \in Requests : Asks(r) \/ MovesOn(r) \/ Finishes(r)) \/ UNCHANGED flight

-----------------------------------------------------------------------------
(* The in-flight table.                                                      *)

(* A request that hits is answered; one that misses owns the entry of its key *)
(* or waits for the owner.                                                   *)
LEMMA AsksKeeps ==
    ASSUME FlightInv, NEW r \in Requests, Asks(r)
    PROVE  FlightInv'
<1>1. PICK k \in Keys, consumer \in {"http", "prewarm"} : StreamFor(r, k, consumer)
  BY DEF Asks
<1>2. /\ pc[r] = "new" /\ UNCHANGED result
      /\ ask' = [ask EXCEPT ![r] = [key |-> k, consumer |-> consumer]]
  BY <1>1 DEF StreamFor
<1>3. Key(r)' = k /\ \A q \in Requests \ {r} : Key(q)' = Key(q)
  BY <1>2 DEF Key, FlightInv, FlightType
<1>4. \A q \in Requests : pc[q] = "waiting" => awaits[q] # r
  BY <1>2 DEF FlightInv, Asking
<1>5. CASE pc' = [pc EXCEPT ![r] = "done"] /\ UNCHANGED <<inflight, awaits>>
  <2>1. FlightType' /\ Asking'
    BY <1>1, <1>2, <1>3, <1>4, <1>5
       DEF FlightInv, FlightType, Asking, Generating, Answered
  <2>2. InflightHasOwner'
    BY <1>1, <1>2, <1>3, <1>4, <1>5
       DEF FlightInv, FlightType, Asking, InflightHasOwner, Generating, Answered
  <2>. QED BY <2>1, <2>2 DEF FlightInv
<1>6. CASE /\ inflight[k] = None
           /\ inflight' = [inflight EXCEPT ![k] = r]
           /\ pc' = [pc EXCEPT ![r] = "starting"]
           /\ UNCHANGED awaits
  <2>1. FlightType' /\ Asking'
    BY <1>1, <1>2, <1>3, <1>4, <1>6
       DEF FlightInv, FlightType, Asking, Generating, Answered
  <2>2. InflightHasOwner'
    BY <1>1, <1>2, <1>3, <1>4, <1>6, NarrationAssumption
       DEF FlightInv, FlightType, Asking, InflightHasOwner,
           Generating, Answered
  <2>. QED BY <2>1, <2>2 DEF FlightInv
<1>7. CASE /\ inflight[k] # None
           /\ awaits' = [awaits EXCEPT ![r] = inflight[k]]
           /\ pc' = [pc EXCEPT ![r] = "waiting"]
           /\ UNCHANGED inflight
  <2>1. inflight[k] \in Requests /\ inflight[k] # r /\ pc[inflight[k]] # "new"
        /\ Key(inflight[k]) = k
    BY <1>1, <1>2, <1>7
       DEF FlightInv, FlightType, InflightHasOwner, Generating
  <2>2. FlightType' /\ Asking'
    BY <1>1, <1>2, <1>3, <1>4, <1>7, <2>1
       DEF FlightInv, FlightType, Asking, Generating, Answered
  <2>3. InflightHasOwner'
    BY <1>1, <1>2, <1>3, <1>4, <1>7, <2>1
       DEF FlightInv, FlightType, Asking, InflightHasOwner, Generating, Answered
  <2>. QED BY <2>2, <2>3 DEF FlightInv
<1>. QED BY <1>1, <1>5, <1>6, <1>7 DEF StreamFor, Join, Goto

LEMMA MovesOnKeeps ==
    ASSUME FlightInv, NEW r \in Requests, MovesOn(r)
    PROVE  FlightInv'
<1>1. UNCHANGED <<inflight, result, ask, awaits>>
  BY DEF MovesOn, ProviderStarts, BodyBegins, GoneMidBody, GoneBeforeBody, WakeUp
<1>2. \/ /\ pc[r] \in Generating
         /\ \E l \in Generating : pc' = [pc EXCEPT ![r] = l]
      \/ /\ pc[r] \in Generating
         /\ pc' = [pc EXCEPT ![r] = "gone"]
      \/ /\ pc[r] = "waiting"
         /\ \E l \in {"done", "failed"} : pc' = [pc EXCEPT ![r] = l]
  BY DEF MovesOn, ProviderStarts, BodyBegins, GoneMidBody, GoneBeforeBody, WakeUp,
         Signalled, Goto, Generating
<1>3. FlightType'
  BY <1>1, <1>2 DEF FlightInv, FlightType, Generating, Answered
<1>4. Asking'
  BY <1>1, <1>2 DEF FlightInv, FlightType, Asking, Generating, Key
<1>5. InflightHasOwner'
  <2>1. \A q \in Requests :
          /\ pc'[q] \in Generating => pc[q] \in Generating
          /\ pc[q] \in Generating \cup {"gone"} => pc'[q] \in Generating \cup {"gone"}
          /\ pc'[q] = "waiting" => pc[q] = "waiting"
    BY <1>2 DEF FlightInv, FlightType, Generating, Answered
  <2>. QED BY <1>1, <2>1 DEF FlightInv, InflightHasOwner, Key
<1>. QED BY <1>3, <1>4, <1>5 DEF FlightInv

(* Who finishes is the owner of its key's entry, and pops that.               *)
LEMMA OwnEntry ==
    ASSUME FlightInv, NEW r \in Requests, Finishes(r)
    PROVE  /\ pc[r] \in Generating /\ result[r] = "none" /\ Key(r) \in Keys
           /\ inflight[Key(r)] = r
           /\ inflight' = [inflight EXCEPT ![Key(r)] = None]
           /\ \E how \in {"audio", "error"} :
                /\ result' = [result EXCEPT ![r] = how]
                /\ how = "audio" => StreamEnds(r)
           /\ \E l \in {"done", "failed"} : pc' = [pc EXCEPT ![r] = l]
           /\ UNCHANGED <<ask, awaits>>
<1>1. pc[r] \in Generating
  BY DEF Finishes, StreamEnds, StreamFails, Finalise, Generating
<1>2. Key(r) \in Keys /\ inflight[Key(r)] = r /\ result[r] = "none" /\ r # None
  BY <1>1, NarrationAssumption DEF FlightInv, Asking, InflightHasOwner, Generating
<1>. QED BY <1>1, <1>2 DEF Finishes, StreamEnds, StreamFails, Finalise, Finish, Goto

LEMMA FinishesKeeps ==
    ASSUME FlightInv, NEW r \in Requests, Finishes(r)
    PROVE  FlightInv'
<1>1. PICK how \in {"audio", "error"}, l \in {"done", "failed"} :
        /\ result' = [result EXCEPT ![r] = how]
        /\ pc' = [pc EXCEPT ![r] = l]
  BY OwnEntry
<1>2. /\ pc[r] \in Generating /\ Key(r) \in Keys /\ inflight[Key(r)] = r
      /\ inflight' = [inflight EXCEPT ![Key(r)] = None]
      /\ UNCHANGED <<ask, awaits>>
  BY OwnEntry
<1>3. FlightType'
  BY <1>1, <1>2 DEF FlightInv, FlightType, Answered
<1>4. Asking'
  BY <1>1, <1>2 DEF FlightInv, FlightType, Asking, Generating, Key
<1>5. InflightHasOwner'
  <2>1. ASSUME NEW k \in Keys, NEW q \in Requests, inflight'[k] = q
        PROVE  /\ Key(q)' = k /\ pc'[q] \in Generating \cup {"gone"}
               /\ result'[q] = "none"
    <3>1. k # Key(r) /\ inflight[k] = q
      BY <1>2, <2>1, NarrationAssumption DEF FlightInv, FlightType
    <3>2. q # r /\ Key(q) = k
      BY <3>1 DEF FlightInv, InflightHasOwner
    <3>. QED BY <1>1, <1>2, <3>1, <3>2 DEF FlightInv, FlightType, InflightHasOwner, Key
  <2>2. ASSUME NEW q \in Requests, pc'[q] \in Generating
        PROVE  inflight'[Key(q)'] = q
    <3>1. q # r /\ pc[q] \in Generating
      BY <1>1, <2>2 DEF FlightInv, FlightType, Generating
    <3>2. inflight[Key(q)] = q
      BY <3>1 DEF FlightInv, InflightHasOwner
    <3>3. Key(q) # Key(r)
      BY <1>2, <3>1, <3>2
    <3>. QED BY <1>2, <3>1, <3>2, <3>3 DEF FlightInv, FlightType, Key
  <2>3. ASSUME NEW q \in Requests, pc'[q] = "waiting", result'[awaits'[q]] = "none"
        PROVE  inflight'[Key(q)'] = awaits'[q]
    <3>1. q # r /\ pc[q] = "waiting" /\ awaits[q] \in Requests
      BY <1>1, <2>3 DEF FlightInv, FlightType, Asking
    <3>2. awaits[q] # r /\ result[awaits[q]] = "none"
      BY <1>1, <1>2, <2>3, <3>1 DEF FlightInv, FlightType
    <3>3. inflight[Key(q)] = awaits[q]
      BY <3>1, <3>2 DEF FlightInv, InflightHasOwner
    <3>4. Key(q) # Key(r)
      BY <1>2, <3>2, <3>3
    <3>. QED BY <1>2, <3>3, <3>4 DEF FlightInv, FlightType, Key
  <2>. QED BY <2>1, <2>2, <2>3 DEF InflightHasOwner
<1>. QED BY <1>3, <1>4, <1>5 DEF FlightInv

LEMMA FlightInit == Init => FlightInv
<1>. SUFFICES ASSUME Init PROVE FlightInv
  OBVIOUS
<1>1. FlightType
  BY DEF Init, FlightType
<1>2. Asking /\ InflightHasOwner
  BY NarrationAssumption DEF Init, Asking, InflightHasOwner, Generating
<1>. QED BY <1>1, <1>2 DEF FlightInv

LEMMA FlightKept ==
    ASSUME FlightInv, FlightStep
    PROVE  FlightInv'
<1>1. CASE UNCHANGED flight
  BY <1>1 DEF flight, FlightInv, FlightType, Asking, InflightHasOwner, Key
<1>2. ASSUME NEW r \in Requests, Asks(r) \/ MovesOn(r) \/ Finishes(r)
      PROVE  FlightInv'
  BY <1>2, AsksKeeps, MovesOnKeeps, FinishesKeeps
<1>. QED BY <1>1, <1>2 DEF FlightStep

(* Two that generate under one key both own its entry.                       *)
LEMMA OneOwner == FlightInv => SingleFlight
BY DEF FlightInv, InflightHasOwner, SingleFlight

-----------------------------------------------------------------------------
(* The cache.                                                                *)

CacheOK == cache \in Seq(Keys) /\ Len(cache) <= MaxEntries /\ expired \subseteq Keys

(* What a step may do to the cache: pop what expired, move a key to the end,  *)
(* store a key there.                                                        *)
Holds(s, k) == \E i \in 1 .. Len(s) : s[i] = k

LEMMA AroundHole ==
    ASSUME NEW n \in Nat, NEW i \in 1 .. n
    PROVE  /\ (i - 1) + (n - i) = n - 1
           /\ \A j \in 1 .. n - 1 :
                IF j < i THEN j \in 1 .. i - 1 /\ j <= i - 1
                ELSE /\ j - (i - 1) \in 1 .. n - i /\ ~(j <= i - 1)
                     /\ i + (j - (i - 1)) = j + 1
OBVIOUS

PopAt(s, i) == SubSeq(s, 1, i - 1) \o SubSeq(s, i + 1, Len(s))

LEMMA PoppedAt ==
    ASSUME NEW S, NEW s \in Seq(S), NEW i \in 1 .. Len(s)
    PROVE  /\ PopAt(s, i) \in Seq(S) /\ Len(PopAt(s, i)) = Len(s) - 1
           /\ \A j \in 1 .. Len(s) - 1 :
                PopAt(s, i)[j] = IF j < i THEN s[j] ELSE s[j + 1]
<1>. DEFINE t == PopAt(s, i)
            a == SubSeq(s, 1, i - 1)
            b == SubSeq(s, i + 1, Len(s))
<1>1. Len(s) \in Nat /\ \A j \in 1 .. Len(s) : s[j] \in S
  BY ElementOfSeq, LenProperties
<1>2. /\ a \in Seq(S) /\ Len(a) = i - 1
      /\ \A j \in 1 .. i - 1 : a[j] = s[j]
  <2>1. \A j \in 1 .. i - 1 : s[j] \in S
    BY <1>1
  <2>. QED BY <1>1, <2>1, SubSeqProperties
<1>3. /\ b \in Seq(S) /\ Len(b) = Len(s) - i
      /\ \A j \in 1 .. Len(s) - i : b[j] = s[i + j]
  <2>1. \A j \in i + 1 .. Len(s) : s[j] \in S
    BY <1>1
  <2>2. /\ b \in Seq(S) /\ Len(b) = IF i + 1 <= Len(s) THEN Len(s) - (i + 1) + 1 ELSE 0
        /\ \A j \in 1 .. Len(s) - (i + 1) + 1 : b[j] = s[(i + 1) + j - 1]
    BY <1>1, <2>1, SubSeqProperties
  <2>. QED BY <1>1, <2>2
<1>. HIDE DEF a, b
<1>4. /\ t \in Seq(S) /\ Len(t) = Len(a) + Len(b)
      /\ \A j \in 1 .. Len(a) + Len(b) : t[j] = IF j <= Len(a) THEN a[j] ELSE b[j - Len(a)]
  BY <1>2, <1>3, ConcatProperties DEF a, b, PopAt
<1>5. Len(t) = Len(s) - 1 /\ Len(a) + Len(b) = Len(s) - 1
  BY <1>1, <1>2, <1>3, <1>4, AroundHole
<1>6. ASSUME NEW j \in 1 .. Len(s) - 1 PROVE t[j] = IF j < i THEN s[j] ELSE s[j + 1]
  <2>1. t[j] = IF j <= i - 1 THEN a[j] ELSE b[j - (i - 1)]
    BY <1>2, <1>4, <1>5
  <2>2. CASE j < i
    <3>1. j \in 1 .. i - 1 /\ j <= i - 1
      BY <1>1, <2>2, AroundHole
    <3>. QED BY <1>2, <2>1, <2>2, <3>1
  <2>3. CASE ~(j < i)
    <3>1. /\ j - (i - 1) \in 1 .. Len(s) - i /\ ~(j <= i - 1)
          /\ i + (j - (i - 1)) = j + 1
      BY <1>1, <2>3, AroundHole
    <3>2. b[j - (i - 1)] = s[j + 1]
      BY <1>3, <3>1
    <3>. QED BY <2>1, <2>3, <3>1, <3>2
  <2>. QED BY <2>2, <2>3
<1>. QED BY <1>4, <1>5, <1>6

(* Popping a key leaves the others where they are.                           *)
LEMMA WithoutKeeps ==
    ASSUME CacheOK, NEW k \in Keys
    PROVE  /\ Without(k) \in Seq(Keys) /\ Len(Without(k)) <= Len(cache)
           /\ Cached(k) => Len(Without(k)) < Len(cache)
           /\ ~Cached(k) => Without(k) = cache
           /\ \A x : x # k /\ Cached(x) => Holds(Without(k), x)
           /\ \A x : Holds(Without(k), x) => Cached(x)
<1>1. Len(cache) \in Nat /\ cache \in Seq(Keys)
  BY LenProperties DEF CacheOK
<1>2. CASE ~Cached(k)
  BY <1>1, <1>2 DEF Without, Cached, Holds
<1>3. CASE Cached(k)
  <2>. DEFINE i == CHOOSE j \in 1 .. Len(cache) : cache[j] = k
              t == PopAt(cache, i)
  <2>1. i \in 1 .. Len(cache) /\ cache[i] = k
    BY <1>3 DEF Cached
  <2>2. Without(k) = t
    BY <1>3 DEF Without, PopAt
  <2>. HIDE DEF i
  <2>3. /\ t \in Seq(Keys) /\ Len(t) = Len(cache) - 1
        /\ \A j \in 1 .. Len(t) : t[j] = IF j < i THEN cache[j] ELSE cache[j + 1]
    BY <1>1, <2>1, PoppedAt
  <2>. HIDE DEF t
  <2>4. ASSUME NEW x, x # k, Cached(x) PROVE Holds(t, x)
    <3>1. PICK j \in 1 .. Len(cache) : cache[j] = x
      BY <2>4 DEF Cached
    <3>2. j # i
      BY <2>1, <2>4, <3>1
    <3>3. CASE j < i
      <4>1. j \in 1 .. Len(t) /\ t[j] = x
        BY <1>1, <2>1, <2>3, <3>1, <3>3
      <4>. QED BY <4>1 DEF Holds
    <3>4. CASE j > i
      <4>1. j - 1 \in 1 .. Len(t) /\ t[j - 1] = x
        BY <1>1, <2>1, <2>3, <3>1, <3>4
      <4>. QED BY <4>1 DEF Holds
    <3>. QED BY <2>1, <3>1, <3>2, <3>3, <3>4
  <2>5. ASSUME NEW x, Holds(t, x) PROVE Cached(x)
    <3>1. PICK j \in 1 .. Len(t) : t[j] = x
      BY <2>5 DEF Holds
    <3>2. j \in 1 .. Len(cache) /\ j + 1 \in 1 .. Len(cache)
      BY <1>1, <2>3, <3>1
    <3>3. cache[j] = x \/ cache[j + 1] = x
      BY <2>3, <3>1
    <3>. QED BY <3>2, <3>3 DEF Cached
  <2>. QED BY <1>1, <1>3, <2>2, <2>3, <2>4, <2>5
<1>. QED BY <1>2, <1>3

(* A key at the end.                                                         *)
LEMMA MovedToEnd ==
    ASSUME NEW s \in Seq(Keys), NEW k \in Keys
    PROVE  /\ Append(s, k) \in Seq(Keys) /\ Len(Append(s, k)) = Len(s) + 1
           /\ \A x : Holds(Append(s, k), x) <=> x = k \/ Holds(s, x)
<1>1. /\ Append(s, k) \in Seq(Keys) /\ Len(Append(s, k)) = Len(s) + 1 /\ Len(s) \in Nat
      /\ \A i \in 1 .. Len(s) : Append(s, k)[i] = s[i]
      /\ Append(s, k)[Len(s) + 1] = k
  BY AppendProperties, LenProperties
<1>2. ASSUME NEW x, x = k \/ Holds(s, x) PROVE Holds(Append(s, k), x)
  <2>1. CASE x = k
    BY <1>1, <2>1 DEF Holds
  <2>2. CASE Holds(s, x)
    <3>1. PICK i \in 1 .. Len(s) : s[i] = x
      BY <2>2 DEF Holds
    <3>2. i \in 1 .. Len(s) + 1 /\ Append(s, k)[i] = x
      BY <1>1, <3>1
    <3>. QED BY <1>1, <3>2 DEF Holds
  <2>. QED BY <1>2, <2>1, <2>2
<1>3. ASSUME NEW x, Holds(Append(s, k), x) PROVE x = k \/ Holds(s, x)
  <2>1. PICK i \in 1 .. Len(s) + 1 : Append(s, k)[i] = x
    BY <1>1, <1>3 DEF Holds
  <2>. QED BY <1>1, <2>1 DEF Holds
<1>. QED BY <1>1, <1>2, <1>3

(* _get_cached_no_lock takes out an expired key at most, and puts none in.    *)
LEMMA LookupKeeps ==
    ASSUME CacheOK, NEW k \in Keys, Lookup(k)
    PROVE  /\ CacheOK'
           /\ \A x : x \notin expired /\ Cached(x) => Cached(x)'
           /\ \A x : Cached(x)' => Cached(x)
<1>1. expired' \subseteq Keys
  BY DEF Lookup, CacheOK
<1>2. CASE ~Cached(k)
  BY <1>1, <1>2 DEF Lookup, CacheOK, Cached
<1>3. CASE Cached(k) /\ k \in expired
  <2>1. cache' = Without(k)
    BY <1>3 DEF Lookup
  <2>2. \A x : Cached(x)' <=> Holds(Without(k), x)
    BY <2>1 DEF Cached, Holds
  <2>3. /\ Without(k) \in Seq(Keys) /\ Len(Without(k)) <= Len(cache)
        /\ \A x : x # k /\ Cached(x) => Holds(Without(k), x)
        /\ \A x : Holds(Without(k), x) => Cached(x)
    BY WithoutKeeps
  <2>4. CacheOK'
    <3>1. Len(Without(k)) \in Nat /\ Len(cache) \in Nat /\ MaxEntries \in Nat
      BY <2>3, LenProperties, NarrationAssumption DEF CacheOK
    <3>. QED BY <1>1, <2>1, <2>3, <3>1 DEF CacheOK
  <2>. QED BY <1>3, <2>2, <2>3, <2>4
<1>4. CASE Cached(k) /\ k \notin expired
  <2>1. cache' = Append(Without(k), k)
    BY <1>4 DEF Lookup
  <2>2. /\ Without(k) \in Seq(Keys) /\ Len(Without(k)) < Len(cache)
        /\ \A x : x # k /\ Cached(x) => Holds(Without(k), x)
        /\ \A x : Holds(Without(k), x) => Cached(x)
    BY <1>4, WithoutKeeps
  <2>3. /\ cache' \in Seq(Keys) /\ Len(cache') = Len(Without(k)) + 1
        /\ \A x : Cached(x)' <=> x = k \/ Holds(Without(k), x)
    BY <2>1, <2>2, MovedToEnd DEF Cached, Holds
  <2>4. CacheOK'
    <3>1. Len(Without(k)) \in Nat /\ Len(cache) \in Nat /\ MaxEntries \in Nat
      BY <2>2, LenProperties, NarrationAssumption DEF CacheOK
    <3>. QED BY <1>1, <2>2, <2>3, <3>1 DEF CacheOK
  <2>. QED BY <1>4, <2>2, <2>3, <2>4
<1>. QED BY <1>2, <1>3, <1>4

(* _store_cache_entry puts the key in, and the oldest out when it was full.   *)
LEMMA StoredKeeps ==
    ASSUME CacheOK, NEW k \in Keys
    PROVE  /\ Stored(k) \in Seq(Keys) /\ Len(Stored(k)) <= MaxEntries
           /\ Holds(Stored(k), k)
           /\ \A x : Cached(x) /\ ~Holds(Stored(k), x) => x = cache[1]
           /\ \A x : Holds(Stored(k), x) => x = k \/ Cached(x)
<1>. DEFINE s == Append(Without(k), k)
<1>1. /\ Without(k) \in Seq(Keys) /\ Len(Without(k)) <= Len(cache)
      /\ Cached(k) => Len(Without(k)) < Len(cache)
      /\ ~Cached(k) => Without(k) = cache
      /\ \A x : x # k /\ Cached(x) => Holds(Without(k), x)
      /\ \A x : Holds(Without(k), x) => Cached(x)
  BY WithoutKeeps
<1>2. /\ s \in Seq(Keys) /\ Len(s) = Len(Without(k)) + 1
      /\ \A x : Holds(s, x) <=> x = k \/ Holds(Without(k), x)
  BY <1>1, MovedToEnd
<1>3. /\ Len(Without(k)) \in Nat /\ Len(cache) \in Nat /\ MaxEntries \in Nat \ {0}
      /\ Len(cache) <= MaxEntries /\ Len(s) \in Nat
  BY <1>1, <1>2, LenProperties, NarrationAssumption DEF CacheOK
<1>4. Stored(k) = SubSeq(s, IF Len(s) > MaxEntries THEN Len(s) - MaxEntries + 1 ELSE 1,
                         Len(s))
  BY DEF Stored
<1>5. \A i \in 1 .. Len(s) : s[i] \in Keys
  BY <1>2, ElementOfSeq
<1>6. CASE Len(s) <= MaxEntries
  <2>. HIDE DEF s
  <2>1. Stored(k) = SubSeq(s, 1, Len(s))
    <3>1. ~(Len(s) > MaxEntries)
      BY <1>3, <1>6
    <3>. QED BY ONLY <1>4, <3>1, Zenon
  <2>2. SubSeq(s, 1, Len(s)) = s
    BY <1>2, SubSeqFull
  <2>. QED BY <1>1, <1>2, <1>6, <2>1, <2>2
<1>7. CASE Len(s) > MaxEntries
  <2>1. ~Cached(k) /\ Len(s) = MaxEntries + 1 /\ Len(cache) = MaxEntries
    BY <1>1, <1>2, <1>3, <1>7
  <2>2. /\ \A i \in 1 .. Len(cache) : s[i] = cache[i]
        /\ s[Len(cache) + 1] = k
    BY <1>1, <2>1, AppendProperties
  <2>. HIDE DEF s
  <2>3. Stored(k) = SubSeq(s, 2, Len(s))
    BY <1>3, <1>4, <1>7, <2>1
  <2>4. /\ Stored(k) \in Seq(Keys) /\ Len(Stored(k)) = MaxEntries
        /\ \A i \in 1 .. MaxEntries : Stored(k)[i] = s[i + 1]
    <3>1. /\ SubSeq(s, 2, Len(s)) \in Seq(Keys)
          /\ Len(SubSeq(s, 2, Len(s))) = IF 2 <= Len(s) THEN Len(s) - 2 + 1 ELSE 0
          /\ \A i \in 1 .. Len(s) - 2 + 1 : SubSeq(s, 2, Len(s))[i] = s[2 + i - 1]
      <4>1. \A i \in 2 .. Len(s) : s[i] \in Keys
        BY <1>3, <1>5
      <4>. QED BY <1>3, <4>1, SubSeqProperties
    <3>2. \A i \in 1 .. MaxEntries : 2 + i - 1 = i + 1
      BY <1>3
    <3>3. Len(s) - 2 + 1 = MaxEntries /\ 2 <= Len(s)
      BY <1>3, <2>1
    <3>. QED BY <2>3, <3>1, <3>2, <3>3
  <2>5. Holds(Stored(k), k)
    BY <1>3, <2>1, <2>2, <2>4 DEF Holds
  <2>6. ASSUME NEW x, Cached(x), ~Holds(Stored(k), x) PROVE x = cache[1]
    <3>1. PICK i \in 1 .. Len(cache) : cache[i] = x
      BY <2>6 DEF Cached
    <3>2. SUFFICES ASSUME i # 1 PROVE FALSE
      BY <3>1
    <3>3. i - 1 \in 1 .. MaxEntries /\ (i - 1) + 1 = i
      BY <1>3, <2>1, <3>1, <3>2
    <3>4. Stored(k)[i - 1] = x
      BY <2>2, <2>4, <3>1, <3>3
    <3>. QED BY <2>4, <2>6, <3>3, <3>4 DEF Holds
  <2>7. ASSUME NEW x, Holds(Stored(k), x) PROVE x = k \/ Cached(x)
    <3>1. PICK i \in 1 .. MaxEntries : Stored(k)[i] = x
      BY <2>4, <2>7 DEF Holds
    <3>2. i + 1 \in 1 .. Len(s) /\ s[i + 1] = x
      BY <1>3, <2>1, <2>4, <3>1
    <3>3. Holds(s, x)
      BY <3>2 DEF Holds
    <3>. QED BY <1>1, <1>2, <3>3
  <2>. QED BY <1>3, <2>4, <2>5, <2>6, <2>7
<1>. QED BY <1>3, <1>6, <1>7

(* What CacheKeepsRecent says of one step.                                   *)
Recent ==
    /\ \A r \in Requests :
         result[r] = "none" /\ result'[r] = "audio" => Holds(cache', Key(r))
    /\ \A k \in Keys \ expired :
         Cached(k) /\ ~Holds(cache', k) => k = cache[1]

LEMMA RecentLookup ==
    ASSUME CacheOK, NEW k \in Keys, Lookup(k), UNCHANGED result
    PROVE  CacheOK' /\ Recent
<1>1. CacheOK' /\ \A x : x \notin expired /\ Cached(x) => Cached(x)'
  BY LookupKeeps
<1>2. \A x : Cached(x)' <=> Holds(cache', x)
  BY DEF Cached, Holds
<1>. QED BY <1>1, <1>2 DEF Recent

LEMMA RecentEnd ==
    ASSUME CacheOK, FlightInv, NEW r \in Requests, StreamEnds(r)
    PROVE  CacheOK' /\ Recent
<1>1. Finishes(r)
  BY DEF Finishes
<1>2. Key(r) \in Keys
  BY <1>1, OwnEntry
<1>3. PICK how \in {"audio", "error"} : result' = [result EXCEPT ![r] = how]
  BY <1>1, OwnEntry
<1>4. cache' = Stored(Key(r)) /\ expired' \subseteq expired
  BY DEF StreamEnds
<1>5. /\ cache' \in Seq(Keys) /\ Len(cache') <= MaxEntries /\ Holds(cache', Key(r))
      /\ \A x : Cached(x) /\ ~Holds(cache', x) => x = cache[1]
  BY <1>2, <1>4, StoredKeeps
<1>6. CacheOK'
  BY <1>4, <1>5 DEF CacheOK
<1>. QED BY <1>3, <1>5, <1>6 DEF Recent, FlightInv, FlightType

LEMMA RecentOther ==
    ASSUME CacheOK, UNCHANGED cache, expired' \subseteq Keys,
           \A r \in Requests : result'[r] = "audio" => result[r] = "audio"
    PROVE  CacheOK' /\ Recent
BY DEF CacheOK, Recent, Cached, Holds

(* A generation that fails gives its waiters an error.                       *)
LEMMA NoAudio ==
    ASSUME FlightInv, NEW r \in Requests, StreamFails(r) \/ Finalise(r)
    PROVE  /\ \A q \in Requests : result'[q] = "audio" => result[q] = "audio"
           /\ UNCHANGED <<cache, expired>>
<1>1. inflight[Key(r)] = r /\ r # None
  BY OwnEntry, NarrationAssumption DEF Finishes
<1>2. result' = [result EXCEPT ![r] = "error"]
  BY <1>1 DEF StreamFails, Finalise, Finish
<1>. QED BY <1>2 DEF StreamFails, Finalise, FlightInv, FlightType

-----------------------------------------------------------------------------
(* The service on its own.                                                   *)

LEMMA CacheInit == Init => CacheOK
<1>. SUFFICES ASSUME Init PROVE CacheOK
  OBVIOUS
<1>1. cache = <<>> /\ expired = {}
  BY DEF Init
<1>2. <<>> \in Seq(Keys) /\ Len(<<>>) = 0
  BY EmptySeq
<1>. QED BY <1>1, <1>2, NarrationAssumption DEF CacheOK

LEMMA ServiceStep ==
    ASSUME CacheOK, FlightInv, [Next]_vars
    PROVE  CacheOK' /\ FlightInv' /\ Recent
<1>1. ASSUME NEW r \in Requests, Stream(r) PROVE CacheOK' /\ FlightInv' /\ Recent
  <2>1. PICK k \in Keys, consumer \in {"http", "prewarm"} : StreamFor(r, k, consumer)
    BY <1>1 DEF Stream
  <2>2. Asks(r) /\ Lookup(k) /\ UNCHANGED result
    BY <2>1 DEF Asks, StreamFor
  <2>. QED BY <2>2, AsksKeeps, RecentLookup
<1>2. ASSUME NEW r \in Requests,
             ProviderStarts(r) \/ BodyBegins(r) \/ GoneMidBody(r) \/ GoneBeforeBody(r)
             \/ Wake(r)
      PROVE  CacheOK' /\ FlightInv' /\ Recent
  <2>1. MovesOn(r) /\ UNCHANGED <<cache, expired, result>>
    BY <1>2 DEF MovesOn, ProviderStarts, BodyBegins, GoneMidBody, GoneBeforeBody,
                Wake, WakeUp
  <2>2. expired' \subseteq Keys
    BY <2>1 DEF CacheOK
  <2>. QED BY <2>1, <2>2, MovesOnKeeps, RecentOther
<1>3. ASSUME NEW r \in Requests, StreamEnds(r) PROVE CacheOK' /\ FlightInv' /\ Recent
  BY <1>3, FinishesKeeps, RecentEnd DEF Finishes
<1>4. ASSUME NEW r \in Requests, StreamFails(r) \/ Finalise(r)
      PROVE  CacheOK' /\ FlightInv' /\ Recent
  <2>1. expired' \subseteq Keys
    BY <1>4, NoAudio DEF CacheOK
  <2>. QED BY <1>4, <2>1, FinishesKeeps, NoAudio, RecentOther DEF Finishes
<1>5. ASSUME NEW k \in Keys, GetStatus(k) \/ Expire(k)
      PROVE  CacheOK' /\ FlightInv' /\ Recent
  <2>1. FlightInv'
    BY <1>5, FlightKept DEF GetStatus, Expire, FlightStep, flight
  <2>2. CASE GetStatus(k)
    BY <2>1, <2>2, RecentLookup DEF GetStatus
  <2>3. CASE Expire(k)
    BY <2>1, <2>3, RecentOther DEF Expire, CacheOK
  <2>. QED BY <1>5, <2>2, <2>3
<1>6. CASE UNCHANGED vars
  <2>1. UNCHANGED flight /\ UNCHANGED <<cache, expired, result>>
    BY <1>6 DEF vars, flight
  <2>2. expired' \subseteq Keys
    BY <2>1 DEF CacheOK
  <2>. QED BY <2>1, <2>2, FlightKept, RecentOther DEF FlightStep
<1>. QED BY <1>1, <1>2, <1>3, <1>4, <1>5, <1>6 DEF Next, Progress

LEMMA ServiceInv == Spec => [](CacheOK /\ FlightInv)
<1>1. CacheOK /\ FlightInv /\ [Next]_vars => (CacheOK /\ FlightInv)'
  BY ServiceStep
<1>. QED BY <1>1, CacheInit, FlightInit, PTL DEF Spec

(* Every variable of the service keeps its type.                             *)
THEOREM ServiceType == Spec => []TypeOK
<1>1. CacheOK /\ FlightInv => TypeOK
  BY DEF CacheOK, FlightInv, FlightType, TypeOK
<1>. QED BY <1>1, ServiceInv, PTL

(* At most one provider stream per key, and an in-flight table that agrees    *)
(* with the requests, whoever fails, disconnects or joins when               *)
(* (service.py:196-224, 272-285).                                            *)
THEOREM OneStreamPerKey == Spec => [](SingleFlight /\ InflightHasOwner)
<1>1. FlightInv => SingleFlight /\ InflightHasOwner
  BY OneOwner DEF FlightInv
<1>. QED BY <1>1, ServiceInv, PTL

(* Audio that has been generated is cached, and a live entry leaves only as   *)
(* the least recently used one (service.py:255-270).                         *)
THEOREM OldestLeaves == Spec => CacheKeepsRecent
<1>1. CacheOK /\ FlightInv /\ [Next]_vars
        => [/\ \A r \in Requests :
                 result[r] = "none" /\ result'[r] = "audio" =>
                     \E i \in 1 .. Len(cache') : cache'[i] = Key(r)
            /\ \A k \in Keys \ expired :
                 Cached(k) /\ ~(\E i \in 1 .. Len(cache') : cache'[i] = k) =>
                     k = cache[1]]_vars
  BY ServiceStep DEF Recent, Holds
<1>. QED BY <1>1, ServiceInv, PTL DEF Spec, CacheKeepsRecent
=============================================================================
