-------------------------- MODULE ReplayProtection --------------------------
(* The handler of mfa-assertion with lib/rateLimit/slidingWindow.ts and    *)
(* lib/replayProtection.ts.  Time is discrete: a cache entry and a hit of  *)
(* the limiter carry their age.  An assertion is its tuple; activating the *)
(* session it earns is SessionManager's.                                   *)
EXTENDS Integers, Sequences, FiniteSets

CONSTANTS
  Tuples,
  ReplayWindow,  \* REPLAY_WINDOW_MS
  MaxCache,      \* MAX_CACHE_SIZE
  LimitWindow,   \* MFA_RATE_LIMIT_WINDOW_MS
  MaxHits,       \* MFA_RATE_LIMIT_MAX
  MaxReserving   \* bound: calls that await the hash of their tuple

(* 3 hits a minute and 5 minutes against 1000 entries in the code: so many *)
(* windows of the limiter as cover the replay window let in no more calls  *)
(* than the cache has room for.  A call that awaits its hash enters the    *)
(* cache later than the limiter saw it.                                    *)
ASSUME CacheAssumption ==
  /\ ReplayWindow \in Nat \ {0} /\ LimitWindow \in Nat \ {0}
  /\ MaxHits \in Nat /\ MaxReserving \in Nat /\ MaxCache \in Nat
  /\ \E n \in 1..(ReplayWindow + 1) :
       ReplayWindow < n * LimitWindow /\ MaxHits * n + MaxReserving <= MaxCache

VARIABLES
  entries,      \* the limiter's hits: their ages, oldest first
  reserving,    \* tuples whose hash is awaited, in order of arrival
  replayCache,  \* the Map: the age of each key, and the keys in front of it
  accepted,     \* history: ticks since a tuple was last accepted
  forgotten,    \* history: tuples accepted within the window, before a restart
  replayed      \* history: a tuple was accepted twice within the window, by
                \* one run of the worker or across a restart: see Repeats

replayVars == <<entries, reserving, replayCache, accepted, forgotten, replayed>>

Repeats == {"same run", "restarted"}

NoKeys == [t \in {} |-> 0]

ReplayInit ==
  /\ entries = <<>> /\ reserving = <<>> /\ replayCache = NoKeys
  /\ accepted = [t \in Tuples |-> ReplayWindow]
  /\ forgotten = {} /\ replayed = {}

(* allow() shifts hits until the first is inside the window.              *)
FirstFresh(hits) ==
  CHOOSE i \in 1..(Len(hits) + 1) :
    /\ i <= Len(hits) => hits[i] < LimitWindow
    /\ \A j \in 1..(i - 1) : hits[j] >= LimitWindow
Fresh(hits) == SubSeq(hits, FirstFresh(hits), Len(hits))

(* The Map without its other keys.                                         *)
Only(cache, keys) == [t \in keys |-> [cache[t] EXCEPT !.ahead = @ \cap keys]]
CleanupExpired(cache) == Only(cache, {t \in DOMAIN cache : cache[t].age <= ReplayWindow})

(* The first keys go until the size is right: those stay that have fewer   *)
(* than MaxCache keys behind them.                                         *)
Behind(cache, t) == {u \in DOMAIN cache : t \in cache[u].ahead}
TrimCache(cache) ==
  IF Cardinality(DOMAIN cache) > MaxCache
  THEN Only(cache, {t \in DOMAIN cache : Cardinality(Behind(cache, t)) < MaxCache})
  ELSE cache

(* The handler up to its await: the limiter, then the expired entries.     *)
MfaAssertion(t) ==
  /\ Len(reserving) < MaxReserving
  /\ Len(Fresh(entries)) < MaxHits
  /\ entries' = Append(Fresh(entries), 0)
  /\ replayCache' = CleanupExpired(replayCache)
  /\ reserving' = Append(reserving, t)
  /\ UNCHANGED <<accepted, forgotten, replayed>>

Cached(t) == t \in DOMAIN replayCache /\ replayCache[t].age < ReplayWindow

Inserted(t) ==
  [u \in DOMAIN replayCache \cup {t} |->
     IF u = t THEN [age |-> 0, ahead |-> DOMAIN replayCache] ELSE replayCache[u]]
(* Variant: a key the Map has is not set again and keeps its old time.     *)
Reserve_TimeKept(t) == IF t \in DOMAIN replayCache THEN replayCache ELSE Inserted(t)

(* Setting a key the Map has keeps its place.                              *)
Reserve(t) ==
  IF t \in DOMAIN replayCache THEN [replayCache EXCEPT ![t].age = 0] ELSE Inserted(t)

(* The rest of it: looking up and setting are one step.                    *)
CheckAndReserveAssertion(i) ==
  LET t == reserving[i] IN
  /\ reserving' = SubSeq(reserving, 1, i - 1) \o SubSeq(reserving, i + 1, Len(reserving))
  /\ IF Cached(t) THEN UNCHANGED <<replayCache, accepted, forgotten, replayed>>
     ELSE /\ replayCache' = TrimCache(Reserve(t))
          /\ accepted' = [accepted EXCEPT ![t] = 0]
          /\ forgotten' = forgotten \ {t}
          /\ replayed' = replayed \cup
               (IF accepted[t] >= ReplayWindow THEN {}
                ELSE IF t \in forgotten THEN {"restarted"} ELSE {"same run"})
  /\ UNCHANGED entries

Older(age, limit) == IF age < limit THEN age + 1 ELSE limit
Tick ==
  /\ entries' = [i \in DOMAIN entries |-> Older(entries[i], LimitWindow)]
  /\ replayCache' = [t \in DOMAIN replayCache |->
                       [replayCache[t] EXCEPT !.age = Older(@, ReplayWindow + 1)]]
  /\ accepted' = [t \in Tuples |-> Older(accepted[t], ReplayWindow)]
  /\ forgotten' = {t \in forgotten : Older(accepted[t], ReplayWindow) < ReplayWindow}
  /\ UNCHANGED <<reserving, replayed>>

(* The worker restarts: limiter and cache are in memory only.              *)
LimiterLost ==
  /\ entries' = <<>> /\ reserving' = <<>> /\ replayCache' = NoKeys
  /\ forgotten' = {t \in Tuples : accepted[t] < ReplayWindow}
  /\ UNCHANGED <<accepted, replayed>>

ReplayNext ==
  \/ \E t \in Tuples : MfaAssertion(t)
  \/ \E i \in DOMAIN reserving : CheckAndReserveAssertion(i)
  \/ Tick \/ LimiterLost

ReplaySpec == ReplayInit /\ [][ReplayNext]_replayVars

-----------------------------------------------------------------------------
ReplayTypeOK ==
  /\ entries \in Seq(0..LimitWindow) /\ Len(entries) <= MaxHits
  /\ reserving \in Seq(Tuples) /\ Len(reserving) <= MaxReserving
  /\ DOMAIN replayCache \in SUBSET Tuples /\ Cardinality(DOMAIN replayCache) <= MaxCache
  /\ replayCache \in [DOMAIN replayCache -> [age : 0..(ReplayWindow + 1), ahead : SUBSET Tuples]]
  /\ accepted \in [Tuples -> 0..ReplayWindow]
  /\ forgotten \in SUBSET Tuples /\ replayed \in SUBSET Repeats

(* No assertion activates a session twice within the replay window in one  *)
(* run of the worker, though calls overlap at the hash and the cache has   *)
(* an end: the limiter lets in no more assertions than it has room for, so *)
(* none of the window is dropped.  The cache does not outlive the worker.  *)
AssertionOnce == "same run" \notin replayed

(* "WHEN the same tuple is received within 5 minutes THEN the handler SHALL *)
(* return Assertion replay detected", a restart of the worker or not.      *)
DuplicateRejected == replayed = {}
=============================================================================
