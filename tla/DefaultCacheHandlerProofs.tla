----------------------- MODULE DefaultCacheHandlerProofs -----------------------
(* Proofs about DefaultCacheHandler, for any keys, entries, tags and calls *)
(* and any granularity of the clock: types, that a get waits for the only  *)
(* set of its key, and that an expired entry is not served.                *)
EXTENDS DefaultCacheHandler, LRUOrderProofs

-----------------------------------------------------------------------------
(* Arithmetic of the clock.                                                *)

\* Integer division by a positive number.
LEMMA DivFacts ==
  ASSUME NEW a \in Nat, NEW b \in Nat \ {0}
  PROVE  a \div b \in Nat /\ (a \div b) * b <= a /\ a < (a \div b) * b + b
PROOF
<1>1. a \div b \in Int /\ a % b \in Int /\ 0 <= a % b /\ a % b < b
  OBVIOUS
<1>2. a = b * (a \div b) + (a % b)
  OBVIOUS
<1>3. a \div b >= 0
  BY <1>1, <1>2
<1> QED BY <1>1, <1>2, <1>3

\* Two different multiples of T are T apart.
LEMMA MultipleStep ==
  ASSUME NEW a \in Int, NEW b \in Int, NEW T \in Nat \ {0}, a * T < b * T
  PROVE  a * T + T <= b * T
PROOF
<1>1. a < b
  OBVIOUS
<1>2. b - a - 1 \in Nat
  BY <1>1
<1>3. (b - a - 1) * T \in Nat
  BY <1>2
<1>4. (b - a - 1) * T = b * T - a * T - T
  OBVIOUS
<1> QED BY <1>3, <1>4

LEMMA ClockFacts ==
  /\ TicksPerMs \in Nat \ {0} /\ MaxTime \in Nat /\ ExpireIn \in Nat
  /\ NoCall \notin Sets /\ NoEntry \notin Data
BY ClockAssumption, CallAssumption

\* Truncation to the millisecond, and rounding, are multiples of it and off by
\* less than one, or by at most a half.
LEMMA FloorFacts ==
  ASSUME NEW t \in Nat
  PROVE  /\ Floor(t) \in Nat /\ Floor(t) <= t /\ t < Floor(t) + TicksPerMs
         /\ \E a \in Int : Floor(t) = a * TicksPerMs
PROOF
<1> DEFINE q == t \div TicksPerMs
<1>1. q \in Nat /\ q * TicksPerMs <= t /\ t < q * TicksPerMs + TicksPerMs
  BY ClockFacts, DivFacts
<1>2. Floor(t) = q * TicksPerMs
  BY DEF Floor
<1> HIDE DEF q
<1>3. q * TicksPerMs \in Nat
  BY <1>1, ClockFacts
<1> QED BY <1>1, <1>2, <1>3

LEMMA RoundFacts ==
  ASSUME NEW t \in Nat
  PROVE  /\ Round(t) \in Nat
         /\ 2 * Round(t) <= 2 * t + TicksPerMs
         /\ 2 * t < 2 * Round(t) + TicksPerMs
         /\ \E a \in Int : Round(t) = a * TicksPerMs
PROOF
<1> DEFINE T == TicksPerMs
           q == (2 * t + T) \div (2 * T)
<1>1. T \in Nat \ {0} /\ 2 * t + T \in Nat /\ 2 * T \in Nat \ {0}
  BY ClockFacts
<1>2. q \in Nat /\ q * (2 * T) <= 2 * t + T /\ 2 * t + T < q * (2 * T) + 2 * T
  BY <1>1, DivFacts
<1>3. Round(t) = q * T
  BY DEF Round
<1> HIDE DEF q, T
<1>4. q * T \in Nat /\ q * (2 * T) = 2 * (q * T)
  BY <1>1, <1>2
<1>5. 2 * Round(t) <= 2 * t + T /\ 2 * t < 2 * Round(t) + T
  <2>1. t \in Nat /\ T \in Nat
    BY <1>1
  <2> QED BY <1>2, <1>3, <1>4, <2>1
<1> QED BY <1>2, <1>3, <1>4, <1>5 DEF T

\* A time that is later than another by what truncation and rounding can hide
\* is later than it after them, too: a full millisecond after an update, its
\* rounded time is not above the truncated clock.
LEMMA RoundedIsPast ==
  ASSUME NEW at \in Nat, NEW t \in Nat, at + TicksPerMs <= t
  PROVE  Round(at) <= Floor(t)
PROOF
<1> DEFINE T == TicksPerMs
<1>1. T \in Nat \ {0}
  BY ClockFacts
<1> SUFFICES ASSUME Floor(t) < Round(at) PROVE FALSE
  BY FloorFacts, RoundFacts
<1>2. PICK a \in Int : Floor(t) = a * T
  BY FloorFacts
<1>3. PICK b \in Int : Round(at) = b * T
  BY RoundFacts
<1>4. Floor(t) + T <= Round(at)
  BY <1>1, <1>2, <1>3, MultipleStep
<1>5. t < Floor(t) + T /\ 2 * Round(at) <= 2 * at + T /\ Floor(t) \in Nat /\ Round(at) \in Nat
  BY FloorFacts, RoundFacts
<1> HIDE DEF T
<1>6. at + T <= t
  BY DEF T
<1> QED BY <1>1, <1>4, <1>5, <1>6
-----------------------------------------------------------------------------
(* The invariant.                                                          *)
CacheInv ==
  /\ memoryCache \in Seq(Entry) /\ OnePerKey(memoryCache) /\ TotalSize(memoryCache) <= MaxSize

SetType ==
  /\ set \in [Sets -> [phase : {"unused", "pending", "done"},
                       key : Keys \cup {NoEntry}, entry : Data \cup {NoEntry}]]
  /\ \A c \in Sets : set[c].phase = "pending" => set[c].key \in Keys /\ set[c].entry \in Data

GetType ==
  /\ get \in [Gets -> [phase : {"unused", "waiting", "answered"},
                       key : Keys \cup {NoEntry}, on : Sets \cup {NoCall}]]
  /\ \A c \in Gets : get[c].phase = "waiting" => get[c].key \in Keys
  /\ result \in [Gets -> [entry : Data \cup {NoEntry}, stale : BOOLEAN]]

ManifestType ==
  /\ now \in 0..MaxTime
  /\ stale \in [Tags -> Time \cup {Never}] /\ expired \in [Tags -> Time \cup {Never}]
  /\ invalidated \in [Tags -> (0..MaxTime) \cup {Never}]

PendingType == pendingSets \in [Keys -> Sets \cup {NoCall}] /\ resolved \subseteq Sets

\* What the manifest says of a tag that was expired at once is the rounded
\* time of that update.
ExpiryRecorded == \A t \in Tags : invalidated[t] # Never => expired[t] = Round(invalidated[t])

\* A set that no other has overlapped is the one registered for its key.
SoleSetRegistered ==
  \A k \in Keys \ overlapped : \A c \in InFlight(k) : InFlight(k) = {c} /\ pendingSets[k] = c

IInv ==
  CacheInv /\ SetType /\ GetType /\ ManifestType /\ PendingType /\ ExpiryRecorded /\ SoleSetRegistered

LEMMA TimeFacts ==
  ASSUME NEW t \in 0..MaxTime
  PROVE  /\ Round(t) \in Time /\ Round(t) + ExpireIn \in Time /\ t \in Nat
         /\ Never \notin Time
PROOF
<1>1. t \in Nat /\ TicksPerMs \in Nat /\ MaxTime \in Nat /\ ExpireIn \in Nat
  BY ClockFacts
<1>2. Round(t) \in Nat /\ 2 * Round(t) <= 2 * t + TicksPerMs
  BY <1>1, RoundFacts
<1>3. Round(t) <= MaxTime + TicksPerMs
  BY <1>1, <1>2
<1> QED BY <1>1, <1>2, <1>3 DEF Time, Never

\* The empty cache.
LEMMA EmptyFacts == <<>> \in Seq(Entry) /\ OnePerKey(<<>>) /\ TotalSize(<<>>) = 0
PROOF
<1>1. <<>> \in Seq(Entry) /\ Len(<<>>) = 0
  OBVIOUS
<1>2. TotalSize(<<>>) = 0
  BY <1>1, SizeUpToDef DEF TotalSize
<1> QED BY <1>1, <1>2 DEF OnePerKey

LEMMA InitInv == Init => IInv
PROOF
<1> SUFFICES ASSUME Init PROVE IInv
  OBVIOUS
<1> USE DEF Init
<1>1. CacheInv
  BY EmptyFacts, MaxSizeIsNat DEF CacheInv
<1>2. SetType
  BY DEF SetType, IdleSet
<1>3. GetType
  BY DEF GetType, Idle, NoResult
<1>4. ManifestType
  BY ClockFacts DEF ManifestType
<1>5. PendingType
  BY DEF PendingType
<1>6. ExpiryRecorded
  BY DEF ExpiryRecorded
<1>7. SoleSetRegistered
  BY DEF SoleSetRegistered, InFlight, IdleSet
<1> QED BY <1>1, <1>2, <1>3, <1>4, <1>5, <1>6, <1>7 DEF IInv
-----------------------------------------------------------------------------
(* Steps.                                                                  *)
LEMMA SetStartInv ==
  ASSUME IInv, NEW c \in Sets, NEW k \in Keys, SetStart(c, k)
  PROVE  IInv'
PROOF
<1> USE DEF SetStart, Registered, tagVars
<1>1. CacheInv' /\ GetType' /\ ManifestType' /\ ExpiryRecorded'
  BY DEF IInv, CacheInv, GetType, ManifestType, ExpiryRecorded
<1>2. PICK d \in Data : set' = [set EXCEPT ![c] = [phase |-> "pending", key |-> k, entry |-> d]]
  OBVIOUS
<1>3. SetType'
  BY <1>2 DEF IInv, SetType
<1>4. PendingType'
  BY DEF IInv, PendingType
<1>5. SoleSetRegistered'
  <2> SUFFICES ASSUME NEW kk \in Keys \ overlapped', NEW e \in InFlight(kk)'
               PROVE  InFlight(kk)' = {e} /\ pendingSets'[kk] = e
    BY DEF SoleSetRegistered
  <2>1. \A x \in Sets : set'[x] = IF x = c THEN [phase |-> "pending", key |-> k, entry |-> d]
                                   ELSE set[x]
    BY <1>2 DEF IInv, SetType
  <2>2. InFlight(kk)' = IF kk = k THEN InFlight(k) \cup {c} ELSE InFlight(kk)
    BY <2>1 DEF InFlight
  <2>3. kk \notin overlapped /\ (kk = k => InFlight(k) = {})
    OBVIOUS
  <2>4. pendingSets'[kk] = IF kk = k THEN c ELSE pendingSets[kk]
    BY DEF IInv, PendingType
  <2> QED BY <2>2, <2>3, <2>4 DEF IInv, SoleSetRegistered
<1> QED BY <1>1, <1>3, <1>4, <1>5 DEF IInv

\* What the two ways for a set to end have in common.
LEMMA SetEndInv ==
  ASSUME IInv, NEW c \in Sets, NEW stored, SetEnd(c, stored), CacheInv'
  PROVE  IInv'
PROOF
<1> USE DEF SetEnd, SettledBy, Released, tagVars
<1>1. GetType' /\ ManifestType' /\ ExpiryRecorded'
  BY DEF IInv, GetType, ManifestType, ExpiryRecorded
<1>2. \A x \in Sets : set'[x] = IF x = c THEN [IdleSet EXCEPT !.phase = "done"] ELSE set[x]
  BY DEF IInv, SetType
<1>3. SetType'
  BY DEF IInv, SetType, IdleSet
<1>4. PendingType'
  BY DEF IInv, PendingType
<1>5. SoleSetRegistered'
  <2> DEFINE kc == set[c].key
  <2> SUFFICES ASSUME NEW kk \in Keys \ overlapped, NEW e \in InFlight(kk)'
               PROVE  InFlight(kk)' = {e} /\ pendingSets'[kk] = e
    BY DEF SoleSetRegistered
  <2>1. c \in InFlight(kc) /\ kc \in Keys
    BY DEF IInv, SetType, InFlight
  <2>2. InFlight(kk)' = InFlight(kk) \ {c}
    BY <1>2 DEF InFlight, IdleSet
  <2>3. e \in InFlight(kk) /\ InFlight(kk) = {e} /\ pendingSets[kk] = e /\ e # c
    BY <2>2 DEF IInv, SoleSetRegistered
  <2>4. kk # kc
    BY <2>1, <2>3
  <2> QED BY <2>2, <2>3, <2>4 DEF IInv, PendingType
<1> QED BY <1>1, <1>3, <1>4, <1>5 DEF IInv

LEMMA SetStoreInv ==
  ASSUME IInv, NEW c \in Sets, SetStore(c)
  PROVE  IInv'
PROOF
<1> DEFINE w == Written(memoryCache, set[c].key, set[c].entry)
<1>1. memoryCache \in Seq(Entry) /\ set[c].key \in Keys /\ set[c].entry \in Data
  BY DEF IInv, CacheInv, SetType, SetStore, SetEnd
<1>2. w \in Seq(Entry) /\ OnePerKey(w)
  BY <1>1, WrittenFacts DEF IInv, CacheInv
<1>3. memoryCache' = Kept(w) \/ memoryCache' = memoryCache
  BY DEF SetStore
<1> HIDE DEF w
<1>4. CacheInv'
  BY <1>2, <1>3, KeptFacts DEF IInv, CacheInv
<1> QED BY <1>4, SetEndInv DEF SetStore

LEMMA SetFailInv ==
  ASSUME IInv, NEW c \in Sets, SetFail(c)
  PROVE  IInv'
PROOF
<1>1. CacheInv'
  BY DEF SetFail, IInv, CacheInv
<1> QED BY <1>1, SetEndInv DEF SetFail

\* What a get answers with is an entry of the cache, fresh and not expired.
LEMMA AnswerFacts ==
  ASSUME IInv, NEW c \in Gets, NEW k \in Keys, Answer(c, k)
  PROVE  /\ CacheInv' /\ GetType'
         /\ \A x \in Gets \ {c} : get'[x] = get[x] /\ result'[x] = result[x]
         /\ result'[c].entry # NoEntry =>
              result'[c].entry \in Data /\ ~AreTagsExpired(result'[c].entry)
PROOF
<1> DEFINE p == PositionOf(memoryCache, k)
           d == memoryCache[p].data
           r == IF ~Holds(memoryCache, k) \/ now > d.timestamp + d.revalidate \/ AreTagsExpired(d)
                THEN NoResult ELSE [entry |-> d, stale |-> AreTagsStale(d)]
<1>1. memoryCache \in Seq(Entry)
  BY DEF IInv, CacheInv
<1>2. CacheInv'
  BY <1>1, TouchedFacts DEF IInv, CacheInv, Answer
<1>3. Holds(memoryCache, k) => d \in Data
  BY <1>1, PositionFacts, EntryAt
<1>4. /\ result' = [result EXCEPT ![c] = r]
      /\ get' = [get EXCEPT ![c] = [Idle EXCEPT !.phase = "answered"]]
  BY DEF Answer
<1>5. /\ r = NoResult \/ (Holds(memoryCache, k) /\ ~AreTagsExpired(d) /\ r.entry = d)
      /\ r.entry \in Data \cup {NoEntry} /\ r \in [entry : Data \cup {NoEntry}, stale : BOOLEAN]
  <2>1. AreTagsStale(d) \in BOOLEAN
    BY DEF AreTagsStale
  <2>2. CASE r = NoResult
    BY <2>2 DEF NoResult
  <2>3. CASE r # NoResult
    <3>1. Holds(memoryCache, k) /\ ~AreTagsExpired(d) /\ r = [entry |-> d, stale |-> AreTagsStale(d)]
      BY <2>3
    <3> QED BY <3>1, <2>1, <1>3
  <2> QED BY <2>2, <2>3
<1> HIDE DEF r, d
<1>6. GetType'
  BY <1>4, <1>5 DEF IInv, GetType, Idle
<1>7. result'[c] = r /\ \A x \in Gets \ {c} : get'[x] = get[x] /\ result'[x] = result[x]
  BY <1>4 DEF IInv, GetType
<1>8. r.entry # NoEntry => r.entry \in Data /\ ~AreTagsExpired(r.entry)
  BY <1>3, <1>5 DEF NoResult
<1> QED BY <1>2, <1>6, <1>7, <1>8

LEMMA GetInv ==
  ASSUME IInv, NEW c \in Gets, GetStep(c)
  PROVE  IInv'
PROOF
<1>1. ASSUME NEW k \in Keys, Answer(c, k),
             UNCHANGED <<now, pendingSets, tagVars, set, resolved, overlapped>>
      PROVE  IInv'
  <2>1. CacheInv' /\ GetType'
    BY <1>1, AnswerFacts
  <2>2. SetType' /\ ManifestType' /\ PendingType' /\ ExpiryRecorded'
    BY <1>1 DEF IInv, SetType, ManifestType, PendingType, ExpiryRecorded, tagVars
  <2>3. SoleSetRegistered'
    BY <1>1 DEF IInv, SoleSetRegistered, InFlight
  <2> QED BY <2>1, <2>2, <2>3 DEF IInv
<1>2. CASE GetResume(c)
  <2>1. get[c].key \in Keys
    BY <1>2 DEF IInv, GetType, GetResume
  <2> QED BY <1>1, <1>2, <2>1 DEF GetResume
<1>3. ASSUME NEW k \in Keys, GetNow(c, k) PROVE IInv'
  BY <1>1, <1>3 DEF GetNow
<1>4. ASSUME NEW k \in Keys, GetWait(c, k) PROVE IInv'
  <2> USE <1>4 DEF GetWait
  <2>1. pendingSets[k] \in Sets
    BY DEF IInv, PendingType
  <2>2. GetType'
    BY <2>1 DEF IInv, GetType
  <2>3. CacheInv' /\ SetType' /\ ManifestType' /\ PendingType' /\ ExpiryRecorded'
    BY DEF IInv, CacheInv, SetType, ManifestType, PendingType, ExpiryRecorded, tagVars
  <2>4. SoleSetRegistered'
    BY DEF IInv, SoleSetRegistered, InFlight
  <2> QED BY <2>2, <2>3, <2>4 DEF IInv
<1> QED BY <1>2, <1>3, <1>4 DEF GetStep

LEMMA UpdateTagsInv ==
  ASSUME IInv, NEW t \in Tags, UpdateTags(t)
  PROVE  IInv'
PROOF
<1>1. CacheInv' /\ SetType' /\ GetType' /\ PendingType'
  BY DEF IInv, CacheInv, SetType, GetType, PendingType, UpdateTags
<1>2. SoleSetRegistered'
  BY DEF IInv, SoleSetRegistered, InFlight, UpdateTags
<1>3. now \in 0..MaxTime /\ now \in Nat
  BY ClockFacts DEF IInv, ManifestType
<1>4. Round(now) \in Time /\ Round(now) + ExpireIn \in Time /\ Never \notin Nat
  BY <1>3, TimeFacts DEF Never
<1>5. ManifestType' /\ ExpiryRecorded'
  <2>1. CASE ExpireTag(t)
    <3>1. ManifestType'
      BY <1>3, <1>4, <2>1 DEF ExpireTag, ExpiredNow, UpdateTags, IInv, ManifestType
    <3>2. ExpiryRecorded'
      BY <1>3, <1>4, <2>1 DEF ExpireTag, ExpiredNow, UpdateTags, IInv, ManifestType, ExpiryRecorded
    <3> QED BY <3>1, <3>2
  <2>2. CASE MarkStale(t)
    <3>1. ManifestType'
      BY <1>3, <1>4, <2>2 DEF MarkStale, ExpiresAt, UpdateTags, IInv, ManifestType
    <3>2. ExpiryRecorded'
      BY <1>3, <1>4, <2>2 DEF MarkStale, ExpiresAt, UpdateTags, IInv, ManifestType, ExpiryRecorded
    <3> QED BY <3>1, <3>2
  <2> QED BY <2>1, <2>2 DEF UpdateTags
<1> QED BY <1>1, <1>2, <1>5 DEF IInv

LEMMA TickInv ==
  ASSUME IInv, Tick
  PROVE  IInv'
PROOF
<1>1. CacheInv' /\ SetType' /\ GetType' /\ PendingType' /\ ExpiryRecorded'
  BY DEF IInv, CacheInv, SetType, GetType, PendingType, ExpiryRecorded, Tick, tagVars
<1>2. SoleSetRegistered'
  BY DEF IInv, SoleSetRegistered, InFlight, Tick
<1>3. ManifestType'
  BY ClockFacts DEF IInv, ManifestType, Tick, tagVars
<1> QED BY <1>1, <1>2, <1>3 DEF IInv

LEMMA NextInv == IInv /\ [Next]_vars => IInv'
PROOF
<1> SUFFICES ASSUME IInv, [Next]_vars PROVE IInv'
  OBVIOUS
<1>1. CASE UNCHANGED vars
  <2>1. CacheInv' /\ SetType' /\ GetType' /\ ManifestType' /\ PendingType' /\ ExpiryRecorded'
    BY <1>1 DEF IInv, vars, tagVars, CacheInv, SetType, GetType, ManifestType, PendingType, ExpiryRecorded
  <2>2. SoleSetRegistered'
    BY <1>1 DEF IInv, vars, SoleSetRegistered, InFlight
  <2> QED BY <2>1, <2>2 DEF IInv
<1> QED BY <1>1, SetStartInv, SetStoreInv, SetFailInv, GetInv, UpdateTagsInv, TickInv DEF Next
-----------------------------------------------------------------------------
(* Theorems.                                                               *)
LEMMA Invariance == Spec => []IInv
PROOF
<1>1. IInv /\ [Next]_vars => IInv'
  BY NextInv
<1> QED BY InitInv, <1>1, PTL DEF Spec

\* default.ts: whatever the calls to get, set and updateTags do and however
\* they interleave at their awaits, the cache stays within its size and holds
\* a key once, and every time in the manifest is one that an update can record.
THEOREM Types == Spec => []TypeOK
PROOF
<1>1. IInv => TypeOK
  <2> SUFFICES ASSUME IInv PROVE TypeOK
    OBVIOUS
  <2>1. memoryCache \in Seq(Entry) /\ DOMAIN memoryCache = 1..Len(memoryCache)
    BY DomainIsInterval DEF IInv, CacheInv
  <2>2. \A i \in DOMAIN memoryCache : memoryCache[i] \in [key : Keys, data : Data]
    BY <2>1, EntryAt DEF Entry
  <2> QED BY <2>1, <2>2 DEF IInv, CacheInv, ManifestType, PendingType, TypeOK, OnePerKey
<1> QED BY <1>1, Invariance, PTL

\* default.ts, get: a call that goes straight to the cache does so while no
\* set of its key is under way, unless two sets of the key have overlapped.
THEOREM SoleSetIsAwaited == Spec => GetWaitsForSoleSet
PROOF
<1>1. IInv => \A c \in Gets, k \in Keys :
                GetNow(c, k) /\ k \notin overlapped => InFlight(k) = {}
  <2> SUFFICES ASSUME IInv, NEW c \in Gets, NEW k \in Keys,
                      GetNow(c, k), k \notin overlapped
               PROVE  InFlight(k) = {}
    OBVIOUS
  <2>1. pendingSets[k] \notin Sets
    BY ClockFacts DEF GetNow
  <2>2. \A c2 \in InFlight(k) : pendingSets[k] = c2 /\ c2 \in Sets
    BY DEF IInv, SoleSetRegistered, InFlight
  <2> QED BY <2>1, <2>2
<1> QED BY <1>1, Invariance, PTL DEF GetWaitsForSoleSet

\* What an answer tells of the tags of its entry.
LEMMA NotExpired ==
  ASSUME IInv, NEW d \in Data, ~AreTagsExpired(d), NEW t \in d.tags, invalidated[t] # Never
  PROVE  d.timestamp + TicksPerMs > invalidated[t] \/ now < invalidated[t] + TicksPerMs
PROOF
<1> DEFINE at == invalidated[t]
<1>1. d.timestamp \in Nat /\ t \in Tags
  BY EntryAssumption, ClockFacts
<1>2. at \in Nat /\ now \in Nat /\ TicksPerMs \in Nat
  BY <1>1, ClockFacts DEF IInv, ManifestType
<1>3. expired[t] = Round(at)
  BY <1>1 DEF IInv, ExpiryRecorded
<1> HIDE DEF at
<1>4. Round(at) \in Nat /\ Round(at) # Never /\ 2 * at < 2 * Round(at) + TicksPerMs
  <2>1. Round(at) \in Nat /\ 2 * at < 2 * Round(at) + TicksPerMs
    BY <1>2, RoundFacts
  <2> QED BY <2>1 DEF Never
<1>5. Floor(now) \in Nat
  BY <1>2, FloorFacts
<1>6. Floor(now) < Round(at) \/ Round(at) <= d.timestamp
  BY <1>1, <1>3, <1>4, <1>5 DEF AreTagsExpired
<1>7. CASE Floor(now) < Round(at)
  BY <1>2, <1>4, <1>5, <1>7, RoundedIsPast DEF at
<1>8. CASE Round(at) <= d.timestamp
  BY <1>1, <1>2, <1>4, <1>8 DEF at
<1> QED BY <1>6, <1>7, <1>8

\* default.ts, get and updateTags: an entry generated a millisecond or more
\* before one of its tags was expired is never returned from a millisecond
\* after that on, whatever the rounding of the manifest's times.
THEOREM ExpiredIsGone == Spec => ExpiredNotServed
PROOF
<1> DEFINE Served(c) ==
      get[c].phase # "answered" /\ get'[c].phase = "answered" /\ result'[c].entry # NoEntry =>
        \A t \in result'[c].entry.tags :
          invalidated[t] = Never
          \/ result'[c].entry.timestamp + TicksPerMs > invalidated[t]
          \/ now < invalidated[t] + TicksPerMs
<1>1. ASSUME IInv, [Next]_vars, NEW c \in Gets,
             get[c].phase # "answered", get'[c].phase = "answered", result'[c].entry # NoEntry
      PROVE  result'[c].entry \in Data /\ ~AreTagsExpired(result'[c].entry)
  <2>1. get' # get
    BY <1>1
  <2>2. PICK x \in Gets : GetStep(x)
    BY <1>1, <2>1 DEF Next, vars, SetStore, SetFail, SetEnd, SetStart, UpdateTags, Tick
  <2>3. CASE \E k \in Keys : Answer(x, k)
    <3>1. x = c
      BY <1>1, <2>3, AnswerFacts
    <3> QED BY <1>1, <2>3, <3>1, AnswerFacts
  <2>4. CASE \E k \in Keys : GetWait(x, k)
    BY <1>1, <2>4 DEF GetWait, IInv, GetType
  <2>5. GetResume(x) => \E k \in Keys : Answer(x, k)
    BY <1>1 DEF GetResume, IInv, GetType
  <2> QED BY <2>2, <2>3, <2>4, <2>5 DEF GetStep, GetNow
<1>2. IInv /\ [Next]_vars => \A c \in Gets : Served(c)
  BY <1>1, NotExpired
<1> QED BY <1>2, Invariance, PTL DEF Spec, ExpiredNotServed
=============================================================================
