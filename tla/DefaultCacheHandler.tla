------------------------ MODULE DefaultCacheHandler ------------------------
(***************************************************************************)
(* The default "use cache" handler: entries in an LRU cache, a map of the  *)
(* sets under way that a get waits for, and the manifest that says when a  *)
(* tag was marked stale or expired.  Calls interleave at their awaits.     *)
(*                                                                         *)
(* Time is counted in ticks, TicksPerMs to the millisecond: timestamps are *)
(* fractional, while updateTags rounds and areTagsExpired truncates.       *)
(***************************************************************************)
EXTENDS LRUOrder, FiniteSets

CONSTANTS
  Tags,
  Sets, Gets,    \* the calls to set and get; each is made once
  ExpireIn,      \* durations.expire of a tag update, in ticks
  TicksPerMs,
  MaxTime,       \* bound: the clock
  MaxUpdates,    \* bound: calls to updateTags
  NoCall, NoEntry

\* Data are the entries: size, tags, timestamp, revalidate (in ticks).
ASSUME EntryAssumption ==
  \A d \in Data : d.tags \subseteq Tags /\ d.timestamp \in 0..MaxTime /\ d.revalidate \in Nat
ASSUME ClockAssumption == TicksPerMs \in Nat \ {0} /\ MaxTime \in Nat /\ ExpireIn \in Nat
ASSUME CallAssumption == NoCall \notin Sets /\ NoEntry \notin Data /\ Sets \cap Gets = {}

Never == -1
Time == 0..(MaxTime + TicksPerMs + ExpireIn)

VARIABLES
  now,
  memoryCache,     \* most recently used first
  pendingSets,
  stale, expired,  \* tagsManifest
  set,             \* what each set does: its phase, key and entry
  resolved,        \* the sets whose pendingPromise is resolved
  get,             \* what each get does: its phase, key, the set it awaits
  result,          \* what each get returned, and the time it did
  updates,
  invalidated,     \* time of the last immediate expiration of a tag, unless a
                   \* later update gave it an expiration time
  overlapped       \* keys of which two sets have overlapped

tagVars == <<stale, expired, updates, invalidated>>
vars == <<now, memoryCache, pendingSets, tagVars, set, resolved, get, result, overlapped>>

Floor(t) == (t \div TicksPerMs) * TicksPerMs
Round(t) == ((2 * t + TicksPerMs) \div (2 * TicksPerMs)) * TicksPerMs

Idle == [phase |-> "unused", key |-> NoEntry, on |-> NoCall]
IdleSet == [phase |-> "unused", key |-> NoEntry, entry |-> NoEntry]
NoResult == [entry |-> NoEntry, stale |-> FALSE]

Init ==
  /\ now = 0 /\ memoryCache = <<>>
  /\ pendingSets = [k \in Keys |-> NoCall]
  /\ stale = [t \in Tags |-> Never] /\ expired = [t \in Tags |-> Never]
  /\ set = [c \in Sets |-> IdleSet] /\ resolved = {}
  /\ get = [c \in Gets |-> Idle] /\ result = [c \in Gets |-> NoResult]
  /\ updates = 0 /\ invalidated = [t \in Tags |-> Never] /\ overlapped = {}

InFlight(k) == {c \in Sets : set[c].key = k /\ set[c].phase = "pending"}

-----------------------------------------------------------------------------
(* set.                                                                    *)

\* Up to `await pendingEntry'.  The entry's timestamp is the time at which its
\* generation started, just before this call.  It stays pending while the entry
\* is awaited and its stream read to measure it.
Registered_Later(c, k) == pendingSets
Registered(c, k) == [pendingSets EXCEPT ![k] = c]

SetStart(c, k) ==
  /\ set[c].phase = "unused"
  /\ \E d \in Data : d.timestamp = now
                     /\ set' = [set EXCEPT ![c] = [phase |-> "pending", key |-> k, entry |-> d]]
  /\ pendingSets' = Registered(c, k)
  /\ overlapped' = IF InFlight(k) = {} THEN overlapped ELSE overlapped \cup {k}
  /\ UNCHANGED <<now, memoryCache, tagVars, resolved, get, result>>

\* The finally block: whoever is registered for the key is removed.
Released(c) == [pendingSets EXCEPT ![set[c].key] = NoCall]
SettledBy_Success(c, stored) == IF stored THEN resolved \cup {c} ELSE resolved
SettledBy(c, stored) == resolved \cup {c}

SetEnd(c, stored) ==
  /\ set[c].phase = "pending"
  /\ set' = [set EXCEPT ![c] = [IdleSet EXCEPT !.phase = "done"]]
  /\ resolved' = SettledBy(c, stored)
  /\ pendingSets' = Released(c)
  /\ UNCHANGED <<now, tagVars, get, result, overlapped>>

\* memoryCache.set throws for an entry of size 0 and ignores one too large.
SetStore(c) ==
  /\ SetEnd(c, TRUE)
  /\ memoryCache' = IF Storable(set[c].entry)
                    THEN Kept(Written(memoryCache, set[c].key, set[c].entry))
                    ELSE memoryCache

\* The stream errors.
SetFail(c) == SetEnd(c, FALSE) /\ UNCHANGED memoryCache

-----------------------------------------------------------------------------
(* get.                                                                    *)
AreTagsExpired(d) ==
  \E t \in d.tags : expired[t] # Never /\ expired[t] <= Floor(now) /\ expired[t] > d.timestamp
AreTagsStale(d) == \E t \in d.tags : stale[t] > d.timestamp

\* From memoryCache.get on: a read is a use, even of an entry that is expired.
Answer(c, k) ==
  LET d == memoryCache[PositionOf(memoryCache, k)].data
  IN /\ memoryCache' = Touched(memoryCache, k)
     /\ result' = [result EXCEPT ![c] =
          IF ~Holds(memoryCache, k) \/ now > d.timestamp + d.revalidate \/ AreTagsExpired(d) THEN NoResult
          ELSE [entry |-> d, stale |-> AreTagsStale(d)]]
     /\ get' = [get EXCEPT ![c] = [Idle EXCEPT !.phase = "answered"]]

GetNow(c, k) ==
  /\ get[c].phase = "unused" /\ pendingSets[k] = NoCall
  /\ Answer(c, k)
  /\ UNCHANGED <<now, pendingSets, tagVars, set, resolved, overlapped>>

GetWait(c, k) ==
  /\ get[c].phase = "unused" /\ pendingSets[k] # NoCall
  /\ get' = [get EXCEPT ![c] = [phase |-> "waiting", key |-> k, on |-> pendingSets[k]]]
  /\ UNCHANGED <<now, memoryCache, pendingSets, tagVars, set, resolved, result, overlapped>>

GetResume(c) ==
  /\ get[c].phase = "waiting" /\ get[c].on \in resolved
  /\ Answer(c, get[c].key)
  /\ UNCHANGED <<now, pendingSets, tagVars, set, resolved, overlapped>>

-----------------------------------------------------------------------------
(* updateTags, for one tag.                                                *)
ExpiredNow_KeepsExisting(t) == IF expired[t] = Never THEN Round(now) ELSE expired[t]
ExpiredNow(t) == Round(now)

ExpiresAt_Rescaled == Round(now) + ExpireIn * 1000
ExpiresAt == Round(now) + ExpireIn

ExpireTag(t) ==
  /\ expired' = [expired EXCEPT ![t] = ExpiredNow(t)]
  /\ invalidated' = [invalidated EXCEPT ![t] = now]
  /\ UNCHANGED stale

\* With durations: stale at once, and expired later if they say when.
MarkStale(t) ==
  /\ stale' = [stale EXCEPT ![t] = Round(now)]
  /\ \/ UNCHANGED <<expired, invalidated>>
     \/ /\ expired' = [expired EXCEPT ![t] = ExpiresAt]
        /\ invalidated' = [invalidated EXCEPT ![t] = Never]

UpdateTags(t) ==
  /\ updates < MaxUpdates /\ updates' = updates + 1
  /\ ExpireTag(t) \/ MarkStale(t)
  /\ UNCHANGED <<now, memoryCache, pendingSets, set, resolved, get, result, overlapped>>

Tick ==
  /\ now < MaxTime /\ now' = now + 1
  /\ UNCHANGED <<memoryCache, pendingSets, tagVars, set, resolved, get, result, overlapped>>

-----------------------------------------------------------------------------
GetStep(c) == GetResume(c) \/ \E k \in Keys : GetNow(c, k) \/ GetWait(c, k)

Next ==
  \/ \E c \in Sets : SetStore(c) \/ SetFail(c) \/ \E k \in Keys : SetStart(c, k)
  \/ \E c \in Gets : GetStep(c)
  \/ \E t \in Tags : UpdateTags(t)
  \/ Tick

\* A pending entry is fulfilled and its stream ends or errors, and awaited promises resume their
\* callers; nothing obliges anyone to make a call.
Fairness ==
  /\ WF_vars(\E c \in Sets : SetStore(c) \/ SetFail(c))
  /\ WF_vars(\E c \in Gets : GetResume(c))

Spec == Init /\ [][Next]_vars
FairSpec == Spec /\ Fairness

-----------------------------------------------------------------------------
(* Properties.                                                             *)

\* Types; the cache stays within its size and holds a key once.
TypeOK ==
  /\ now \in 0..MaxTime
  /\ \A i \in DOMAIN memoryCache : memoryCache[i] \in [key : Keys, data : Data]
  /\ TotalSize(memoryCache) <= MaxSize
  /\ \A i, j \in DOMAIN memoryCache : memoryCache[i].key = memoryCache[j].key => i = j
  /\ pendingSets \in [Keys -> Sets \cup {NoCall}]
  /\ stale \in [Tags -> Time \cup {Never}] /\ expired \in [Tags -> Time \cup {Never}]
  /\ resolved \subseteq Sets

\* An entry whose generation began at least a millisecond before one of its
\* tags was expired is not returned from a millisecond after that on, however
\* the set, the get and the update interleave.
ExpiredNotServed ==
  [][\A c \in Gets :
       get[c].phase # "answered" /\ get'[c].phase = "answered" /\ result'[c].entry # NoEntry =>
         \A t \in result'[c].entry.tags :
           invalidated[t] = Never
           \/ result'[c].entry.timestamp + TicksPerMs > invalidated[t]
           \/ now < invalidated[t] + TicksPerMs]_vars

\* A get made while a set of its key is under way waits, as long as no two
\* sets of that key have ever overlapped.
GetWaitsForSoleSet ==
  [][\A c \in Gets, k \in Keys :
       GetNow(c, k) /\ k \notin overlapped => InFlight(k) = {}]_vars

\* "If a get for the same cache key is called, before the pending entry is
\* complete, the cache handler must wait for the set operation to finish."
GetWaitsForSet ==
  [][\A c \in Gets, k \in Keys : GetNow(c, k) => InFlight(k) = {}]_vars

\* Every get that waits is answered.
GetIsAnswered ==
  \A c \in Gets : get[c].phase = "waiting" ~> get[c].phase = "answered"
=============================================================================
