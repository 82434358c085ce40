--------------------------- MODULE ResponseCache ---------------------------
(***************************************************************************)
(* The response cache of a route, for one path: requests that are batched, *)
(* answered from the incremental cache while a stale entry is regenerated, *)
(* on-demand revalidations, and the tags of the path, which are expired or *)
(* marked as stale while all of that goes on.                              *)
(*                                                                         *)
(* Content is the version of the data it was rendered from; on the disk it *)
(* stands for the HTML or the body, which is the file that is read first   *)
(* and gives the time, and the other files are taken to go with it.  The   *)
(* clock counts the changes of the tags, and the times at which entries    *)
(* age: two of these do not fall into one millisecond.  The cache is that  *)
(* of a server of its own, not that of the minimal mode.                   *)
(***************************************************************************)
EXTENDS Integers

CONSTANTS
  Requests,                \* those that wait at a time
  Kinds,                   \* of them
  Revalidate, RetryAfter,  \* the cache control's periods: of the page, and of
                           \* an entry that could not be regenerated
  MaxVersion, MaxTime      \* bounds: changes of the data, ticks

ASSUME ResponseCacheAssumption ==
  /\ Kinds \subseteq {"get", "prefetch", "onDemand"}
  /\ Revalidate \in Nat /\ RetryAfter \in Nat /\ MaxVersion \in Nat /\ MaxTime \in Nat

VARIABLES
  now,
  source,               \* the version of the data
  expiredAt, staleAt,   \* in the tags manifest
  memory, disk,         \* what the incremental cache has there: at most one entry
  period,               \* its cacheControl.revalidate
  job,                  \* the batched calls that are under way, by their key
  generation,           \* the calls of handleRevalidate, by who started them
  awaited,              \* the generations a job awaits: at most one
  waitsFor,             \* the jobs whose promise a request awaits: at most one
  owed,                 \* histories: what content the last expiration asks for,
                        \* and whether that is certain,
  atLeast,              \* what version a request that waits asks for,
  hits,                 \* the gets that have begun when the cache had an entry
                        \* that it still has, or that is being read,
  outdated              \* the requests that got an older version than asked for

tagVars == <<now, source, expiredAt, staleAt, owed>>
cacheVars == <<memory, disk, period>>
jobVars == <<job, generation, awaited>>
requestVars == <<waitsFor, atLeast, outdated>>
vars == <<tagVars, cacheVars, jobVars, requestVars, hits>>

\* The keys of getBatcher.  A dynamic RSC request calls revalidate itself.
Jobs == {"get", "onDemand"}
Generations == Jobs \cup {"dynamic"}
JobOf(kind) == IF kind = "prefetch" THEN "get" ELSE kind

Versions == 0 .. MaxVersion
Entries == [version : Versions, modified : 0 .. MaxTime]

\* What may be missing is a set of at most one: entries, and the versions that
\* are answered.
NoJob == [phase |-> "none", prefetch |-> FALSE, read |-> {}, answer |-> {}]
NoGeneration == [phase |-> "none", previous |-> {}, outcome |-> {}]
VersionsOf(found) == {e.version : e \in found}

Init ==
  /\ now = 0 /\ source = 0 /\ expiredAt = 0 /\ staleAt = 0
  /\ disk \in {{}, {[version |-> 0, modified |-> 0]}} /\ memory \in {{}, disk}
  /\ period = Revalidate
  /\ job = [j \in Jobs |-> NoJob] /\ generation = [j \in Generations |-> NoGeneration]
  /\ awaited = [j \in Jobs |-> {}]
  /\ waitsFor = [r \in Requests |-> {}] /\ atLeast = [r \in Requests |-> 0]
  /\ hits = {} /\ outdated = {}
  /\ owed = [version |-> 0, certain |-> TRUE]

-----------------------------------------------------------------------------
(* The incremental cache: IncrementalCache and FileSystemCache.            *)
AreTagsExpired_Never(e) == FALSE
AreTagsExpired(e) == expiredAt > e.modified
AreTagsStale(e) == staleAt > e.modified

NotExpired(found) == {e \in found : ~AreTagsExpired(e)}
CacheGet == NotExpired(IF memory # {} THEN memory ELSE disk)
IsStale(e) == now > e.modified + period \/ AreTagsStale(e)

\* The entry is stamped when it is set.  It is then written to the disk.
Stamped_Rounded(content) == {[version |-> v, modified |-> now + 1] : v \in content}
Stamped(content) == {[version |-> v, modified |-> now] : v \in content}
CacheSet(content, revalidate) ==
  memory' = Stamped(content) /\ period' = revalidate /\ UNCHANGED disk

-----------------------------------------------------------------------------
(* Batching.  A generation under way is joined, whoever started it.        *)
PendingGenerations_Own(j) == {}
PendingGenerations(j) == {p \in Generations : generation[p].phase # "none"}

\* this.revalidate, by the job j, with the entry it has got.
Regenerate(j, previous) ==
  IF PendingGenerations(j) # {}
  THEN awaited' = [awaited EXCEPT ![j] = PendingGenerations(j)] /\ UNCHANGED generation
  ELSE /\ awaited' = [awaited EXCEPT ![j] = {j}]
       /\ generation' = [generation EXCEPT ![j] =
            [phase |-> "scheduled", previous |-> previous, outcome |-> {}]]

\* The version the answer must have at least: that of the data when the tag
\* expired, for a request on demand, unless a render may have read it, that of now.
NothingRead == \A p \in Generations : generation[p].phase \in {"none", "scheduled"}
AskedFor(kind) ==
  IF kind = "onDemand" /\ NothingRead THEN source
  ELSE IF owed.certain THEN owed.version ELSE 0
WillHit(j) == j = "get" /\ CacheGet # {} /\ job[j].phase \in {"none", "scheduled"}
Outdated(answer, version) == \E v \in answer : v < version

\* A request joins the job of its key, whose promise may be resolved already, or
\* starts it: its work is scheduled.
Begin(r, kind) ==
  LET j == JobOf(kind) IN
  /\ waitsFor[r] = {}
  /\ IF job[j].answer = {}
     THEN /\ waitsFor' = [waitsFor EXCEPT ![r] = {j}]
          /\ atLeast' = [atLeast EXCEPT ![r] = AskedFor(kind)]
          /\ hits' = IF WillHit(j) THEN hits \cup {r} ELSE hits
          /\ UNCHANGED outdated
     ELSE /\ outdated' = outdated \cup {q \in {r} : Outdated(job[j].answer, AskedFor(kind))}
          /\ UNCHANGED <<waitsFor, atLeast, hits>>
  /\ IF job[j].phase # "none" THEN UNCHANGED jobVars
     ELSE /\ job' = [job EXCEPT ![j] = [NoJob EXCEPT !.phase = "scheduled", !.prefetch = kind = "prefetch"]]
          /\ UNCHANGED <<generation, awaited>>
  /\ UNCHANGED <<tagVars, cacheVars>>

\* The promises of the jobs in J are resolved or rejected, once.
Respond(J, answer) ==
  LET answered == {r \in Requests : waitsFor[r] \cap J # {}} IN
  /\ waitsFor' = [r \in Requests |-> waitsFor[r] \ J]
  /\ atLeast' = [r \in Requests |-> IF r \in answered THEN 0 ELSE atLeast[r]]
  /\ outdated' = outdated \cup {r \in answered : Outdated(answer, atLeast[r])}

\* Nothing in memory: the file is read, if there is one.
ReadFile(j) ==
  /\ job[j].phase = "scheduled" /\ memory = {}
  /\ job' = [job EXCEPT ![j].phase = "reading", ![j].read = disk]
  /\ UNCHANGED <<tagVars, cacheVars, generation, awaited, requestVars, hits>>

\* Its time is that of the file which is there by then.  If newer content has been
\* written meanwhile, the content that was read passes for as new: what the gets
\* ask for cannot be kept any more.
Dated(read) == {[version |-> e.version, modified |-> d.modified] : e \in read, d \in disk}
Overtaken(read) == \E e \in read, d \in disk : e.version < d.version
StatFile(j) ==
  LET overtaken == Overtaken(job[j].read) IN
  /\ job[j].phase = "reading" /\ job[j].read # {}
  /\ job' = [job EXCEPT ![j].phase = "dated", ![j].read = Dated(job[j].read)]
  /\ owed' = [owed EXCEPT !.certain = owed.certain /\ ~overtaken]
  /\ atLeast' = [r \in Requests |->
       IF overtaken /\ waitsFor[r] = {"get"} THEN 0 ELSE atLeast[r]]
  /\ UNCHANGED <<now, source, expiredAt, staleAt, cacheVars, generation, awaited, waitsFor,
                 outdated, hits>>

\* A cached response is the answer at once, unless it is revalidated on demand.
CachedAnswer_OnDemand(j, hit) == VersionsOf(hit)
CachedAnswer_Fresh(j, hit) == IF j = "onDemand" THEN {} ELSE VersionsOf({e \in hit : ~IsStale(e)})
CachedAnswer(j, hit) == IF j = "onDemand" THEN {} ELSE VersionsOf(hit)

\* The rest of handleGet: a stale response is regenerated, except for a prefetch.
AnswerOrRegenerate(j, hit) ==
  LET answer == CachedAnswer(j, hit) IN
  /\ IF answer = {} THEN UNCHANGED requestVars ELSE Respond({j}, answer)
  /\ IF answer # {} /\ (job[j].prefetch \/ \A e \in hit : ~IsStale(e))
     THEN job' = [job EXCEPT ![j] = NoJob] /\ UNCHANGED <<generation, awaited>>
     ELSE /\ job' = [job EXCEPT ![j] = [NoJob EXCEPT !.phase = "regenerating", !.answer = answer]]
          /\ Regenerate(j, hit)

FoundInMemory(j) ==
  /\ job[j].phase = "scheduled" /\ memory # {} /\ AnswerOrRegenerate(j, NotExpired(memory))
  /\ hits' = {r \in hits : waitsFor'[r] # {}} /\ UNCHANGED <<tagVars, cacheVars>>

\* The other files have been read.  The entry replaces what is in memory by now,
\* even if it has expired.
FileWasRead(j) ==
  LET hit == NotExpired(job[j].read) IN
  /\ job[j].phase = "dated" /\ AnswerOrRegenerate(j, hit)
  /\ memory' = job[j].read
  /\ hits' = IF hit = {} /\ job["get"].phase = "scheduled" THEN {}
             ELSE {r \in hits : waitsFor'[r] # {}}
  /\ UNCHANGED <<tagVars, disk, period>>

\* One of the files is not there, or cannot be read or parsed.
ReadFails(j) ==
  /\ job[j].phase \in {"reading", "dated"} /\ AnswerOrRegenerate(j, {})
  /\ hits' = IF j = "get" THEN {} ELSE hits
  /\ UNCHANGED <<tagVars, cacheVars>>

HandleGet(j) ==
  ReadFile(j) \/ StatFile(j) \/ FileWasRead(j) \/ ReadFails(j) \/ FoundInMemory(j)

\* A dynamic RSC request has found an entry that was stale then, and calls
\* revalidate without it, on a later tick: the entry may be fresh by now, or gone.
\* It does not wait for the generation.
RevalidateStale ==
  /\ now > 0 /\ PendingGenerations("dynamic") = {}
  /\ generation' = [generation EXCEPT !["dynamic"].phase = "scheduled"]
  /\ UNCHANGED <<tagVars, cacheVars, job, awaited, requestVars, hits>>

-----------------------------------------------------------------------------
(* handleRevalidate.  The generator reads the data at some point, and then *)
(* gives a response, which may or may not be cached, nothing, or an error. *)
ReadData(j) ==
  /\ generation[j].phase = "scheduled"
  /\ generation' = [generation EXCEPT ![j].phase = "rendered", ![j].outcome = {source}]
  /\ UNCHANGED <<tagVars, cacheVars, job, awaited, requestVars, hits>>

Finish(j, phase, outcome) ==
  /\ generation[j].phase = "rendered"
  /\ generation' = [generation EXCEPT ![j].phase = phase, ![j].outcome = outcome]
  /\ UNCHANGED <<tagVars, job, awaited, requestVars, hits>>

StoreResponse(j) ==
  Finish(j, "writing", generation[j].outcome) /\ CacheSet(generation[j].outcome, Revalidate)
UncachedResponse(j) == Finish(j, "done", generation[j].outcome) /\ UNCHANGED cacheVars
NoResponse(j) == Finish(j, "done", {}) /\ UNCHANGED cacheVars

\* The existing entry is set again, so that it is not tried again at once.
Fail(j) ==
  IF generation[j].previous = {} THEN Finish(j, "done", {}) /\ UNCHANGED cacheVars
  ELSE Finish(j, "writing", {}) /\ CacheSet(VersionsOf(generation[j].previous), RetryAfter)

\* The files are written, or not: the configuration or an error prevents it.
WriteFiles(j) ==
  LET content == IF generation[j].outcome = {} THEN VersionsOf(generation[j].previous)
                 ELSE generation[j].outcome
  IN
  /\ generation[j].phase = "writing"
  /\ generation' = [generation EXCEPT ![j].phase = "done"]
  /\ disk' \in {disk, Stamped(content)}
  /\ UNCHANGED <<tagVars, memory, period, job, awaited, requestVars, hits>>

\* The cache has been written.  The jobs that await the generation end, and
\* their promises settle, if they have not been resolved before.
Ended_Resolved(j) == IF generation[j].outcome = {} THEN {} ELSE {k \in Jobs : j \in awaited[k]}
Ended(j) == {k \in Jobs : j \in awaited[k]}
Settle(j) ==
  LET ended == Ended(j) IN
  /\ generation[j].phase = "done" /\ generation' = [generation EXCEPT ![j] = NoGeneration]
  /\ Respond(ended, generation[j].outcome)
  /\ job' = [k \in Jobs |-> IF k \in ended THEN NoJob ELSE job[k]]
  /\ awaited' = [k \in Jobs |-> IF k \in ended THEN {} ELSE awaited[k]]
  /\ hits' = {r \in hits : waitsFor'[r] # {}} /\ UNCHANGED <<tagVars, cacheVars>>

-----------------------------------------------------------------------------
(* What happens to the data and to its tags.                               *)
ChangeData ==
  /\ source < MaxVersion /\ source' = source + 1
  /\ UNCHANGED <<now, expiredAt, staleAt, owed, cacheVars, jobVars, requestVars, hits>>

UnderWay == (\E j \in Jobs : job[j].phase # "none") \/ PendingGenerations("get") # {}

\* revalidateTag without a profile, updateTag, revalidatePath.
ExpireTag ==
  /\ now < MaxTime /\ now' = now + 1 /\ expiredAt' = now + 1
  /\ owed' = [version |-> source, certain |-> ~UnderWay]
  /\ hits' = {} /\ UNCHANGED <<source, staleAt, cacheVars, jobVars, requestVars>>

\* revalidateTag with a profile that sets no time of expiration.
MarkStale ==
  /\ now < MaxTime /\ now' = now + 1 /\ staleAt' = now + 1
  /\ UNCHANGED <<source, expiredAt, owed, cacheVars, jobVars, requestVars, hits>>

Age ==
  /\ now < MaxTime /\ now' = now + 1
  /\ UNCHANGED <<source, expiredAt, staleAt, owed, cacheVars, jobVars, requestVars, hits>>

\* The least recently used entries leave the memory.
Evict ==
  /\ memory # {} /\ memory' = {}
  /\ hits' = IF NotExpired(disk) = {} /\ job["get"].phase = "scheduled" THEN {} ELSE hits
  /\ UNCHANGED <<tagVars, disk, period, jobVars, requestVars>>

GenerationStep(j) ==
  \/ ReadData(j) \/ StoreResponse(j) \/ UncachedResponse(j) \/ NoResponse(j) \/ Fail(j)
  \/ WriteFiles(j) \/ Settle(j)

Next ==
  \/ \E r \in Requests, kind \in Kinds : Begin(r, kind)
  \/ \E j \in Jobs : HandleGet(j)
  \/ \E g \in Generations : GenerationStep(g)
  \/ RevalidateStale
  \/ ChangeData \/ ExpireTag \/ MarkStale \/ Age \/ Evict

Spec == Init /\ [][Next]_vars

\* The event loop runs what is scheduled, files are read and written, and the
\* generators come to an end.
FairSpec ==
  Spec /\ \A g \in Generations : WF_vars((g \in Jobs /\ HandleGet(g)) \/ GenerationStep(g))

-----------------------------------------------------------------------------
AtMostOne(S) == \A x, y \in S : x = y
MaybeEntry == {S \in SUBSET Entries : AtMostOne(S)}
MaybeVersion == {S \in SUBSET Versions : AtMostOne(S)}

TypeOK ==
  /\ now \in 0 .. MaxTime /\ source \in Versions
  /\ expiredAt \in 0 .. now /\ staleAt \in 0 .. now
  /\ memory \in MaybeEntry /\ disk \in MaybeEntry /\ period \in {Revalidate, RetryAfter}
  /\ job \in [Jobs -> [phase : {"none", "scheduled", "reading", "dated", "regenerating"},
                       prefetch : BOOLEAN, read : MaybeEntry, answer : MaybeVersion]]
  /\ generation \in [Generations -> [phase : {"none", "scheduled", "rendered", "writing", "done"},
                                     previous : MaybeEntry, outcome : MaybeVersion]]
  /\ awaited \in [Jobs -> SUBSET Generations] /\ \A j \in Jobs : AtMostOne(awaited[j])
  /\ waitsFor \in [Requests -> {{}} \cup {{j} : j \in Jobs}]
  /\ atLeast \in [Requests -> Versions]
  /\ hits \subseteq Requests /\ outdated \subseteq Requests
  /\ owed \in [version : Versions, certain : BOOLEAN]

\* Every request is answered, whatever it joined.
EveryRequestSettles == \A r \in Requests : []<>(waitsFor[r] = {})

\* A get that begins while the cache has an entry that has not been expired, in
\* memory or in a file, waits for no generation, not for that of another request
\* either: unless it has joined a get that looked before, the entry has been
\* expired, evicted or replaced by an expired one meanwhile, or its file cannot be
\* read.
CachedIsNotAwaited ==
  \A r \in Requests : waitsFor[r] = {"get"} /\ r \in hits => awaited["get"] = {}

\* A response that is stored never replaces content of newer data.
StoredIsNewer ==
  [][\A g \in Generations : StoreResponse(g) =>
       \A e \in memory : \A f \in memory' : f.version >= e.version]_vars

\* A request that begins after a tag has expired is not answered with content of
\* older data, if nothing was under way when it expired, and no file has been
\* overwritten since between the read of its content and that of its time: a get
\* could then be answered with the older content (FileSystemCache.get).  An
\* on-demand request is answered with content of the data as it is when it begins,
\* or newer, if no render that it may join has read the data.
AnswersAreCurrent == outdated = {}

\* After an expiration "the next request to that route will trigger regeneration
\* and serve fresh data": what is stored then is not content of older data, which
\* the cache would take for fresh.
StoredIsFresh ==
  [][\A g \in Generations : StoreResponse(g) =>
       \A e \in memory' : e.version >= owed.version]_vars
=============================================================================
