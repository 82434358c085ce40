------------------------ MODULE ResponseCacheProofs ------------------------
(***************************************************************************)
(* Proofs of the type invariant and of the safety properties of module     *)
(* ResponseCache, for any requests, periods and bounds.                    *)
(***************************************************************************)
EXTENDS ResponseCache, TLAPS

(* What may be missing remains a set of at most one. *)
LEMMA StampedType ==
  ASSUME now \in 0 .. MaxTime, NEW content \in MaybeVersion
  PROVE Stamped(content) \in MaybeEntry
BY DEF Stamped, MaybeVersion, MaybeEntry, AtMostOne, Entries

LEMMA VersionsOfType ==
  ASSUME NEW found \in MaybeEntry PROVE VersionsOf(found) \in MaybeVersion
BY DEF VersionsOf, MaybeVersion, MaybeEntry, AtMostOne, Entries

LEMMA NotExpiredType ==
  ASSUME NEW found \in MaybeEntry PROVE NotExpired(found) \in MaybeEntry
BY DEF NotExpired, MaybeEntry, AtMostOne

LEMMA EmptyType == {} \in MaybeEntry /\ {} \in MaybeVersion
BY DEF MaybeVersion, MaybeEntry, AtMostOne

LEMMA CachedAnswerType ==
  ASSUME NEW j \in Jobs, NEW hit \in MaybeEntry PROVE CachedAnswer(j, hit) \in MaybeVersion
BY VersionsOfType, EmptyType DEF CachedAnswer

-----------------------------------------------------------------------------
(* The inductive invariant.                                                *)

\* The path is generated once at a time.
SingleFlight ==
  \A g, h \in Generations :
    generation[g].phase # "none" /\ generation[h].phase # "none" => g = h

\* Nothing is kept of a job or of a generation that is not under way, and there
\* is something to write.
JobShape ==
  /\ \A j \in Jobs :
       /\ job[j].phase = "none" => job[j] = NoJob
       /\ job[j].phase \notin {"reading", "dated"} => job[j].read = {}
       /\ job[j].phase # "regenerating" => job[j].answer = {} /\ awaited[j] = {}
  /\ job["onDemand"].answer = {}

GenerationShape ==
  \A g \in Generations :
    /\ generation[g].phase = "none" => generation[g] = NoGeneration
    /\ generation[g].phase = "scheduled" => generation[g].outcome = {}
    /\ generation[g].phase = "rendered" => generation[g].outcome # {}
    /\ generation[g].phase = "writing" =>
         generation[g].outcome # {} \/ generation[g].previous # {}

\* The entries that the cache has, or gets back from its files.
Held == memory \cup disk \cup UNION {job[j].read : j \in Jobs}

\* An entry has been stamped in the past.
Stamps == \A e \in Held : e.modified <= now

\* What is there is not newer than what a generation has rendered that is not
\* stored yet.
Newest ==
  /\ \A e \in Held : e.version <= source
  /\ \A g \in Generations :
       /\ \A e \in generation[g].previous : e.version <= source
       /\ \A w \in generation[g].outcome :
            w <= source /\ (generation[g].phase = "rendered" => \A e \in Held : e.version <= w)

\* A get that has found an entry will be answered with one.
Hits ==
  \A r \in hits :
    /\ waitsFor[r] = {"get"}
    /\ \/ job["get"].phase = "scheduled" /\ CacheGet # {}
       \/ job["get"].phase = "reading" /\ job["get"].read # {} /\ NotExpired(disk) # {}
       \/ job["get"].phase = "dated" /\ NotExpired(job["get"].read) # {}

\* Content that is older than x is not rendered, and not answered by a get.
RendersFrom(x) ==
  x <= source /\ \A g \in Generations : \A v \in generation[g].outcome : v >= x

AnswersFrom(x) ==
  /\ RendersFrom(x)
  /\ \A g \in Generations : \A e \in generation[g].previous : e.version >= x
  /\ \A e \in Held : AreTagsExpired(e) \/ e.version >= x
  /\ \A j \in Jobs : \A v \in job[j].answer : v >= x

Floors ==
  /\ owed.certain => AnswersFrom(owed.version)
  /\ \A r \in Requests :
       /\ waitsFor[r] = {"get"} => AnswersFrom(atLeast[r])
       /\ waitsFor[r] = {"onDemand"} => RendersFrom(atLeast[r])

IInv ==
  /\ TypeOK /\ SingleFlight /\ JobShape /\ GenerationShape /\ Stamps /\ Newest
  /\ Hits /\ Floors /\ AnswersAreCurrent

\* The types of what handleGet and handleRevalidate write.
LEMMA NoneTypes ==
  /\ NoJob \in [phase : {"none", "scheduled", "reading", "dated", "regenerating"},
                prefetch : BOOLEAN, read : MaybeEntry, answer : MaybeVersion]
  /\ NoGeneration \in [phase : {"none", "scheduled", "rendered", "writing", "done"},
                       previous : MaybeEntry, outcome : MaybeVersion]
BY EmptyType DEF NoJob, NoGeneration

LEMMA RegenerateType ==
  ASSUME TypeOK, SingleFlight, NEW j \in Jobs, NEW previous \in MaybeEntry,
         Regenerate(j, previous)
  PROVE  /\ generation' \in [Generations ->
              [phase : {"none", "scheduled", "rendered", "writing", "done"},
               previous : MaybeEntry, outcome : MaybeVersion]]
         /\ awaited' \in [Jobs -> SUBSET Generations] /\ \A k \in Jobs : AtMostOne(awaited'[k])
<1>1. AtMostOne(PendingGenerations(j)) /\ PendingGenerations(j) \subseteq Generations
  BY DEF AtMostOne, PendingGenerations, SingleFlight
<1>2. AtMostOne({j}) /\ j \in Generations
  BY DEF AtMostOne, Generations
<1>3. /\ awaited \in [Jobs -> SUBSET Generations] /\ \A k \in Jobs : AtMostOne(awaited[k])
      /\ generation \in [Generations ->
              [phase : {"none", "scheduled", "rendered", "writing", "done"},
               previous : MaybeEntry, outcome : MaybeVersion]]
  BY DEF TypeOK
<1>4. CASE PendingGenerations(j) # {}
  <2>1. awaited' = [awaited EXCEPT ![j] = PendingGenerations(j)] /\ generation' = generation
    BY <1>4 DEF Regenerate
  <2> QED BY <2>1, <1>1, <1>3
<1>5. CASE PendingGenerations(j) = {}
  <2>1. /\ awaited' = [awaited EXCEPT ![j] = {j}]
        /\ generation' = [generation EXCEPT ![j] =
              [phase |-> "scheduled", previous |-> previous, outcome |-> {}]]
    BY <1>5 DEF Regenerate
  <2> QED BY <2>1, <1>2, <1>3, EmptyType
<1> QED BY <1>4, <1>5

LEMMA RespondType ==
  ASSUME TypeOK, NEW J \in SUBSET Jobs, NEW answer, Respond(J, answer)
  PROVE  /\ waitsFor' \in [Requests -> {{}} \cup {{j} : j \in Jobs}]
         /\ atLeast' \in [Requests -> Versions] /\ outdated' \subseteq Requests
<1>1. 0 \in Versions
  BY ResponseCacheAssumption DEF Versions
<1>2. \A r \in Requests : waitsFor[r] \ J \in {{}} \cup {{j} : j \in Jobs}
  BY DEF TypeOK
<1> QED BY <1>1, <1>2 DEF Respond, TypeOK

LEMMA AnswerOrRegenerateType ==
  ASSUME TypeOK, SingleFlight, NEW j \in Jobs, NEW hit \in MaybeEntry,
         AnswerOrRegenerate(j, hit)
  PROVE  /\ job' \in [Jobs -> [phase : {"none", "scheduled", "reading", "dated", "regenerating"},
                        prefetch : BOOLEAN, read : MaybeEntry, answer : MaybeVersion]]
         /\ generation' \in [Generations ->
              [phase : {"none", "scheduled", "rendered", "writing", "done"},
               previous : MaybeEntry, outcome : MaybeVersion]]
         /\ awaited' \in [Jobs -> SUBSET Generations] /\ \A k \in Jobs : AtMostOne(awaited'[k])
         /\ waitsFor' \in [Requests -> {{}} \cup {{k} : k \in Jobs}]
         /\ atLeast' \in [Requests -> Versions] /\ outdated' \subseteq Requests
<1> DEFINE answer == CachedAnswer(j, hit)
<1>1. answer \in MaybeVersion
  BY CachedAnswerType
<1>2. /\ waitsFor' \in [Requests -> {{}} \cup {{k} : k \in Jobs}]
      /\ atLeast' \in [Requests -> Versions] /\ outdated' \subseteq Requests
  <2>1. CASE answer = {}
    BY <2>1 DEF AnswerOrRegenerate, requestVars, TypeOK
  <2>2. CASE answer # {}
    BY <2>2, RespondType DEF AnswerOrRegenerate
  <2> QED BY <2>1, <2>2
<1>3. CASE job' = [job EXCEPT ![j] = NoJob] /\ UNCHANGED <<generation, awaited>>
  BY <1>2, <1>3, NoneTypes DEF TypeOK
<1>4. CASE /\ job' = [job EXCEPT ![j] = [NoJob EXCEPT !.phase = "regenerating", !.answer = answer]]
           /\ Regenerate(j, hit)
  <2>1. [NoJob EXCEPT !.phase = "regenerating", !.answer = answer] \in
          [phase : {"none", "scheduled", "reading", "dated", "regenerating"},
           prefetch : BOOLEAN, read : MaybeEntry, answer : MaybeVersion]
    BY <1>1, EmptyType DEF NoJob
  <2>2. job' \in [Jobs -> [phase : {"none", "scheduled", "reading", "dated", "regenerating"},
                        prefetch : BOOLEAN, read : MaybeEntry, answer : MaybeVersion]]
    BY <1>4, <2>1 DEF TypeOK
  <2> QED BY <1>2, <1>4, <2>2, RegenerateType
<1> QED BY <1>3, <1>4 DEF AnswerOrRegenerate

-----------------------------------------------------------------------------
(* Type correctness of every action.                                       *)
LEMMA CacheSetType ==
  ASSUME TypeOK, NEW content \in MaybeVersion, NEW revalidate \in {Revalidate, RetryAfter},
         CacheSet(content, revalidate)
  PROVE  memory' \in MaybeEntry /\ disk' \in MaybeEntry /\ period' \in {Revalidate, RetryAfter}
BY StampedType DEF CacheSet, TypeOK

LEMMA FinishType ==
  ASSUME TypeOK, NEW g \in Generations, NEW phase \in {"writing", "done"},
         NEW outcome \in MaybeVersion, Finish(g, phase, outcome)
  PROVE  generation' \in [Generations ->
              [phase : {"none", "scheduled", "rendered", "writing", "done"},
               previous : MaybeEntry, outcome : MaybeVersion]]
<1> DEFINE Generation == [phase : {"none", "scheduled", "rendered", "writing", "done"},
                          previous : MaybeEntry, outcome : MaybeVersion]
<1>1. generation \in [Generations -> Generation]
  BY DEF TypeOK
<1>2. PICK x \in Generation : x = generation[g]
  BY <1>1
<1>3. [x EXCEPT !.phase = phase, !.outcome = outcome] \in Generation
  OBVIOUS
<1>4. generation' = [generation EXCEPT ![g] = [x EXCEPT !.phase = phase, !.outcome = outcome]]
  BY <1>1, <1>2 DEF Finish
<1> HIDE DEF Generation
<1>5. generation' \in [Generations -> Generation]
  BY <1>1, <1>3, <1>4
<1> QED BY <1>5 DEF Generation

LEMMA BeginType ==
  ASSUME TypeOK, NEW r \in Requests, NEW kind \in Kinds, Begin(r, kind) PROVE TypeOK'
<1> DEFINE j == JobOf(kind)
<1>1. j \in Jobs
  BY ResponseCacheAssumption DEF JobOf, Jobs
<1>2. AskedFor(kind) \in Versions
  BY ResponseCacheAssumption DEF AskedFor, TypeOK, Versions
<1>3. job' \in [Jobs -> [phase : {"none", "scheduled", "reading", "dated", "regenerating"},
                        prefetch : BOOLEAN, read : MaybeEntry, answer : MaybeVersion]]
  <2>1. [NoJob EXCEPT !.phase = "scheduled", !.prefetch = kind = "prefetch"] \in
          [phase : {"none", "scheduled", "reading", "dated", "regenerating"},
           prefetch : BOOLEAN, read : MaybeEntry, answer : MaybeVersion]
    BY EmptyType DEF NoJob
  <2>2. \/ job' = job
        \/ job' = [job EXCEPT ![j] = [NoJob EXCEPT !.phase = "scheduled", !.prefetch = kind = "prefetch"]]
    BY DEF Begin, jobVars
  <2>3. job \in [Jobs -> [phase : {"none", "scheduled", "reading", "dated", "regenerating"},
                        prefetch : BOOLEAN, read : MaybeEntry, answer : MaybeVersion]]
    BY DEF TypeOK
  <2> HIDE DEF j
  <2> QED BY ONLY <1>1, <2>1, <2>2, <2>3
<1>4. /\ waitsFor' \in [Requests -> {{}} \cup {{k} : k \in Jobs}]
      /\ atLeast' \in [Requests -> Versions]
      /\ hits' \subseteq Requests /\ outdated' \subseteq Requests
  <2>0. /\ waitsFor \in [Requests -> {{}} \cup {{k} : k \in Jobs}]
        /\ atLeast \in [Requests -> Versions] /\ hits \subseteq Requests /\ outdated \subseteq Requests
    BY DEF TypeOK
  <2> HIDE DEF j
  <2>1. CASE /\ waitsFor' = [waitsFor EXCEPT ![r] = {j}]
             /\ atLeast' = [atLeast EXCEPT ![r] = AskedFor(kind)]
             /\ hits' = IF WillHit(j) THEN hits \cup {r} ELSE hits
             /\ UNCHANGED outdated
    BY ONLY <1>1, <1>2, <2>0, <2>1, r \in Requests
  <2>2. CASE /\ outdated' = outdated \cup {q \in {r} : Outdated(job[j].answer, AskedFor(kind))}
             /\ UNCHANGED <<waitsFor, atLeast, hits>>
    BY <2>0, <2>2
  <2> QED BY <2>1, <2>2 DEF Begin, j
<1>5. UNCHANGED <<now, source, expiredAt, staleAt, memory, disk, period, owed>>
  BY DEF Begin, tagVars, cacheVars
<1>6. UNCHANGED <<generation, awaited>>
  BY DEF Begin, jobVars
<1> QED BY <1>3, <1>4, <1>5, <1>6 DEF TypeOK

LEMMA StatType ==
  ASSUME TypeOK, NEW j \in Jobs, StatFile(j) PROVE TypeOK'
<1> DEFINE JobType == [phase : {"none", "scheduled", "reading", "dated", "regenerating"},
                       prefetch : BOOLEAN, read : MaybeEntry, answer : MaybeVersion]
           dated == [job[j] EXCEPT !.phase = "dated", !.read = Dated(job[j].read)]
<1>1. /\ job \in [Jobs -> JobType] /\ disk \in MaybeEntry
      /\ job' = [job EXCEPT ![j].phase = "dated", ![j].read = Dated(job[j].read)]
  BY DEF TypeOK, StatFile
<1>2. Dated(job[j].read) \in MaybeEntry
  <2>1. job[j].read \in MaybeEntry
    BY <1>1
  <2> QED BY <1>1, <2>1 DEF MaybeEntry, AtMostOne, Entries, Dated
<1>3. dated \in JobType /\ job' = [job EXCEPT ![j] = dated]
  BY <1>1, <1>2
<1>4. job' \in [Jobs -> JobType]
  <2> HIDE DEF dated, JobType
  <2> QED BY <1>1, <1>3
<1>5. owed' \in [version : Versions, certain : BOOLEAN]
  BY DEF StatFile, TypeOK, Overtaken
<1>6. atLeast' \in [Requests -> Versions]
  <2>1. 0 \in Versions /\ atLeast \in [Requests -> Versions]
    BY ResponseCacheAssumption DEF TypeOK, Versions
  <2> QED BY <2>1 DEF StatFile
<1>7. UNCHANGED <<now, source, expiredAt, staleAt, memory, disk, period, generation, awaited, waitsFor,
                  outdated, hits>>
  BY DEF StatFile, cacheVars
<1> QED BY <1>4, <1>5, <1>6, <1>7 DEF TypeOK

LEMMA TypeStep == TypeOK /\ SingleFlight /\ GenerationShape /\ [Next]_vars => TypeOK'
<1> SUFFICES ASSUME TypeOK, SingleFlight, GenerationShape, [Next]_vars PROVE TypeOK'
  OBVIOUS
<1>1. ASSUME NEW r \in Requests, NEW kind \in Kinds, Begin(r, kind) PROVE TypeOK'
  BY <1>1, BeginType
<1>2. ASSUME NEW j \in Jobs, ReadFile(j) PROVE TypeOK'
  <2>1. job' = [job EXCEPT ![j].phase = "reading", ![j].read = disk]
    BY <1>2 DEF ReadFile
  <2>2. job' \in [Jobs -> [phase : {"none", "scheduled", "reading", "dated", "regenerating"},
                        prefetch : BOOLEAN, read : MaybeEntry, answer : MaybeVersion]]
    <3> DEFINE read == [job[j] EXCEPT !.phase = "reading", !.read = disk]
    <3>1. read \in [phase : {"none", "scheduled", "reading", "dated", "regenerating"},
                     prefetch : BOOLEAN, read : MaybeEntry, answer : MaybeVersion]
      <4>1. /\ job[j] \in [phase : {"none", "scheduled", "reading", "dated", "regenerating"},
                          prefetch : BOOLEAN, read : MaybeEntry, answer : MaybeVersion]
            /\ disk \in MaybeEntry
        BY DEF TypeOK
      <4> QED BY <4>1
    <3>2. job' = [job EXCEPT ![j] = read]
      BY <2>1 DEF TypeOK
    <3> HIDE DEF read
    <3> QED BY <3>1, <3>2 DEF TypeOK
  <2>3. UNCHANGED <<now, source, expiredAt, staleAt, owed, memory, disk, period, generation,
                    awaited, waitsFor, atLeast, outdated, hits>>
    BY <1>2 DEF ReadFile, tagVars, cacheVars, requestVars
  <2> QED BY <2>2, <2>3 DEF TypeOK
<1>3. ASSUME NEW j \in Jobs, StatFile(j) PROVE TypeOK'
  BY <1>3, StatType
<1>4. ASSUME NEW j \in Jobs, ReadFails(j) PROVE TypeOK'
  <2>1. hits' \subseteq Requests
    BY <1>4 DEF ReadFails, TypeOK
  <2>2. UNCHANGED <<now, source, expiredAt, staleAt, memory, disk, period, owed>>
    BY <1>4 DEF ReadFails, tagVars, cacheVars
  <2>3. AnswerOrRegenerate(j, {})
    BY <1>4 DEF ReadFails
  <2> QED BY <2>1, <2>2, <2>3, EmptyType, AnswerOrRegenerateType DEF TypeOK
<1>5. ASSUME NEW j \in Jobs, FoundInMemory(j) PROVE TypeOK'
  <2>1. NotExpired(memory) \in MaybeEntry
    BY NotExpiredType DEF TypeOK
  <2>2. hits' \subseteq Requests
    BY <1>5 DEF FoundInMemory, TypeOK
  <2>3. UNCHANGED <<now, source, expiredAt, staleAt, memory, disk, period, owed>>
    BY <1>5 DEF FoundInMemory, tagVars, cacheVars
  <2>4. AnswerOrRegenerate(j, NotExpired(memory))
    BY <1>5 DEF FoundInMemory
  <2> QED BY <2>1, <2>2, <2>3, <2>4, AnswerOrRegenerateType DEF TypeOK
<1>6. ASSUME NEW j \in Jobs, FileWasRead(j) PROVE TypeOK'
  <2>1. NotExpired(job[j].read) \in MaybeEntry
    BY NotExpiredType DEF TypeOK
  <2>2. hits' \subseteq Requests /\ memory' \in MaybeEntry
    BY <1>6 DEF FileWasRead, TypeOK
  <2>3. UNCHANGED <<now, source, expiredAt, staleAt, disk, period, owed>>
    BY <1>6 DEF FileWasRead, tagVars
  <2>4. AnswerOrRegenerate(j, NotExpired(job[j].read))
    BY <1>6 DEF FileWasRead
  <2> QED BY <2>1, <2>2, <2>3, <2>4, AnswerOrRegenerateType DEF TypeOK
<1>7. ASSUME RevalidateStale PROVE TypeOK'
  <2>1. "dynamic" \in Generations
    BY DEF Generations
  <2>2. generation' = [generation EXCEPT !["dynamic"].phase = "scheduled"]
    BY <1>7 DEF RevalidateStale
  <2>3. generation' \in [Generations -> [phase : {"none", "scheduled", "rendered", "writing", "done"},
                                        previous : MaybeEntry, outcome : MaybeVersion]]
    BY <2>1, <2>2 DEF TypeOK
  <2>4. UNCHANGED <<now, source, expiredAt, staleAt, owed, memory, disk, period, job, awaited,
                    waitsFor, atLeast, outdated, hits>>
    BY <1>7 DEF RevalidateStale, tagVars, cacheVars, requestVars
  <2> QED BY <2>3, <2>4 DEF TypeOK
<1>8. ASSUME NEW g \in Generations, ReadData(g) PROVE TypeOK'
  <2>1. {source} \in MaybeVersion
    BY DEF TypeOK, MaybeVersion, AtMostOne
  <2>2. generation \in [Generations -> [phase : {"none", "scheduled", "rendered", "writing", "done"},
                                       previous : MaybeEntry, outcome : MaybeVersion]]
    BY DEF TypeOK
  <2>3. generation' = [generation EXCEPT ![g].phase = "rendered", ![g].outcome = {source}]
    BY <1>8 DEF ReadData
  <2>4. generation' \in [Generations -> [phase : {"none", "scheduled", "rendered", "writing", "done"},
                                        previous : MaybeEntry, outcome : MaybeVersion]]
    BY ONLY <1>8, <2>1, <2>2, <2>3
  <2>5. UNCHANGED <<now, source, expiredAt, staleAt, owed, memory, disk, period, job, awaited,
                    waitsFor, atLeast, outdated, hits>>
    BY <1>8 DEF ReadData, tagVars, cacheVars, requestVars
  <2> QED BY <2>4, <2>5 DEF TypeOK
<1>9. ASSUME NEW g \in Generations,
             \/ StoreResponse(g) \/ UncachedResponse(g) \/ NoResponse(g) \/ Fail(g)
      PROVE  TypeOK'
  <2>1. generation[g].outcome \in MaybeVersion /\ VersionsOf(generation[g].previous) \in MaybeVersion
    BY VersionsOfType DEF TypeOK
  <2>2. \E phase \in {"writing", "done"}, outcome \in MaybeVersion : Finish(g, phase, outcome)
    BY <1>9, <2>1, EmptyType DEF StoreResponse, UncachedResponse, NoResponse, Fail
  <2>3. memory' \in MaybeEntry /\ disk' \in MaybeEntry /\ period' \in {Revalidate, RetryAfter}
    <3>1. CASE StoreResponse(g)
      BY <3>1, <2>1, CacheSetType DEF StoreResponse
    <3>2. CASE UncachedResponse(g) \/ NoResponse(g)
      BY <3>2 DEF UncachedResponse, NoResponse, cacheVars, TypeOK
    <3>3. CASE Fail(g)
      BY <3>3, <2>1, CacheSetType DEF Fail, cacheVars, TypeOK
    <3> QED BY <1>9, <3>1, <3>2, <3>3
  <2>4. generation' \in [Generations ->
              [phase : {"none", "scheduled", "rendered", "writing", "done"},
               previous : MaybeEntry, outcome : MaybeVersion]]
    BY <2>2, FinishType
  <2>5. UNCHANGED <<now, source, expiredAt, staleAt, owed, job, awaited,
                    waitsFor, atLeast, outdated, hits>>
    BY <2>2 DEF Finish, tagVars, requestVars
  <2> QED BY <2>3, <2>4, <2>5 DEF TypeOK
<1>10. ASSUME NEW g \in Generations, WriteFiles(g) PROVE TypeOK'
  <2>1. disk' \in MaybeEntry
    <3>1. /\ generation[g].outcome \in MaybeVersion
          /\ VersionsOf(generation[g].previous) \in MaybeVersion
      BY VersionsOfType DEF TypeOK
    <3>2. /\ Stamped(generation[g].outcome) \in MaybeEntry
          /\ Stamped(VersionsOf(generation[g].previous)) \in MaybeEntry
      BY <3>1, StampedType DEF TypeOK
    <3> QED BY <1>10, <3>2 DEF WriteFiles, TypeOK
  <2>2. generation' = [generation EXCEPT ![g].phase = "done"]
    BY <1>10 DEF WriteFiles
  <2>3. UNCHANGED <<now, source, expiredAt, staleAt, owed, memory, period, job, awaited,
                    waitsFor, atLeast, outdated, hits>>
    BY <1>10 DEF WriteFiles, tagVars, requestVars
  <2>4. generation' \in [Generations -> [phase : {"none", "scheduled", "rendered", "writing", "done"},
                                        previous : MaybeEntry, outcome : MaybeVersion]]
    BY <2>2 DEF TypeOK
  <2> QED BY <2>1, <2>3, <2>4 DEF TypeOK
<1>11. ASSUME NEW g \in Generations, Settle(g) PROVE TypeOK'
  <2>1. Ended(g) \in SUBSET Jobs
    BY DEF Ended
  <2>2. /\ waitsFor' \in [Requests -> {{}} \cup {{k} : k \in Jobs}]
        /\ atLeast' \in [Requests -> Versions] /\ outdated' \subseteq Requests
    BY <1>11, <2>1, RespondType DEF Settle
  <2>3. /\ job' = [k \in Jobs |-> IF k \in Ended(g) THEN NoJob ELSE job[k]]
        /\ awaited' = [k \in Jobs |-> IF k \in Ended(g) THEN {} ELSE awaited[k]]
        /\ generation' = [generation EXCEPT ![g] = NoGeneration]
        /\ hits' \subseteq hits
        /\ UNCHANGED <<now, source, expiredAt, staleAt, owed, memory, disk, period>>
    BY <1>11 DEF Settle, tagVars, cacheVars
  <2>4. AtMostOne({})
    BY DEF AtMostOne
  <2> QED BY <2>2, <2>3, <2>4, NoneTypes DEF TypeOK
<1>12. ASSUME ChangeData \/ ExpireTag \/ MarkStale \/ Age PROVE TypeOK'
  <2>1. /\ now' \in 0 .. MaxTime /\ source' \in Versions
        /\ expiredAt' \in 0 .. now' /\ staleAt' \in 0 .. now'
        /\ owed' \in [version : Versions, certain : BOOLEAN]
    <3>1. /\ now \in Nat /\ now <= MaxTime /\ MaxTime \in Nat /\ MaxVersion \in Nat
          /\ source \in 0 .. MaxVersion /\ expiredAt \in 0 .. now /\ staleAt \in 0 .. now
          /\ owed \in [version : Versions, certain : BOOLEAN]
      BY ResponseCacheAssumption DEF TypeOK, Versions
    <3>2. CASE ChangeData
      BY <3>1, <3>2 DEF ChangeData, Versions, TypeOK
    <3>3. CASE ExpireTag
      <4>1. [version |-> source, certain |-> ~UnderWay] \in [version : Versions, certain : BOOLEAN]
        BY DEF TypeOK, UnderWay
      <4> QED BY <3>1, <3>3, <4>1 DEF ExpireTag, TypeOK
    <3>4. CASE MarkStale \/ Age
      BY <3>1, <3>4 DEF MarkStale, Age, TypeOK
    <3> QED BY <1>12, <3>2, <3>3, <3>4
  <2>2. UNCHANGED <<memory, disk, period, job, generation, awaited, waitsFor, atLeast, outdated>>
    BY <1>12 DEF ChangeData, ExpireTag, MarkStale, Age, cacheVars, jobVars, requestVars
  <2>3. hits' \subseteq Requests
    BY <1>12 DEF ChangeData, ExpireTag, MarkStale, Age, TypeOK
  <2> QED BY <2>1, <2>2, <2>3 DEF TypeOK
<1>13. ASSUME Evict PROVE TypeOK'
  BY <1>13, EmptyType DEF Evict, TypeOK, tagVars, jobVars, requestVars
<1>14. ASSUME UNCHANGED vars PROVE TypeOK'
  BY <1>14 DEF vars, TypeOK, tagVars, cacheVars, jobVars, requestVars
<1> QED
  BY <1>1, <1>2, <1>3, <1>4, <1>5, <1>6, <1>7, <1>8, <1>9, <1>10, <1>11, <1>12, <1>13, <1>14
  DEF Next, HandleGet, GenerationStep

-----------------------------------------------------------------------------
(* The shape of jobs and generations.                                      *)

\* What handleGet makes of its job, and of the generations.
LEMMA AnswerOrRegenerateFacts ==
  ASSUME TypeOK, NEW j \in Jobs, JobShape, job[j].phase \in {"scheduled", "reading", "dated"},
         NEW hit \in MaybeEntry, AnswerOrRegenerate(j, hit)
  PROVE  /\ \A k \in Jobs \ {j} : job'[k] = job[k] /\ awaited'[k] = awaited[k]
         /\ \/ job'[j] = NoJob /\ awaited'[j] = {}
            \/ job'[j] = [NoJob EXCEPT !.phase = "regenerating", !.answer = CachedAnswer(j, hit)]
         /\ \/ UNCHANGED generation
            \/ /\ \A g \in Generations : generation[g].phase = "none"
               /\ generation' = [generation EXCEPT ![j] =
                    [phase |-> "scheduled", previous |-> hit, outcome |-> {}]]
<1>1. job \in [Jobs -> [phase : {"none", "scheduled", "reading", "dated", "regenerating"},
                       prefetch : BOOLEAN, read : MaybeEntry, answer : MaybeVersion]]
      /\ awaited \in [Jobs -> SUBSET Generations]
  BY DEF TypeOK
<1>2. awaited[j] = {}
  BY DEF JobShape
<1>3. CASE job' = [job EXCEPT ![j] = NoJob] /\ UNCHANGED <<generation, awaited>>
  BY <1>1, <1>2, <1>3
<1>4. CASE /\ job' = [job EXCEPT ![j] =
                 [NoJob EXCEPT !.phase = "regenerating", !.answer = CachedAnswer(j, hit)]]
           /\ Regenerate(j, hit)
  <2>1. job'[j] = [NoJob EXCEPT !.phase = "regenerating", !.answer = CachedAnswer(j, hit)]
        /\ \A k \in Jobs \ {j} : job'[k] = job[k]
    BY <1>1, <1>4
  <2>2. \A k \in Jobs \ {j} : awaited'[k] = awaited[k]
    BY <1>1, <1>4 DEF Regenerate
  <2>3. \/ UNCHANGED generation
        \/ /\ \A g \in Generations : generation[g].phase = "none"
           /\ generation' = [generation EXCEPT ![j] =
                [phase |-> "scheduled", previous |-> hit, outcome |-> {}]]
    BY <1>4 DEF Regenerate, PendingGenerations
  <2> QED BY <2>1, <2>2, <2>3
<1> QED BY <1>3, <1>4 DEF AnswerOrRegenerate

\* The steps that end handleGet, with what they have found.
EndsGet(j) == FoundInMemory(j) \/ FileWasRead(j) \/ ReadFails(j)

LEMMA AnswerSteps ==
  ASSUME TypeOK, NEW j \in Jobs, EndsGet(j)
  PROVE  \E found \in MaybeEntry :
           /\ found \in {memory, job[j].read, {}}
           /\ AnswerOrRegenerate(j, NotExpired(found)) /\ NotExpired(found) \in MaybeEntry
           /\ job[j].phase \in {"scheduled", "reading", "dated"} /\ UNCHANGED <<tagVars, disk, period>>
           /\ memory' = memory \/ memory' = job[j].read
           /\ hits' \subseteq hits
<1>1. memory \in MaybeEntry /\ job[j].read \in MaybeEntry
  BY DEF TypeOK
<1>2. NotExpired(memory) \in MaybeEntry /\ NotExpired(job[j].read) \in MaybeEntry
  BY <1>1, NotExpiredType
<1>3. CASE FoundInMemory(j) \/ FileWasRead(j)
  BY <1>1, <1>2, <1>3 DEF FoundInMemory, FileWasRead, cacheVars
<1>4. CASE ReadFails(j)
  <2>1. {} \in MaybeEntry /\ NotExpired({}) = {}
    BY EmptyType DEF NotExpired
  <2> QED BY <1>4, <2>1 DEF ReadFails, cacheVars
<1> QED BY <1>3, <1>4 DEF EndsGet

\* The step that dates what has been read.
LEMMA StatEffect ==
  ASSUME TypeOK, NEW j \in Jobs, StatFile(j)
  PROVE  /\ UNCHANGED <<now, source, expiredAt, memory, disk, generation, awaited, waitsFor, outdated, hits>>
         /\ \A k \in Jobs \ {j} : job'[k] = job[k]
         /\ job[j].phase = "reading" /\ job'[j].phase = "dated"
         /\ job'[j].read = Dated(job[j].read) /\ job'[j].answer = job[j].answer
<1>1. /\ job \in [Jobs -> [phase : {"none", "scheduled", "reading", "dated", "regenerating"},
                       prefetch : BOOLEAN, read : MaybeEntry, answer : MaybeVersion]]
      /\ job' = [job EXCEPT ![j].phase = "dated", ![j].read = Dated(job[j].read)]
  BY DEF TypeOK, StatFile
<1>2. UNCHANGED <<now, source, expiredAt, memory, disk, generation, awaited, waitsFor, outdated, hits>>
  BY DEF StatFile, cacheVars
<1>3. job[j].phase = "reading"
  BY DEF StatFile
<1> QED BY <1>1, <1>2, <1>3

LEMMA SingleFlightStep ==
  TypeOK /\ SingleFlight /\ JobShape /\ [Next]_vars => SingleFlight'
<1> SUFFICES ASSUME TypeOK, SingleFlight, JobShape, [Next]_vars PROVE SingleFlight'
  OBVIOUS
<1> USE DEF SingleFlight
<1>0. generation \in [Generations -> [phase : {"none", "scheduled", "rendered", "writing", "done"},
                                     previous : MaybeEntry, outcome : MaybeVersion]]
  BY DEF TypeOK
<1>1. ASSUME NEW j \in Jobs, EndsGet(j) PROVE SingleFlight'
  <2>1. \/ UNCHANGED generation
        \/ /\ \A g \in Generations : generation[g].phase = "none"
           /\ \E hit : generation' = [generation EXCEPT ![j] =
                [phase |-> "scheduled", previous |-> hit, outcome |-> {}]]
    <3>1. PICK hit \in MaybeEntry :
            AnswerOrRegenerate(j, hit) /\ job[j].phase \in {"scheduled", "reading", "dated"}
      BY <1>1, AnswerSteps
    <3>2. \/ UNCHANGED generation
          \/ /\ \A g \in Generations : generation[g].phase = "none"
             /\ generation' = [generation EXCEPT ![j] =
                  [phase |-> "scheduled", previous |-> hit, outcome |-> {}]]
      BY <3>1, AnswerOrRegenerateFacts
    <3> QED BY ONLY <3>2
  <2> QED BY <2>1, <1>0
<1>2. ASSUME RevalidateStale PROVE SingleFlight'
  BY <1>0, <1>2 DEF RevalidateStale, PendingGenerations
<1>3. ASSUME NEW g \in Generations, GenerationStep(g) PROVE SingleFlight'
  <2>1. generation[g].phase # "none" /\ \A h \in Generations \ {g} : generation'[h] = generation[h]
    BY <1>0, <1>3 DEF GenerationStep, ReadData, StoreResponse, UncachedResponse, NoResponse, Fail,
                      WriteFiles, Settle, Finish
  <2> QED BY <2>1
<1>4. ASSUME UNCHANGED generation PROVE SingleFlight'
  BY <1>4
<1> QED
  BY <1>1, <1>2, <1>3, <1>4
  DEF Next, HandleGet, EndsGet, Begin, ReadFile, StatFile, ChangeData, ExpireTag, MarkStale, Age, Evict,
      jobVars, vars

LEMMA JobShapeStep ==
  TypeOK /\ JobShape /\ [Next]_vars => JobShape'
<1> SUFFICES ASSUME TypeOK, JobShape, [Next]_vars PROVE JobShape'
  OBVIOUS
<1>0. /\ job \in [Jobs -> [phase : {"none", "scheduled", "reading", "dated", "regenerating"},
                       prefetch : BOOLEAN, read : MaybeEntry, answer : MaybeVersion]]
      /\ awaited \in [Jobs -> SUBSET Generations]
  BY DEF TypeOK
<1>1. ASSUME NEW r \in Requests, NEW kind \in Kinds, Begin(r, kind) PROVE JobShape'
  <2>1. CASE UNCHANGED jobVars
    BY <2>1 DEF JobShape, jobVars
  <2>2. CASE /\ job[JobOf(kind)].phase = "none"
             /\ job' = [job EXCEPT ![JobOf(kind)] =
                  [NoJob EXCEPT !.phase = "scheduled", !.prefetch = kind = "prefetch"]]
             /\ UNCHANGED awaited
    BY <1>0, <2>2 DEF JobShape, NoJob
  <2> QED BY <1>1, <2>1, <2>2 DEF Begin
<1>2. ASSUME NEW j \in Jobs, ReadFile(j) PROVE JobShape'
  <2>1. /\ \A k \in Jobs \ {j} : job'[k] = job[k]
        /\ job[j].phase = "scheduled" /\ job'[j].phase = "reading"
        /\ job'[j].answer = job[j].answer /\ UNCHANGED awaited
    BY <1>0, <1>2 DEF ReadFile
  <2> QED BY <2>1 DEF JobShape, Jobs
<1>3. ASSUME NEW j \in Jobs, StatFile(j) PROVE JobShape'
  BY <1>3, StatEffect DEF JobShape, Jobs
<1>4. ASSUME NEW j \in Jobs, EndsGet(j) PROVE JobShape'
  <2>1. PICK hit \in MaybeEntry :
          AnswerOrRegenerate(j, hit) /\ job[j].phase \in {"scheduled", "reading", "dated"}
    BY <1>4, AnswerSteps
  <2>2. j = "onDemand" => CachedAnswer(j, hit) = {}
    BY DEF CachedAnswer
  <2>3. /\ \A k \in Jobs \ {j} : job'[k] = job[k] /\ awaited'[k] = awaited[k]
        /\ \/ job'[j] = NoJob /\ awaited'[j] = {}
           \/ job'[j] = [NoJob EXCEPT !.phase = "regenerating", !.answer = CachedAnswer(j, hit)]
    BY <2>1, AnswerOrRegenerateFacts
  <2>4. /\ job'[j].phase = "none" => job'[j] = NoJob
        /\ job'[j].phase \notin {"reading", "dated"} => job'[j].read = {}
        /\ job'[j].phase # "regenerating" => job'[j].answer = {} /\ awaited'[j] = {}
        /\ j = "onDemand" => job'[j].answer = {}
    <3>1. CASE job'[j] = NoJob /\ awaited'[j] = {}
      BY <3>1 DEF NoJob
    <3>2. CASE job'[j] = [NoJob EXCEPT !.phase = "regenerating", !.answer = CachedAnswer(j, hit)]
      <4>1. /\ job'[j].phase = "regenerating" /\ job'[j].read = {}
            /\ job'[j].answer = CachedAnswer(j, hit)
        BY <3>2 DEF NoJob
      <4> QED BY <4>1, <2>2
    <3> QED BY <2>3, <3>1, <3>2
  <2> QED BY <2>3, <2>4 DEF JobShape, Jobs
<1>5. ASSUME NEW g \in Generations, GenerationStep(g) PROVE JobShape'
  <2>1. CASE UNCHANGED <<job, awaited>>
    BY <2>1 DEF JobShape
  <2>2. CASE Settle(g)
    BY <1>0, <2>2 DEF Settle, JobShape, NoJob, Jobs
  <2> QED BY <1>5, <2>1, <2>2 DEF GenerationStep, ReadData, StoreResponse, UncachedResponse,
                                  NoResponse, Fail, WriteFiles, Finish
<1>6. ASSUME UNCHANGED <<job, awaited>> PROVE JobShape'
  BY <1>6 DEF JobShape
<1> QED
  BY <1>1, <1>2, <1>3, <1>4, <1>5, <1>6
  DEF Next, HandleGet, EndsGet, RevalidateStale, ChangeData, ExpireTag, MarkStale, Age, Evict, jobVars, vars

LEMMA GenerationShapeStep ==
  TypeOK /\ JobShape /\ GenerationShape /\ [Next]_vars => GenerationShape'
<1> SUFFICES ASSUME TypeOK, JobShape, GenerationShape, [Next]_vars PROVE GenerationShape'
  OBVIOUS
<1>0. generation \in [Generations -> [phase : {"none", "scheduled", "rendered", "writing", "done"},
                                     previous : MaybeEntry, outcome : MaybeVersion]]
  BY DEF TypeOK
<1>1. ASSUME NEW j \in Jobs, EndsGet(j) PROVE GenerationShape'
  <2>1. \/ UNCHANGED generation
        \/ \E hit : generation' = [generation EXCEPT ![j] =
                [phase |-> "scheduled", previous |-> hit, outcome |-> {}]]
    <3>1. PICK hit \in MaybeEntry :
            AnswerOrRegenerate(j, hit) /\ job[j].phase \in {"scheduled", "reading", "dated"}
      BY <1>1, AnswerSteps
    <3>2. \/ UNCHANGED generation
          \/ generation' = [generation EXCEPT ![j] =
               [phase |-> "scheduled", previous |-> hit, outcome |-> {}]]
      BY <3>1, AnswerOrRegenerateFacts
    <3> QED BY ONLY <3>2
  <2> QED BY <2>1, <1>0 DEF GenerationShape
<1>2. ASSUME RevalidateStale PROVE GenerationShape'
  BY <1>0, <1>2 DEF RevalidateStale, PendingGenerations, GenerationShape, NoGeneration
<1>3. ASSUME NEW g \in Generations, GenerationStep(g) PROVE GenerationShape'
  <2>1. CASE ReadData(g)
    BY <1>0, <2>1 DEF ReadData, GenerationShape
  <2>2. CASE StoreResponse(g) \/ UncachedResponse(g) \/ NoResponse(g) \/ Fail(g)
    BY <1>0, <2>2 DEF StoreResponse, UncachedResponse, NoResponse, Fail, Finish, GenerationShape
  <2>3. CASE WriteFiles(g)
    <3>1. generation' = [generation EXCEPT ![g].phase = "done"]
      BY <2>3 DEF WriteFiles
    <3> QED BY <1>0, <3>1 DEF GenerationShape
  <2>4. CASE Settle(g)
    BY <1>0, <2>4 DEF Settle, GenerationShape, NoGeneration
  <2> QED BY <1>3, <2>1, <2>2, <2>3, <2>4 DEF GenerationStep
<1>4. ASSUME UNCHANGED generation PROVE GenerationShape'
  BY <1>4 DEF GenerationShape
<1> QED
  BY <1>1, <1>2, <1>3, <1>4
  DEF Next, HandleGet, EndsGet, Begin, ReadFile, StatFile, ChangeData, ExpireTag, MarkStale, Age, Evict,
      jobVars, vars

-----------------------------------------------------------------------------
(* How a step changes the contents.                                        *)
LEMMA ContentTypes ==
  ASSUME TypeOK
  PROVE  /\ \A e \in Held : e \in Entries
         /\ \A g \in Generations : /\ generation[g].previous \subseteq Entries
                                   /\ generation[g].outcome \subseteq Versions
         /\ \A j \in Jobs : job[j].answer \subseteq Versions
         /\ \A e \in Entries : e.version \in Int /\ e.modified \in Int
         /\ \A v \in Versions : v \in Int
         /\ now \in Int /\ source \in Int /\ expiredAt \in Int
BY DEF TypeOK, MaybeEntry, MaybeVersion, Entries, Versions, Held

\* An entry is new because a generation has stored it, or what it was given.
Stored(e) ==
  /\ now' = now /\ expiredAt' = expiredAt /\ e.modified = now
  /\ \E g \in Generations :
       e.version \in generation[g].outcome \/ \E p \in generation[g].previous : p.version = e.version

\* Or it is one that had been read already, and has got the time of the file.
Redated(e) ==
  /\ now' = now /\ expiredAt' = expiredAt
  /\ \E j \in Jobs : StatFile(j) /\ e \in Dated(job[j].read)

LEMMA NothingNew ==
  ASSUME TypeOK, JobShape, [Next]_vars, ~ \E g \in Generations : GenerationStep(g),
         ~ \E j \in Jobs : StatFile(j)
  PROVE  Held' \subseteq Held
<1>0. /\ job \in [Jobs -> [phase : {"none", "scheduled", "reading", "dated", "regenerating"},
                       prefetch : BOOLEAN, read : MaybeEntry, answer : MaybeVersion]]
  BY DEF TypeOK
<1>1. ASSUME NEW r \in Requests, NEW kind \in Kinds, Begin(r, kind) PROVE Held' \subseteq Held
  <2>1. \A j \in Jobs : job'[j] = job[j] \/ job'[j].read = {}
    <3>1. \/ job' = job
          \/ job' = [job EXCEPT ![JobOf(kind)] =
               [NoJob EXCEPT !.phase = "scheduled", !.prefetch = kind = "prefetch"]]
      BY <1>1 DEF Begin, jobVars
    <3> QED BY <1>0, <3>1 DEF NoJob
  <2> QED BY <1>1, <2>1 DEF Begin, cacheVars, Held
<1>2. ASSUME NEW j \in Jobs, ReadFile(j) PROVE Held' \subseteq Held
  <2>1. job'[j].read = disk /\ \A k \in Jobs \ {j} : job'[k] = job[k]
    BY <1>0, <1>2 DEF ReadFile
  <2>2. UNCHANGED <<memory, disk>>
    BY <1>2 DEF ReadFile, cacheVars
  <2> QED BY <2>1, <2>2 DEF Held
<1>3. ASSUME NEW j \in Jobs, EndsGet(j) PROVE Held' \subseteq Held
  <2>1. PICK hit \in MaybeEntry :
          AnswerOrRegenerate(j, hit) /\ job[j].phase \in {"scheduled", "reading", "dated"}
    BY <1>3, AnswerSteps
  <2>2. \A k \in Jobs : job'[k] = job[k] \/ job'[k].read = {}
    <3>1. /\ \A k \in Jobs \ {j} : job'[k] = job[k]
          /\ \/ job'[j] = NoJob
             \/ job'[j] = [NoJob EXCEPT !.phase = "regenerating", !.answer = CachedAnswer(j, hit)]
      BY <2>1, AnswerOrRegenerateFacts
    <3>2. CASE job'[j] = NoJob
      BY <3>1, <3>2 DEF NoJob
    <3>3. CASE job'[j] = [NoJob EXCEPT !.phase = "regenerating", !.answer = CachedAnswer(j, hit)]
      <4>1. job'[j].read = {}
        BY <3>3 DEF NoJob
      <4> QED BY <3>1, <4>1
    <3> QED BY <3>1, <3>2, <3>3
  <2>3. disk' = disk /\ (memory' = memory \/ memory' = job[j].read)
    BY <1>3, AnswerSteps
  <2> QED BY <2>2, <2>3 DEF Held
<1>4. ASSUME RevalidateStale \/ ChangeData \/ ExpireTag \/ MarkStale \/ Age \/ Evict \/ UNCHANGED vars
      PROVE  Held' \subseteq Held
  BY <1>4 DEF RevalidateStale, ChangeData, ExpireTag, MarkStale, Age, Evict, vars, Held, cacheVars, jobVars
<1> QED
  BY <1>1, <1>2, <1>3, <1>4 DEF Next, HandleGet, EndsGet

LEMMA HeldStep ==
  ASSUME TypeOK, JobShape, [Next]_vars
  PROVE  \A e \in Held' : e \in Held \/ Stored(e) \/ Redated(e)
<1>1. ASSUME NEW g \in Generations, GenerationStep(g) PROVE \A e \in Held' : e \in Held \/ Stored(e)
  <2>1. CASE ReadData(g) \/ UncachedResponse(g) \/ NoResponse(g)
    BY <2>1 DEF ReadData, UncachedResponse, NoResponse, Finish, Held, cacheVars
  <2>2. CASE StoreResponse(g)
    BY <2>2 DEF StoreResponse, Finish, CacheSet, Stamped, Stored, Held, tagVars
  <2>3. CASE Fail(g)
    BY <2>3 DEF Fail, Finish, CacheSet, Stamped, VersionsOf, Stored, Held, tagVars, cacheVars
  <2>4. CASE WriteFiles(g)
    <3>1. /\ disk' = disk \/ disk' = Stamped(generation[g].outcome)
             \/ disk' = Stamped(VersionsOf(generation[g].previous))
          /\ UNCHANGED <<now, expiredAt, memory, job>>
      BY <2>4 DEF WriteFiles, tagVars
    <3> QED BY <3>1 DEF Stamped, VersionsOf, Stored, Held
  <2>5. CASE Settle(g)
    <3>1. \A k \in Jobs : job'[k] = job[k] \/ job'[k].read = {}
      BY <2>5 DEF Settle, NoJob
    <3> QED BY <2>5, <3>1 DEF Settle, cacheVars, Held
  <2> QED BY <1>1, <2>1, <2>2, <2>3, <2>4, <2>5 DEF GenerationStep
<1>2. ASSUME NEW j \in Jobs, StatFile(j) PROVE \A e \in Held' : e \in Held \/ Redated(e)
  BY <1>2, StatEffect DEF Held, Redated
<1> QED
  BY <1>1, <1>2, NothingNew

\* What is dated has the version of what was read, and the time of the file.
LEMMA RedatedIsRead ==
  ASSUME NEW e, Redated(e)
  PROVE  \E r \in Held, d \in Held :
           /\ e.version = r.version /\ e.modified = d.modified
           /\ r.version < d.version => \E j \in Jobs : StatFile(j) /\ Overtaken(job[j].read)
<1>1. PICK j \in Jobs : StatFile(j) /\ e \in Dated(job[j].read)
  BY DEF Redated
<1>2. PICK r \in job[j].read, d \in disk : e = [version |-> r.version, modified |-> d.modified]
  BY <1>1 DEF Dated
<1> QED BY <1>1, <1>2 DEF Held, Overtaken

LEMMA ClockStep ==
  ASSUME TypeOK, [Next]_vars
  PROVE  /\ now' >= now /\ source' >= source /\ expiredAt' >= expiredAt
         /\ now' \in Int /\ source' \in Int /\ expiredAt' \in Int
<1>1. now \in Int /\ source \in Int /\ expiredAt \in Int /\ expiredAt <= now
  BY DEF TypeOK, Versions
<1>2. CASE UNCHANGED <<now, source, expiredAt>>
  BY <1>1, <1>2
<1>3. CASE ChangeData \/ ExpireTag \/ MarkStale \/ Age
  BY <1>1, <1>3 DEF ChangeData, ExpireTag, MarkStale, Age
<1> QED
  BY <1>2, <1>3
  DEF Next, HandleGet, GenerationStep, Begin, ReadFile, StatFile, FoundInMemory, FileWasRead, ReadFails,
      ReadData, StoreResponse, UncachedResponse, NoResponse, Fail, Finish, WriteFiles, Settle,
      RevalidateStale, Evict, tagVars, vars

\* What is rendered is the data.  What has been rendered and is not stored yet is
\* all that a step has to do with: no new content is held.
LEMMA OutcomeStep ==
  ASSUME TypeOK, SingleFlight, JobShape, GenerationShape, [Next]_vars, NEW g \in Generations
  PROVE  /\ \/ generation'[g].outcome \subseteq generation[g].outcome
            \/ generation'[g].outcome = {source}
         /\ generation'[g].phase = "rendered" =>
              /\ \/ generation'[g].outcome = {source}
                 \/ generation[g].phase = "rendered" /\ generation'[g].outcome = generation[g].outcome
              /\ \A e \in Held' : \E h \in Held : e.version = h.version
<1> DEFINE
  Q == /\ \/ generation'[g].outcome \subseteq generation[g].outcome
          \/ generation'[g].outcome = {source}
       /\ generation'[g].phase = "rendered" =>
            /\ \/ generation'[g].outcome = {source}
               \/ generation[g].phase = "rendered" /\ generation'[g].outcome = generation[g].outcome
            /\ \A e \in Held' : \E h \in Held : e.version = h.version
<1>0. /\ generation \in [Generations -> [phase : {"none", "scheduled", "rendered", "writing", "done"},
                                     previous : MaybeEntry, outcome : MaybeVersion]]
      /\ generation[g].phase = "none" => generation[g].outcome = {}
  BY DEF TypeOK, GenerationShape, NoGeneration
<1>1. ASSUME NEW h \in Generations, GenerationStep(h) PROVE Q
  <2>1. \A k \in Generations \ {h} : generation'[k] = generation[k]
    BY <1>0, <1>1 DEF GenerationStep, ReadData, StoreResponse, UncachedResponse, NoResponse, Fail,
                      WriteFiles, Settle, Finish
  <2>2. generation[h].phase # "none"
    BY <1>1 DEF GenerationStep, ReadData, StoreResponse, UncachedResponse, NoResponse, Fail,
                WriteFiles, Settle, Finish
  <2>3. CASE g # h
    BY <2>1, <2>2, <2>3, <1>0 DEF SingleFlight
  <2>4. CASE g = h /\ ReadData(g)
    <3>1. Held' = Held
      BY <2>4 DEF ReadData, Held, cacheVars
    <3> QED BY <1>0, <2>4, <3>1 DEF ReadData
  <2>5. CASE g = h /\ ~ReadData(g)
    BY <1>0, <1>1, <2>5 DEF GenerationStep, StoreResponse, UncachedResponse, NoResponse, Fail,
                            WriteFiles, Settle, Finish, NoGeneration
  <2> QED BY <2>3, <2>4, <2>5
<1>2. ASSUME Held' \subseteq Held, NEW j \in Jobs, EndsGet(j) PROVE Q
  <2>1. PICK hit \in MaybeEntry :
          AnswerOrRegenerate(j, hit) /\ job[j].phase \in {"scheduled", "reading", "dated"}
    BY <1>2, AnswerSteps
  <2>2. \/ UNCHANGED generation
        \/ generation' = [generation EXCEPT ![j] =
                [phase |-> "scheduled", previous |-> hit, outcome |-> {}]]
    BY <2>1, AnswerOrRegenerateFacts
  <2> QED BY <1>0, <1>2, <2>2
<1>3. ASSUME Held' \subseteq Held, RevalidateStale PROVE Q
  <2>1. /\ generation'[g].outcome = generation[g].outcome
        /\ generation'[g].phase = generation[g].phase \/ generation'[g].phase = "scheduled"
    BY <1>0, <1>3 DEF RevalidateStale
  <2> QED BY <1>3, <2>1
<1>4. ASSUME UNCHANGED generation, Held' \subseteq Held PROVE Q
  BY <1>4
<1>5. CASE \E h \in Generations : GenerationStep(h)
  BY <1>1, <1>5
<1>6. ASSUME NEW j \in Jobs, StatFile(j) PROVE Q
  <2>1. \A e \in Held' : \E h \in Held : e.version = h.version
    <3> TAKE e \in Held'
    <3>1. e \in Held \/ Redated(e)
      BY <1>6, StatEffect DEF Held, Redated
    <3> QED BY <3>1, RedatedIsRead
  <2> QED BY <1>6, <2>1, StatEffect
<1>7. CASE ~(\E h \in Generations : GenerationStep(h)) /\ ~(\E j \in Jobs : StatFile(j))
  <2>1. Held' \subseteq Held
    BY <1>7, NothingNew
  <2> QED
    BY <1>2, <1>3, <1>4, <1>7, <2>1
    DEF Next, HandleGet, EndsGet, Begin, ReadFile, ChangeData, ExpireTag, MarkStale, Age, Evict, jobVars, vars
<1> QED
  BY <1>5, <1>6, <1>7

\* A generation gets the entry that was found, and answers are its content.
LEMMA FoundStep ==
  ASSUME TypeOK, JobShape, GenerationShape, [Next]_vars
  PROVE  /\ \A g \in Generations : \A e \in generation'[g].previous :
              e \in generation[g].previous \/ (e \in Held /\ ~AreTagsExpired(e))
         /\ \A j \in Jobs : \A v \in job'[j].answer :
              v \in job[j].answer \/ \E e \in Held : ~AreTagsExpired(e) /\ v = e.version
<1> DEFINE
  Q == /\ \A g \in Generations : \A e \in generation'[g].previous :
              e \in generation[g].previous \/ (e \in Held /\ ~AreTagsExpired(e))
       /\ \A j \in Jobs : \A v \in job'[j].answer :
              v \in job[j].answer \/ \E e \in Held : ~AreTagsExpired(e) /\ v = e.version
<1>0. /\ generation \in [Generations -> [phase : {"none", "scheduled", "rendered", "writing", "done"},
                                     previous : MaybeEntry, outcome : MaybeVersion]]
      /\ job \in [Jobs -> [phase : {"none", "scheduled", "reading", "dated", "regenerating"},
                       prefetch : BOOLEAN, read : MaybeEntry, answer : MaybeVersion]]
  BY DEF TypeOK
<1>1. ASSUME NEW j \in Jobs, EndsGet(j) PROVE Q
  <2>1. PICK found \in MaybeEntry :
           /\ found \in {memory, job[j].read, {}}
           /\ AnswerOrRegenerate(j, NotExpired(found)) /\ NotExpired(found) \in MaybeEntry
           /\ job[j].phase \in {"scheduled", "reading", "dated"}
    BY <1>1, AnswerSteps
  <2> DEFINE hit == NotExpired(found)
  <2>2. \A e \in hit : e \in Held /\ ~AreTagsExpired(e)
    BY <2>1 DEF NotExpired, Held
  <2>3. \A v \in CachedAnswer(j, hit) : \E e \in Held : ~AreTagsExpired(e) /\ v = e.version
    BY <2>2 DEF CachedAnswer, VersionsOf
  <2>4. hit \in MaybeEntry /\ AnswerOrRegenerate(j, hit)
    BY <2>1
  <2> HIDE DEF hit
  <2>5. /\ \A k \in Jobs \ {j} : job'[k] = job[k]
        /\ \/ job'[j] = NoJob
           \/ job'[j] = [NoJob EXCEPT !.phase = "regenerating", !.answer = CachedAnswer(j, hit)]
        /\ \/ UNCHANGED generation
           \/ generation' = [generation EXCEPT ![j] =
                [phase |-> "scheduled", previous |-> hit, outcome |-> {}]]
    BY <2>1, <2>4, AnswerOrRegenerateFacts
  <2>6. job'[j].answer = {} \/ job'[j].answer = CachedAnswer(j, hit)
    <3>1. CASE job'[j] = NoJob
      BY <3>1 DEF NoJob
    <3>2. CASE job'[j] = [NoJob EXCEPT !.phase = "regenerating", !.answer = CachedAnswer(j, hit)]
      BY <3>2 DEF NoJob
    <3> QED BY <2>5, <3>1, <3>2
  <2>7. \A g \in Generations : generation'[g] = generation[g] \/ generation'[g].previous = hit
    BY <1>0, <2>5
  <2> QED BY <2>2, <2>3, <2>5, <2>6, <2>7
<1>2. ASSUME \A g \in Generations : generation'[g].previous \in {{}, generation[g].previous},
             \A j \in Jobs : job'[j].answer \in {{}, job[j].answer}
      PROVE  Q
  BY <1>2
<1>3. CASE \E g \in Generations : GenerationStep(g)
  <2>1. PICK h \in Generations : GenerationStep(h)
    BY <1>3
  <2>2. /\ \A g \in Generations : generation'[g].previous \in {{}, generation[g].previous}
        /\ \A j \in Jobs : job'[j].answer \in {{}, job[j].answer}
    <3>1. CASE ReadData(h) \/ WriteFiles(h)
      BY <1>0, <3>1 DEF ReadData, WriteFiles
    <3>2. ASSUME NEW phase, NEW outcome, Finish(h, phase, outcome)
          PROVE  /\ \A g \in Generations : generation'[g].previous = generation[g].previous
                 /\ job' = job
      BY <1>0, <3>2 DEF Finish
    <3>3. CASE StoreResponse(h) \/ UncachedResponse(h) \/ NoResponse(h) \/ Fail(h)
      <4>1. \E phase, outcome : Finish(h, phase, outcome)
        BY <3>3 DEF StoreResponse, UncachedResponse, NoResponse, Fail
      <4> QED BY <3>2, <4>1
    <3>4. CASE Settle(h)
      BY <1>0, <3>4 DEF Settle, NoGeneration, NoJob
    <3> QED BY <2>1, <3>1, <3>3, <3>4 DEF GenerationStep
  <2> QED BY <1>2, <2>2
<1>4. ASSUME NEW r \in Requests, NEW kind \in Kinds, Begin(r, kind) PROVE Q
  <2>1. \A j \in Jobs : job'[j] = job[j] \/ job'[j].answer = {}
    <3>1. CASE UNCHANGED job
      BY <3>1
    <3>2. CASE job' = [job EXCEPT ![JobOf(kind)] =
                 [NoJob EXCEPT !.phase = "scheduled", !.prefetch = kind = "prefetch"]]
      BY <1>0, <3>2 DEF NoJob
    <3> QED BY <1>4, <3>1, <3>2 DEF Begin, jobVars
  <2> QED BY <1>4, <2>1 DEF Begin, jobVars
<1>5. ASSUME NEW j \in Jobs, ReadFile(j) PROVE Q
  <2>1. \A k \in Jobs : job'[k].answer = job[k].answer
    BY <1>0, <1>5 DEF ReadFile
  <2> QED BY <1>5, <2>1 DEF ReadFile
<1>6. ASSUME NEW j \in Jobs, StatFile(j) PROVE Q
  <2>1. UNCHANGED generation /\ \A k \in Jobs : job'[k].answer = job[k].answer
    BY <1>6, StatEffect
  <2> QED BY <2>1
<1>7. ASSUME RevalidateStale PROVE Q
  <2>1. \A g \in Generations : generation'[g].previous = generation[g].previous
    BY <1>0, <1>7 DEF RevalidateStale
  <2> QED BY <1>7, <2>1 DEF RevalidateStale
<1>8. ASSUME ChangeData \/ ExpireTag \/ MarkStale \/ Age \/ Evict \/ UNCHANGED vars PROVE Q
  BY <1>8 DEF ChangeData, ExpireTag, MarkStale, Age, Evict, jobVars, vars
<1> QED
  BY <1>1, <1>3, <1>4, <1>5, <1>6, <1>7, <1>8 DEF Next, HandleGet, EndsGet

-----------------------------------------------------------------------------
(* Times and versions.                                                     *)
LEMMA StampsStep == TypeOK /\ JobShape /\ Stamps /\ [Next]_vars => Stamps'
<1> SUFFICES ASSUME TypeOK, JobShape, Stamps, [Next]_vars, NEW e \in Held' PROVE e.modified <= now'
  BY DEF Stamps
<1>1. CASE e \in Held
  <2>1. e.modified <= now /\ e.modified \in Int /\ now \in Int /\ now' \in Int
    BY <1>1, ContentTypes, ClockStep DEF Stamps
  <2>2. now' >= now
    BY ClockStep
  <2> QED BY <2>1, <2>2
<1>2. CASE Stored(e)
  BY <1>2, ContentTypes DEF Stored
<1>3. CASE Redated(e)
  BY <1>3, RedatedIsRead DEF Redated, Stamps
<1> QED BY <1>1, <1>2, <1>3, HeldStep

LEMMA NewestStep ==
  TypeOK /\ SingleFlight /\ JobShape /\ GenerationShape /\ Newest /\ [Next]_vars => Newest'
<1> SUFFICES ASSUME TypeOK, SingleFlight, JobShape, GenerationShape, Newest, [Next]_vars
             PROVE  Newest'
  OBVIOUS
<1>0. /\ source' >= source /\ source \in Int /\ source' \in Int
      /\ \A e \in Held : e.version <= source /\ e.version \in Int
      /\ \A g \in Generations : /\ \A e \in generation[g].previous : e.version <= source /\ e.version \in Int
                                /\ \A w \in generation[g].outcome : w <= source /\ w \in Int
  BY ClockStep, ContentTypes DEF Newest
<1>1. \A e \in Held' : e.version <= source'
  <2> TAKE e \in Held'
  <2>1. e \in Held \/ Stored(e) \/ Redated(e)
    BY HeldStep
  <2>2. CASE e \in Held \/ Redated(e)
    <3>1. \E h \in Held : e.version = h.version
      BY <2>2, RedatedIsRead
    <3> QED BY <1>0, <3>1
  <2>3. CASE Stored(e)
    <3>1. e.version <= source /\ e.version \in Int
      BY <1>0, <2>3 DEF Stored
    <3> QED BY <1>0, <3>1
  <2> QED BY <2>1, <2>2, <2>3
<1>2. ASSUME NEW g \in Generations
      PROVE  /\ \A e \in generation'[g].previous : e.version <= source'
             /\ \A w \in generation'[g].outcome : w <= source'
  <2>1. \A e \in generation'[g].previous : e \in generation[g].previous \/ e \in Held
    BY FoundStep
  <2>2. generation'[g].outcome \subseteq generation[g].outcome \/ generation'[g].outcome = {source}
    BY OutcomeStep
  <2> QED BY <1>0, <2>1, <2>2
<1>3. ASSUME NEW g \in Generations, generation'[g].phase = "rendered",
             NEW w \in generation'[g].outcome, NEW e \in Held'
      PROVE  e.version <= w
  <2>1. PICK h \in Held : e.version = h.version
    BY <1>3, OutcomeStep
  <2>2. \/ generation'[g].outcome = {source}
        \/ generation[g].phase = "rendered" /\ generation'[g].outcome = generation[g].outcome
    BY <1>3, OutcomeStep
  <2>3. CASE generation'[g].outcome = {source}
    BY <1>0, <2>1, <2>3
  <2>4. CASE generation[g].phase = "rendered" /\ generation'[g].outcome = generation[g].outcome
    BY <2>1, <2>4 DEF Newest
  <2> QED BY <2>2, <2>3, <2>4
<1> QED BY <1>1, <1>2, <1>3 DEF Newest

\* Content that is at least x remains so, as long as nothing asks for more, and no
\* older content gets the time of newer one.
NoneOvertaken == \A j \in Jobs : StatFile(j) => ~Overtaken(job[j].read)

LEMMA RendersFromStep ==
  ASSUME TypeOK, SingleFlight, JobShape, GenerationShape, [Next]_vars, NEW x \in Int, RendersFrom(x)
  PROVE  RendersFrom(x)'
<1>1. x <= source /\ x <= source' /\ source \in Int
  BY ClockStep, ContentTypes DEF RendersFrom
<1>2. ASSUME NEW g \in Generations, NEW v \in generation'[g].outcome PROVE v >= x
  <2>1. v \in generation[g].outcome \/ v = source
    BY <1>2, OutcomeStep
  <2> QED BY <1>1, <2>1 DEF RendersFrom
<1> QED BY <1>1, <1>2 DEF RendersFrom

LEMMA AnswersFromStep ==
  ASSUME TypeOK, SingleFlight, JobShape, GenerationShape, [Next]_vars, NEW x \in Int, AnswersFrom(x),
         NoneOvertaken \/ x = 0
  PROVE  AnswersFrom(x)'
<1>1. RendersFrom(x)'
  BY RendersFromStep DEF AnswersFrom
<1>2. \A e \in Held : ~AreTagsExpired(e) => e.version >= x
  BY DEF AnswersFrom
<1>3. ASSUME NEW g \in Generations, NEW e \in generation'[g].previous PROVE e.version >= x
  <2>1. e \in generation[g].previous \/ (e \in Held /\ ~AreTagsExpired(e))
    BY <1>3, FoundStep
  <2> QED BY <1>2, <2>1 DEF AnswersFrom
<1>4. ASSUME NEW e \in Held' PROVE AreTagsExpired(e)' \/ e.version >= x
  <2>1. CASE e \in Held
    <3>1. CASE AreTagsExpired(e)
      <4>1. expiredAt > e.modified /\ e.modified \in Int /\ expiredAt \in Int
        BY <2>1, <3>1, ContentTypes DEF AreTagsExpired
      <4>2. expiredAt' >= expiredAt /\ expiredAt' \in Int
        BY ClockStep
      <4> QED BY <4>1, <4>2 DEF AreTagsExpired
    <3> QED BY <1>2, <2>1, <3>1
  <2>2. CASE Stored(e)
    <3>1. CASE \E g \in Generations : e.version \in generation[g].outcome
      BY <3>1 DEF AnswersFrom, RendersFrom
    <3>2. CASE \E g \in Generations : \E p \in generation[g].previous : p.version = e.version
      BY <3>2 DEF AnswersFrom
    <3> QED BY <2>2, <3>1, <3>2 DEF Stored
  <2>3. CASE Redated(e)
    <3>1. PICK r \in Held, d \in Held :
            /\ e.version = r.version /\ e.modified = d.modified
            /\ r.version < d.version => ~NoneOvertaken
      BY <2>3, RedatedIsRead DEF NoneOvertaken
    <3>2. r.version \in Versions /\ d.version \in Int /\ r.version \in Int /\ r.version >= 0
      BY ContentTypes DEF Entries, Versions
    <3>3. CASE NoneOvertaken /\ ~AreTagsExpired(d)
      BY <1>2, <3>1, <3>2, <3>3
    <3>4. CASE AreTagsExpired(d)
      BY <2>3, <3>1, <3>4 DEF Redated, AreTagsExpired
    <3> QED BY <3>1, <3>2, <3>3, <3>4
  <2> QED BY <2>1, <2>2, <2>3, HeldStep
<1>5. ASSUME NEW j \in Jobs, NEW v \in job'[j].answer PROVE v >= x
  <2>1. v \in job[j].answer \/ \E e \in Held : ~AreTagsExpired(e) /\ v = e.version
    BY <1>5, FoundStep
  <2> QED BY <1>2, <2>1 DEF AnswersFrom
<1> QED BY <1>1, <1>3, <1>4, <1>5 DEF AnswersFrom

-----------------------------------------------------------------------------
(* What requests are owed.                                                 *)
LEMMA AnswersFromZero == TypeOK => AnswersFrom(0)
<1> SUFFICES ASSUME TypeOK PROVE AnswersFrom(0)
  OBVIOUS
<1>1. (\A v \in Versions : v >= 0) /\ (\A e \in Entries : e.version >= 0) /\ source >= 0
  BY DEF Versions, Entries, TypeOK
<1> QED BY <1>1, ContentTypes DEF AnswersFrom, RendersFrom

LEMMA AskedForIsPromised ==
  ASSUME TypeOK, GenerationShape, JobShape, Floors, NEW kind \in Kinds
  PROVE  /\ AskedFor(kind) \in Int
         /\ RendersFrom(AskedFor(kind))
         /\ JobOf(kind) = "get" => AnswersFrom(AskedFor(kind))
<1>1. /\ owed.version \in Int /\ owed.certain \in BOOLEAN /\ source \in Int /\ source >= 0
      /\ 0 \in Int
  BY DEF TypeOK, Versions
<1>2. AnswersFrom(0)
  BY AnswersFromZero
<1>3. CASE kind = "onDemand" /\ NothingRead
  <2>1. AskedFor(kind) = source
    BY <1>3 DEF AskedFor
  <2>2. \A g \in Generations : generation[g].outcome = {}
    BY <1>3 DEF NothingRead, GenerationShape, NoGeneration
  <2>3. JobOf(kind) = "onDemand"
    BY <1>3 DEF JobOf
  <2> QED BY <1>1, <2>1, <2>2, <2>3 DEF RendersFrom
<1>4. CASE ~(kind = "onDemand" /\ NothingRead) /\ owed.certain
  <2>1. AskedFor(kind) = owed.version
    BY <1>4 DEF AskedFor
  <2> QED BY <1>1, <1>4, <2>1 DEF Floors, AnswersFrom
<1>5. CASE ~(kind = "onDemand" /\ NothingRead) /\ ~owed.certain
  <2>1. AskedFor(kind) = 0
    BY <1>5 DEF AskedFor
  <2> QED BY <1>1, <1>2, <2>1 DEF AnswersFrom
<1> QED BY <1>3, <1>4, <1>5

\* A request that waits has just begun, or asks for what it has asked for.
LEMMA WaitStep ==
  ASSUME TypeOK, [Next]_vars, NoneOvertaken, NEW r \in Requests, waitsFor'[r] # {}
  PROVE  \/ waitsFor'[r] = waitsFor[r] /\ atLeast'[r] = atLeast[r]
         \/ \E kind \in Kinds :
              Begin(r, kind) /\ waitsFor'[r] = {JobOf(kind)} /\ atLeast'[r] = AskedFor(kind)
<1>0. /\ waitsFor \in [Requests -> {{}} \cup {{j} : j \in Jobs}]
      /\ atLeast \in [Requests -> Versions]
  BY DEF TypeOK
<1>1. ASSUME NEW q \in Requests, NEW kind \in Kinds, Begin(q, kind)
      PROVE  \/ waitsFor'[r] = waitsFor[r] /\ atLeast'[r] = atLeast[r]
             \/ q = r /\ waitsFor'[r] = {JobOf(kind)} /\ atLeast'[r] = AskedFor(kind)
  BY <1>0, <1>1 DEF Begin
<1>2. ASSUME NEW J, NEW answer, Respond(J, answer)
      PROVE  waitsFor'[r] = waitsFor[r] /\ atLeast'[r] = atLeast[r]
  <2>1. waitsFor'[r] = waitsFor[r] \ J
    BY <1>2 DEF Respond
  <2>2. waitsFor[r] \cap J = {} /\ waitsFor'[r] = waitsFor[r]
    BY <1>0, <2>1
  <2> QED BY <1>2, <2>2 DEF Respond
<1>3. CASE UNCHANGED requestVars
  BY <1>3 DEF requestVars
<1>4. ASSUME NEW j \in Jobs, EndsGet(j)
      PROVE  waitsFor'[r] = waitsFor[r] /\ atLeast'[r] = atLeast[r]
  BY <1>2, <1>3, <1>4 DEF EndsGet, FoundInMemory, FileWasRead, ReadFails, AnswerOrRegenerate, requestVars
<1>5. ASSUME NEW j \in Jobs, StatFile(j) PROVE waitsFor'[r] = waitsFor[r] /\ atLeast'[r] = atLeast[r]
  BY <1>5 DEF NoneOvertaken, StatFile
<1>6. ASSUME NEW g \in Generations, GenerationStep(g)
      PROVE  waitsFor'[r] = waitsFor[r] /\ atLeast'[r] = atLeast[r]
  BY <1>2, <1>3, <1>6 DEF GenerationStep, ReadData, StoreResponse, UncachedResponse, NoResponse, Fail,
                          WriteFiles, Settle, Finish, requestVars
<1> QED
  BY <1>1, <1>3, <1>4, <1>5, <1>6
  DEF Next, HandleGet, EndsGet, ReadFile, RevalidateStale, ChangeData, ExpireTag, MarkStale, Age, Evict, vars

LEMMA OvertakenStep ==
  ASSUME TypeOK, SingleFlight, JobShape, GenerationShape, Floors, [Next]_vars,
         NEW j \in Jobs, StatFile(j), Overtaken(job[j].read)
  PROVE  Floors'
<1>1. /\ owed' = [owed EXCEPT !.certain = FALSE]
      /\ atLeast' = [r \in Requests |-> IF waitsFor[r] = {"get"} THEN 0 ELSE atLeast[r]]
      /\ waitsFor' = waitsFor
  BY DEF StatFile
<1>2. ~owed'.certain
  BY <1>1 DEF TypeOK
<1>3. AnswersFrom(0)'
  BY AnswersFromZero, AnswersFromStep
<1>4. ASSUME NEW r \in Requests
      PROVE  /\ (waitsFor[r] = {"get"} => AnswersFrom(atLeast[r]))'
             /\ (waitsFor[r] = {"onDemand"} => RendersFrom(atLeast[r]))'
  <2>1. CASE waitsFor[r] = {"get"}
    BY <1>1, <1>3, <2>1 DEF AnswersFrom, RendersFrom, AreTagsExpired
  <2>2. CASE waitsFor[r] = {"onDemand"}
    <3>1. PICK x \in Int : x = atLeast[r]
      BY DEF TypeOK, Versions
    <3>2. RendersFrom(x)'
      BY <2>2, <3>1, RendersFromStep DEF Floors
    <3> QED BY <1>1, <2>2, <3>1, <3>2 DEF RendersFrom
  <2> QED BY <1>1, <2>1, <2>2
<1> QED BY <1>2, <1>4 DEF Floors

LEMMA FloorsStep ==
  TypeOK /\ SingleFlight /\ JobShape /\ GenerationShape /\ Stamps /\ Floors /\ [Next]_vars => Floors'
<1> SUFFICES ASSUME TypeOK, SingleFlight, JobShape, GenerationShape, Stamps, Floors, [Next]_vars,
                    NoneOvertaken
             PROVE  Floors'
  BY OvertakenStep DEF NoneOvertaken
<1>1. (owed.certain => AnswersFrom(owed.version))'
  <2>1. CASE owed' = owed
    <3>1. owed.version \in Int
      BY DEF TypeOK, Versions
    <3> QED BY <2>1, <3>1, AnswersFromStep DEF Floors
  <2>2. CASE ExpireTag /\ owed'.certain
    <3>1. /\ ~UnderWay /\ owed'.version = source /\ expiredAt' = now + 1
          /\ UNCHANGED <<source, memory, disk, job, generation>>
      BY <2>2 DEF ExpireTag, cacheVars, jobVars
    <3>2. \A j \in Jobs : job[j].answer = {}
      BY <3>1 DEF UnderWay, JobShape, NoJob
    <3>3. \A g \in Generations : generation[g].outcome = {} /\ generation[g].previous = {}
      BY <3>1 DEF UnderWay, PendingGenerations, GenerationShape, NoGeneration
    <3>4. \A e \in Held : AreTagsExpired(e)'
      <4> TAKE e \in Held
      <4>1. e.modified <= now /\ e.modified \in Int /\ now \in Int
        BY ContentTypes DEF Stamps
      <4> QED BY <3>1, <4>1 DEF AreTagsExpired
    <3>5. Held' = Held
      BY <3>1 DEF Held
    <3>6. source <= source
      BY DEF TypeOK, Versions
    <3> QED BY <3>1, <3>2, <3>3, <3>4, <3>5, <3>6 DEF AnswersFrom, RendersFrom
  <2>3. ASSUME NEW j \in Jobs, StatFile(j) PROVE owed' = owed
    BY <2>3 DEF NoneOvertaken, StatFile, TypeOK
  <2>4. owed' = owed \/ ExpireTag \/ \E j \in Jobs : StatFile(j)
    BY DEF Next, HandleGet, GenerationStep, Begin, ReadFile, FoundInMemory, FileWasRead, ReadFails,
           ReadData, StoreResponse, UncachedResponse, NoResponse, Fail, Finish, WriteFiles, Settle,
           RevalidateStale, ChangeData, MarkStale, Age, Evict, vars, tagVars
  <2> QED BY <2>1, <2>2, <2>3, <2>4
<1>2. ASSUME NEW r \in Requests, waitsFor'[r] # {}
      PROVE  \E x \in Int :
               /\ x = atLeast'[r]
               /\ waitsFor'[r] = {"get"} => AnswersFrom(x)
               /\ waitsFor'[r] = {"onDemand"} => RendersFrom(x)
  <2>1. CASE waitsFor'[r] = waitsFor[r] /\ atLeast'[r] = atLeast[r]
    BY <2>1 DEF Floors, TypeOK, Versions
  <2>2. CASE \E kind \in Kinds :
               Begin(r, kind) /\ waitsFor'[r] = {JobOf(kind)} /\ atLeast'[r] = AskedFor(kind)
    BY <2>2, AskedForIsPromised
  <2> QED BY <1>2, <2>1, <2>2, WaitStep
<1>3. ASSUME NEW r \in Requests
      PROVE  /\ (waitsFor[r] = {"get"} => AnswersFrom(atLeast[r]))'
             /\ (waitsFor[r] = {"onDemand"} => RendersFrom(atLeast[r]))'
  <2>1. CASE waitsFor'[r] = {"get"}
    <3>1. atLeast'[r] \in Int /\ AnswersFrom(atLeast'[r])
      BY <1>2, <2>1
    <3>2. PICK x \in Int : x = atLeast'[r] /\ AnswersFrom(x)
      BY <3>1
    <3>3. AnswersFrom(x)'
      BY <3>2, AnswersFromStep
    <3> QED BY <2>1, <3>2, <3>3 DEF AnswersFrom, RendersFrom, AreTagsExpired
  <2>2. CASE waitsFor'[r] = {"onDemand"}
    <3>1. atLeast'[r] \in Int /\ RendersFrom(atLeast'[r])
      BY <1>2, <2>2
    <3>2. PICK x \in Int : x = atLeast'[r] /\ RendersFrom(x)
      BY <3>1
    <3>3. RendersFrom(x)'
      BY <3>2, RendersFromStep
    <3> QED BY <2>2, <3>2, <3>3 DEF RendersFrom
  <2> QED BY <2>1, <2>2
<1> QED BY <1>1, <1>3 DEF Floors

\* Nobody is answered with less than was asked for.
LEMMA CurrentStep ==
  TypeOK /\ JobShape /\ GenerationShape /\ Floors /\ AnswersAreCurrent /\ [Next]_vars => AnswersAreCurrent'
<1> SUFFICES ASSUME TypeOK, JobShape, GenerationShape, Floors, AnswersAreCurrent, [Next]_vars
             PROVE  AnswersAreCurrent'
  OBVIOUS
<1> USE DEF AnswersAreCurrent
<1>0. /\ waitsFor \in [Requests -> {{}} \cup {{j} : j \in Jobs}]
      /\ atLeast \in [Requests -> Versions] /\ \A v \in Versions : v \in Int
  BY DEF TypeOK, Versions
<1>1. ASSUME NEW r \in Requests, NEW kind \in Kinds, Begin(r, kind) PROVE outdated' = {}
  <2> DEFINE j == JobOf(kind)
  <2>1. CASE job[j].answer = {}
    BY <1>1, <2>1 DEF Begin
  <2>2. CASE job[j].answer # {}
    <3>1. j = "get"
      BY <2>2, ResponseCacheAssumption DEF JobShape, JobOf
    <3>2. AnswersFrom(AskedFor(kind)) /\ AskedFor(kind) \in Int
      BY <3>1, AskedForIsPromised
    <3>3. \A v \in job[j].answer : v >= AskedFor(kind) /\ v \in Int
      BY <3>1, <3>2, ContentTypes DEF AnswersFrom, Jobs
    <3>4. ~Outdated(job[j].answer, AskedFor(kind))
      BY <3>2, <3>3 DEF Outdated
    <3> QED BY <1>1, <2>2, <3>4 DEF Begin
  <2> QED BY <2>1, <2>2
<1>2. ASSUME NEW j \in Jobs, EndsGet(j) PROVE outdated' = {}
  <2>1. PICK found \in MaybeEntry :
           /\ found \in {memory, job[j].read, {}}
           /\ AnswerOrRegenerate(j, NotExpired(found))
    BY <1>2, AnswerSteps
  <2> DEFINE answer == CachedAnswer(j, NotExpired(found))
  <2>2. \A v \in answer : j = "get" /\ \E e \in Held : ~AreTagsExpired(e) /\ v = e.version
    BY <2>1 DEF CachedAnswer, VersionsOf, NotExpired, Held, Jobs
  <2>3. CASE answer = {}
    BY <2>1, <2>3 DEF AnswerOrRegenerate, requestVars
  <2>4. CASE answer # {}
    <3>1. j = "get" /\ Respond({j}, answer)
      BY <2>1, <2>2, <2>4 DEF AnswerOrRegenerate
    <3>2. ASSUME NEW r \in Requests, waitsFor[r] \cap {j} # {}, NEW v \in answer PROVE ~(v < atLeast[r])
      <4>1. waitsFor[r] = {"get"}
        BY <1>0, <3>1, <3>2
      <4>2. AnswersFrom(atLeast[r])
        BY <4>1 DEF Floors
      <4>3. PICK e \in Held : ~AreTagsExpired(e) /\ v = e.version
        BY <2>2
      <4>4. v >= atLeast[r] /\ v \in Int /\ atLeast[r] \in Int
        BY <1>0, <4>2, <4>3, ContentTypes DEF AnswersFrom
      <4> QED BY <4>4
    <3> QED BY <3>1, <3>2 DEF Respond, Outdated
  <2> QED BY <2>3, <2>4
<1>3. ASSUME NEW g \in Generations, Settle(g) PROVE outdated' = {}
  <2>1. ASSUME NEW r \in Requests, waitsFor[r] # {}, NEW v \in generation[g].outcome
        PROVE  ~(v < atLeast[r])
    <3>1. waitsFor[r] = {"get"} \/ waitsFor[r] = {"onDemand"}
      BY <1>0, <2>1 DEF Jobs
    <3>2. RendersFrom(atLeast[r])
      BY <3>1 DEF Floors, AnswersFrom
    <3>3. v >= atLeast[r] /\ v \in Int /\ atLeast[r] \in Int
      BY <1>0, <3>2, ContentTypes DEF RendersFrom
    <3> QED BY <3>3
  <2>2. Respond(Ended(g), generation[g].outcome)
    BY <1>3 DEF Settle
  <2> QED BY <2>1, <2>2 DEF Respond, Outdated
<1>4. ASSUME UNCHANGED outdated PROVE outdated' = {}
  BY <1>4
<1> QED
  BY <1>1, <1>2, <1>3, <1>4
  DEF Next, HandleGet, EndsGet, GenerationStep, ReadFile, StatFile, ReadData, StoreResponse,
      UncachedResponse, NoResponse, Fail, Finish, WriteFiles, RevalidateStale, ChangeData, ExpireTag,
      MarkStale, Age, Evict,
      requestVars, vars

\* What is found remains to be found until it is answered with.
LEMMA HitsStep ==
  TypeOK /\ JobShape /\ GenerationShape /\ Hits /\ [Next]_vars => Hits'
<1> SUFFICES ASSUME TypeOK, JobShape, GenerationShape, Hits, [Next]_vars PROVE Hits'
  OBVIOUS
<1>0. /\ job \in [Jobs -> [phase : {"none", "scheduled", "reading", "dated", "regenerating"},
                       prefetch : BOOLEAN, read : MaybeEntry, answer : MaybeVersion]]
      /\ waitsFor \in [Requests -> {{}} \cup {{j} : j \in Jobs}]
      /\ "get" \in Jobs /\ hits \subseteq Requests
  BY DEF TypeOK, Jobs
<1>1. ASSUME NEW r \in Requests, NEW kind \in Kinds, Begin(r, kind) PROVE Hits'
  <2>1. CacheGet' = CacheGet /\ expiredAt' = expiredAt /\ disk' = disk
    BY <1>1 DEF Begin, cacheVars, tagVars, CacheGet, NotExpired, AreTagsExpired
  <2>2. r \notin hits
    BY <1>1 DEF Begin, Hits
  <2>3. \A q \in hits : waitsFor'[q] = waitsFor[q]
    BY <1>0, <1>1, <2>2 DEF Begin
  <2>4. \A e : AreTagsExpired(e)' = AreTagsExpired(e)
    BY <2>1 DEF AreTagsExpired
  <2>5. /\ job["get"].phase # "none" => job'["get"] = job["get"]
        /\ JobOf(kind) = "get" /\ job["get"].phase = "none" => job'["get"].phase = "scheduled"
    <3>1. JobOf(kind) \in Jobs
      BY ResponseCacheAssumption DEF JobOf, Jobs
    <3>2. CASE job[JobOf(kind)].phase # "none"
      <4>1. job' = job
        BY <1>1, <3>2 DEF Begin, jobVars
      <4> QED BY <3>2, <4>1
    <3>3. CASE job[JobOf(kind)].phase = "none"
      <4>1. job' = [job EXCEPT ![JobOf(kind)] =
                [NoJob EXCEPT !.phase = "scheduled", !.prefetch = kind = "prefetch"]]
        BY <1>1, <3>3 DEF Begin
      <4>2. [NoJob EXCEPT !.phase = "scheduled", !.prefetch = kind = "prefetch"].phase = "scheduled"
        BY DEF NoJob
      <4> QED BY <1>0, <3>1, <3>3, <4>1, <4>2
    <3> QED BY <3>2, <3>3
  <2>6. ASSUME NEW q \in hits' PROVE q \in hits \/ (q = r /\ WillHit(JobOf(kind)) /\ waitsFor'[r] = {JobOf(kind)})
    BY <1>0, <1>1, <2>6 DEF Begin
  <2>7. ASSUME NEW q \in hits
        PROVE  /\ waitsFor'[q] = {"get"}
               /\ \/ job'["get"].phase = "scheduled" /\ CacheGet' # {}
                  \/ job'["get"].phase = "reading" /\ job'["get"].read # {} /\ NotExpired(disk)' # {}
                  \/ job'["get"].phase = "dated" /\ NotExpired(job["get"].read)' # {}
    <3>1. CASE job["get"].phase = "scheduled" /\ CacheGet # {}
      BY <2>1, <2>3, <2>5, <3>1 DEF Hits
    <3>2. CASE job["get"].phase = "reading" /\ job["get"].read # {} /\ NotExpired(disk) # {}
      BY <2>1, <2>3, <2>4, <2>5, <3>2 DEF Hits, NotExpired
    <3>3. CASE job["get"].phase = "dated" /\ NotExpired(job["get"].read) # {}
      BY <2>1, <2>3, <2>4, <2>5, <3>3 DEF Hits, NotExpired
    <3> QED BY <3>1, <3>2, <3>3 DEF Hits
  <2>8. ASSUME WillHit(JobOf(kind))
        PROVE  JobOf(kind) = "get" /\ job'["get"].phase = "scheduled" /\ CacheGet' # {}
    BY <2>1, <2>5, <2>8 DEF WillHit
  <2> QED BY <2>6, <2>7, <2>8 DEF Hits
<1>2. ASSUME NEW j \in Jobs, ReadFile(j) PROVE Hits'
  <2>1. /\ UNCHANGED <<hits, waitsFor, memory, disk, expiredAt>> /\ memory = {}
        /\ job[j].phase = "scheduled" /\ job'[j].phase = "reading" /\ job'[j].read = disk
        /\ \A k \in Jobs \ {j} : job'[k] = job[k]
    BY <1>0, <1>2 DEF ReadFile, requestVars, cacheVars, tagVars
  <2>2. CASE j = "get"
    BY <2>1, <2>2 DEF Hits, CacheGet, NotExpired, AreTagsExpired
  <2>3. CASE j # "get"
    BY <1>0, <2>1, <2>3 DEF Hits, CacheGet, NotExpired, AreTagsExpired
  <2> QED BY <2>2, <2>3
<1>3. ASSUME NEW j \in Jobs, StatFile(j) PROVE Hits'
  <2>1. ASSUME NotExpired(disk) # {}, job[j].read # {} PROVE NotExpired(job[j].read)' # {}
    <3>1. PICK r \in job[j].read, d \in disk : ~AreTagsExpired(d)
      BY <2>1 DEF NotExpired
    <3> DEFINE e == [version |-> r.version, modified |-> d.modified]
    <3>2. e \in job'[j].read
      BY <1>3, <3>1, StatEffect DEF Dated
    <3>3. ~AreTagsExpired(e)'
      BY <1>3, <3>1, StatEffect DEF AreTagsExpired
    <3> QED BY <3>2, <3>3 DEF NotExpired
  <2>2. UNCHANGED <<hits, waitsFor, memory, disk, expiredAt>>
    BY <1>3, StatEffect
  <2>3. CacheGet' = CacheGet /\ NotExpired(disk)' = NotExpired(disk)
    BY <2>2 DEF CacheGet, NotExpired, AreTagsExpired
  <2>4. CASE j = "get"
    <3>1. job["get"].phase = "reading" /\ job'["get"].phase = "dated"
      BY <1>3, <2>4, StatEffect
    <3> QED BY <2>1, <2>2, <2>4, <3>1 DEF Hits
  <2>5. CASE j # "get"
    <3>1. job'["get"] = job["get"]
      BY <1>0, <1>3, <2>5, StatEffect
    <3>2. NotExpired(job["get"].read)' = NotExpired(job["get"].read)
      BY <2>2, <3>1 DEF NotExpired, AreTagsExpired
    <3> QED BY <2>2, <2>3, <3>1, <3>2 DEF Hits
  <2> QED BY <2>4, <2>5
<1>4. ASSUME NEW j \in Jobs, EndsGet(j) PROVE Hits'
  <2>1. CASE j = "get"
    <3>1. PICK found \in MaybeEntry :
            /\ AnswerOrRegenerate(j, NotExpired(found))
            /\ \A r \in hits' : r \in hits /\ waitsFor'[r] # {} /\ NotExpired(found) # {}
      <4>1. CASE FoundInMemory(j)
        BY <2>1, <4>1 DEF FoundInMemory, Hits, CacheGet, TypeOK
      <4>2. CASE FileWasRead(j)
        BY <2>1, <4>2 DEF FileWasRead, Hits, TypeOK
      <4>3. CASE ReadFails(j)
        BY <2>1, <4>3, EmptyType DEF ReadFails, NotExpired
      <4> QED BY <1>4, <4>1, <4>2, <4>3 DEF EndsGet
    <3>2. ASSUME NEW r \in hits' PROVE FALSE
      <4>1. CachedAnswer(j, NotExpired(found)) # {}
        BY <2>1, <3>1, <3>2 DEF CachedAnswer, VersionsOf
      <4>2. Respond({"get"}, CachedAnswer(j, NotExpired(found)))
        BY <2>1, <3>1, <4>1 DEF AnswerOrRegenerate
      <4>3. waitsFor[r] = {"get"} /\ r \in Requests
        BY <1>0, <3>1, <3>2 DEF Hits
      <4> QED BY <3>1, <3>2, <4>2, <4>3 DEF Respond
    <3> QED BY <3>2 DEF Hits
  <2>2. CASE j # "get"
    <3>1. PICK found \in MaybeEntry : AnswerOrRegenerate(j, NotExpired(found))
      BY <1>4, AnswerSteps
    <3>2. CachedAnswer(j, NotExpired(found)) = {}
      BY <2>2 DEF CachedAnswer, Jobs
    <3>3. waitsFor' = waitsFor /\ job'["get"] = job["get"]
      BY <1>0, <2>2, <3>1, <3>2 DEF AnswerOrRegenerate, requestVars
    <3>4. UNCHANGED <<disk, expiredAt>> /\ hits' \subseteq hits
      BY <1>4, AnswerSteps DEF tagVars
    <3>5. job["get"].phase = "scheduled" /\ hits' # {} => memory' = memory \/ NotExpired(memory') # {}
      BY <1>4, <2>2 DEF EndsGet, FoundInMemory, FileWasRead, ReadFails, cacheVars
    <3>7. job["get"].phase = "scheduled" /\ hits' # {} /\ CacheGet # {} => CacheGet' # {}
      BY <3>4, <3>5 DEF CacheGet, NotExpired, AreTagsExpired
    <3>8. /\ NotExpired(disk) # {} => NotExpired(disk)' # {}
          /\ NotExpired(job["get"].read) # {} => NotExpired(job["get"].read)' # {}
      BY <3>3, <3>4 DEF NotExpired, AreTagsExpired
    <3> QED BY <3>3, <3>4, <3>7, <3>8 DEF Hits
  <2> QED BY <2>1, <2>2
<1>5. ASSUME NEW g \in Generations, GenerationStep(g) PROVE Hits'
  <2>1. CASE StoreResponse(g) \/ Fail(g) \/ WriteFiles(g)
    <3>1. /\ UNCHANGED <<hits, waitsFor, job, expiredAt>>
          /\ CacheGet # {} => CacheGet' # {}
          /\ NotExpired(disk) # {} => NotExpired(disk)' # {}
      <4>1. ASSUME NEW content \in {generation[g].outcome, VersionsOf(generation[g].previous)}, content # {}
            PROVE  \E e \in Stamped(content) : ~AreTagsExpired(e)
        <5>1. PICK v \in content : TRUE
          BY <4>1
        <5>2. expiredAt <= now /\ expiredAt \in Int /\ now \in Int
          BY DEF TypeOK
        <5>3. [version |-> v, modified |-> now] \in Stamped(content)
          BY <5>1 DEF Stamped
        <5>4. ~AreTagsExpired([version |-> v, modified |-> now])
          BY <5>2 DEF AreTagsExpired
        <5> QED BY <5>3, <5>4
      <4>2. CASE StoreResponse(g)
        <5>1. generation[g].outcome # {}
          BY <4>2 DEF StoreResponse, Finish, GenerationShape
        <5> QED BY <4>1, <4>2, <5>1 DEF StoreResponse, Finish, CacheSet, tagVars, requestVars,
                                        CacheGet, NotExpired, AreTagsExpired
      <4>3. CASE Fail(g)
        <5>1. CASE generation[g].previous = {}
          BY <4>3, <5>1 DEF Fail, Finish, cacheVars, tagVars, requestVars,
                            CacheGet, NotExpired, AreTagsExpired
        <5>2. CASE generation[g].previous # {}
          <6>1. VersionsOf(generation[g].previous) # {}
            BY <5>2 DEF VersionsOf
          <6> QED BY <4>1, <4>3, <5>2, <6>1 DEF Fail, Finish, CacheSet, tagVars, requestVars,
                                                CacheGet, NotExpired, AreTagsExpired
        <5> QED BY <5>1, <5>2
      <4>4. CASE WriteFiles(g)
        <5>1. \E content \in {generation[g].outcome, VersionsOf(generation[g].previous)} :
                content # {} /\ (disk' = disk \/ disk' = Stamped(content))
          BY <4>4 DEF WriteFiles, GenerationShape, VersionsOf
        <5> QED BY <4>1, <4>4, <5>1 DEF WriteFiles, tagVars, requestVars,
                                        CacheGet, NotExpired, AreTagsExpired
      <4> QED BY <2>1, <4>2, <4>3, <4>4
    <3>2. NotExpired(job["get"].read)' = NotExpired(job["get"].read)
      BY <3>1 DEF NotExpired, AreTagsExpired
    <3> QED BY <3>1, <3>2 DEF Hits
  <2>2. CASE ReadData(g) \/ UncachedResponse(g) \/ NoResponse(g)
    BY <2>2 DEF ReadData, UncachedResponse, NoResponse, Finish, Hits, CacheGet, NotExpired,
                AreTagsExpired, tagVars, cacheVars, requestVars
  <2>3. CASE Settle(g)
    <3>1. ASSUME NEW r \in hits, waitsFor'[r] # {}
          PROVE  waitsFor'[r] = {"get"} /\ job'["get"] = job["get"]
      <4>1. awaited["get"] = {}
        BY <1>0 DEF Hits, JobShape
      <4>2. "get" \notin Ended(g)
        BY <4>1 DEF Ended
      <4> QED BY <1>0, <2>3, <4>2 DEF Settle, Respond, Hits
    <3>2. CacheGet' = CacheGet /\ disk' = disk /\ \A e : AreTagsExpired(e)' = AreTagsExpired(e)
      BY <2>3 DEF Settle, CacheGet, NotExpired, AreTagsExpired, cacheVars, tagVars
    <3>3. hits' = {r \in hits : waitsFor'[r] # {}}
      BY <2>3 DEF Settle
    <3> QED BY <3>1, <3>2, <3>3 DEF Hits, NotExpired
  <2> QED BY <1>5, <2>1, <2>2, <2>3 DEF GenerationStep
<1>6. ASSUME RevalidateStale \/ ChangeData \/ MarkStale \/ Age \/ UNCHANGED vars PROVE Hits'
  BY <1>6 DEF RevalidateStale, ChangeData, MarkStale, Age, vars, Hits, CacheGet, NotExpired,
              AreTagsExpired, tagVars, cacheVars, jobVars, requestVars
<1>7. ASSUME hits' = {} PROVE Hits'
  BY <1>7 DEF Hits
<1>8. ASSUME Evict PROVE Hits'
  <2>1. CASE hits' = hits /\ (NotExpired(disk) # {} \/ job["get"].phase # "scheduled")
    BY <1>8, <2>1 DEF Evict, Hits, CacheGet, NotExpired, AreTagsExpired, tagVars, jobVars, requestVars
  <2> QED BY <1>7, <1>8, <2>1 DEF Evict
<1> QED
  BY <1>1, <1>2, <1>3, <1>4, <1>5, <1>6, <1>7, <1>8 DEF Next, HandleGet, EndsGet, ExpireTag

-----------------------------------------------------------------------------
(* The theorems.                                                           *)
LEMMA InitIInv == Init => IInv
<1> SUFFICES ASSUME Init PROVE IInv
  OBVIOUS
<1> USE DEF Init
<1>1. 0 \in Versions /\ 0 \in 0 .. MaxTime /\ MaxTime \in Nat
  BY ResponseCacheAssumption DEF Versions
<1>2. memory \in MaybeEntry /\ disk \in MaybeEntry
  <2>1. {[version |-> 0, modified |-> 0]} \in MaybeEntry
    BY <1>1 DEF MaybeEntry, AtMostOne, Entries
  <2> QED BY <2>1, EmptyType
<1>3. /\ \A j \in Jobs : job[j] = NoJob /\ awaited[j] = {}
      /\ \A g \in Generations : generation[g] = NoGeneration
      /\ \A r \in Requests : waitsFor[r] = {}
  OBVIOUS
<1>4. TypeOK
  BY <1>1, <1>2, NoneTypes DEF TypeOK, AtMostOne
<1>5. /\ NoJob.phase = "none" /\ NoJob.read = {} /\ NoJob.answer = {}
      /\ NoGeneration.phase = "none" /\ NoGeneration.outcome = {} /\ NoGeneration.previous = {}
  BY DEF NoJob, NoGeneration
<1>6. SingleFlight /\ JobShape /\ GenerationShape
  BY <1>3, <1>5 DEF SingleFlight, JobShape, GenerationShape, Jobs
<1>7. \A e \in Held : e.version = 0 /\ e.modified = 0
  BY <1>3, <1>5 DEF Held
<1>8. Stamps /\ Newest
  BY <1>3, <1>5, <1>7 DEF Stamps, Newest
<1>9. Hits /\ AnswersAreCurrent
  BY DEF Hits, AnswersAreCurrent
<1>10. AnswersFrom(0)
  BY <1>3, <1>5, <1>7 DEF AnswersFrom, RendersFrom
<1>11. Floors
  BY <1>3, <1>10 DEF Floors
<1> QED BY <1>4, <1>6, <1>8, <1>9, <1>11 DEF IInv

LEMMA NextIInv == IInv /\ [Next]_vars => IInv'
BY TypeStep, SingleFlightStep, JobShapeStep, GenerationShapeStep, StampsStep, NewestStep, HitsStep,
   FloorsStep, CurrentStep
DEF IInv

LEMMA Invariance == Spec => []IInv
BY InitIInv, NextIInv, PTL DEF Spec

\* Types; and the batchers of handleGet and handleRevalidate leave at most one
\* entry, one answer and one awaited generation to a job.
THEOREM TypeCorrect == Spec => []TypeOK
<1>1. IInv => TypeOK
  BY DEF IInv
<1> QED BY <1>1, Invariance, PTL

\* handleGet: a get does not wait for handleRevalidate when FileSystemCache had
\* an entry to answer with, in memory or in a file, and has not lost it meanwhile,
\* whatever else is batched under the key.
THEOREM NoWaitOnHit == Spec => []CachedIsNotAwaited
<1>1. IInv => CachedIsNotAwaited
  BY DEF IInv, Hits, JobShape, CachedIsNotAwaited, Jobs
<1> QED BY <1>1, Invariance, PTL

\* Batcher.batch, handleGet, FileSystemCache.get: neither the cache nor a promise
\* that is shared answers with content that is older than what a request may ask
\* for; unless a file has been overwritten between the read of its content and that
\* of its time, after which a get may ask for nothing.
THEOREM CurrentAnswers == Spec => []AnswersAreCurrent
<1>1. IInv => AnswersAreCurrent
  BY DEF IInv
<1> QED BY <1>1, Invariance, PTL

\* revalidateBatcher: no render overtakes another one on its way to
\* IncrementalCache.set.
THEOREM NewerStored == Spec => StoredIsNewer
<1>1. IInv /\ [Next]_vars =>
        [\A g \in Generations : StoreResponse(g) =>
           \A e \in memory : \A f \in memory' : f.version >= e.version]_vars
  <2> SUFFICES ASSUME IInv, NEW g \in Generations, StoreResponse(g),
                      NEW e \in memory, NEW f \in memory'
               PROVE  f.version >= e.version
    OBVIOUS
  <2>1. generation[g].phase = "rendered" /\ f.version \in generation[g].outcome
    BY DEF StoreResponse, Finish, CacheSet, Stamped
  <2>2. e \in Held
    BY DEF Held
  <2>3. e.version <= f.version
    BY <2>1, <2>2 DEF IInv, Newest
  <2>4. e.version \in Int /\ f.version \in Int
    BY <2>1, <2>2, ContentTypes DEF IInv
  <2> QED BY <2>3, <2>4
<1> QED BY <1>1, Invariance, PTL DEF Spec, StoredIsNewer

=============================================================================
