# TLA+ models of Next.js and Turbopack

Next.js is a framework of several cooperating programs: a client-side router, a
server that renders and caches, and a build system (Turbopack) with a store on
disk. Most of the repository transforms data sequentially. The parts modelled here
are those whose correctness depends on the order of things: queues of promises,
caches filled by overlapping calls, signals driven by the event loop, and a
database that must survive a crash between any two file operations.

Paths below are relative to `packages/next/src/` unless they start with
`turbopack/`.

## 1. Inventory

| Component | State | Operations | What is hard | What makes it correct |
|---|---|---|---|---|
| **Router action queue** `client/components/app-router-instance.ts` | router state, `pending`, `last`, linked nodes, `needsRefresh` | `dispatchAction`, `runAction`, `runRemainingActions` | reducers are promises that settle in any order; a navigation overtakes what is pending | discarded results leave no trace; each action runs once and loses no update; an owed refresh comes |
| **Turbopack store** `turbopack/crates/turbo-persistence` | files, `CURRENT`, loaded meta files, active write | open, write batch, compact, commit, get | crashes and errors between file operations; lazily opened files; obsolete entries that must outlive what they hide | atomic durable commits; readers never see a torn or dangling state |
| **LRU cache** `server/lib/lru-cache.ts` | map, doubly linked list, total size | `get`, `set`, `remove`, iteration | relinking over long call sequences; several evictions in one write | an LRU policy within the size limit |
| **Default "use cache" handler** `server/lib/cache-handlers/default.ts`, `server/lib/incremental-cache/tags-manifest.external.ts` | LRU cache, pending sets, tags manifest | `get`, `set`, `updateTags` | calls interleave at awaits; rounded against truncated clocks | expired entries are not served; a get waits for the set under way and is answered |
| **Cache signal** `server/app-render/cache-signal.ts`, `module-loading/track-module-loading.instance.ts` | count, listeners, pending tick and timeout, subscriptions | `beginRead`, `endRead`, `cacheReady`, `inputReady`, `subscribeToReads`, `trackPendingModules` | microtask, tick, immediate and timeout ordering; cancelled timeouts | ready only once settled; never a lost wake-up; counts balance |
| **Staged rendering** `server/app-render/staged-rendering.ts`, `renderWithRestartOnCacheMissInDev` in `app-render.tsx` | stage, its promises, abandon controller; open reads, resume data cache | `advanceStage`, `abandonRender`, `syncInterruptCurrentStageWithReason`, the restart | cache reads, sync IO and runtime APIs of many components against stage tasks that look once each | the render that is sent is staged as a prerender would be, with warm caches; every request is served |
| **Response cache** `server/response-cache/index.ts`, `lib/batcher.ts` | in-flight batches, minimal-mode entry | `get`, `revalidate` | joined work started with other options; early resolution with a stale entry | one regeneration at a time; answers as current as the request may ask; failure keeps the previous entry |
| `after()` `server/after/` | queue, workUnit stores, awaited promises | `after`, `runCallbacksOnClose`, `awaiting` | promises added while awaited, nested calls | every callback runs once, after the response |
| **Incremental cache** `server/lib/incremental-cache/` (partly) | memory, disk, tags manifest, per-key locks | `get`, `set`, `revalidateTag`, `lock` | reads of files overtaken by writes; tags that expire while a page is rendered | expired entries are not served, stale ones are reported as such |
| **"use cache" wrapper** `server/use-cache/use-cache-wrapper.ts` (partly) | resume data cache, pending generations | a read: resume data cache, handler, generation | every path must end the reads it begins; short-lived entries are delayed to a later stage | balanced reads; nothing short-lived in an early stage |
| Segment cache and prefetch scheduler `client/components/segment-cache/` | task heap, entries, LRU | `schedulePrefetchTask`, ... | priorities, cancellation, bandwidth limit | each entry is fetched once; tasks end |
| Router reducers, pages route loader, on-demand entries, fetch patching, process helpers | see `PROJECT.json` | | | |
| Turbo Tasks engine, compiler front ends, build, CLI | see `PROJECT.json` | | | |

How they interact: reducers run under the action queue. A request for a page goes
through the response cache, which asks the incremental cache and has the page
rendered when there is no entry or a stale one. A render on the server reads "use
cache" functions through the wrapper, which calls the default handler (itself on
top of the LRU cache) and brackets each read with `beginRead`/`endRead` of the
render's cache signal; imports are bracketed on one process-wide signal that every
render's signal subscribes to. In development the render consults that signal
between its stages, and is restarted once it is ready if it had to be abandoned.
Both caches look tags up in one manifest. The store is used by the Turbo Tasks
engine only, one writer at a time (`active_write_operation`).

`PROJECT.json` lists every component with its status, and under `hazards` each
thing in this code that is hard to test, at its line, with the properties that
cover it.

## 2. Modules

### ActionQueue

One node per `ActionQueueNode`. A router state is the set of the actions whose
effect it includes; a reducer called with `prevState` yields `prevState` plus its
action, so that a lost update is an element that is missing. `Dispatch*` are the
three branches of `dispatchAction`. `Settle` is the callback of a reducer's
promise with everything it calls synchronously: `handleResult`,
`runRemainingActions` and the `runAction` of the next action. Reducers that return
synchronously are the case in which `Settle` follows at once. `canonical` is what
React was handed last (`setState` with a promise or a state).

Run `action_queue` (four requests of every kind, settling in every order; three
refreshes, the most that four requests can owe): discarded actions never reach a
state (`DiscardedNeverApplied`), no reducer is called twice though the discarded
node and its navigation point to the same successor (`RunsOnce`), an owed refresh
is always backed by a reducer still running (`RefreshOwed`) and is dispatched
(`RefreshDispatched`, under the fairness that every reducer's promise settles,
which fetches and timeouts of the browser give), and without an interruption the
queue is serial and agrees with React. The hypotheses of the last two are the
point: once a navigation has interrupted, two reducers do run on the same state by
design; and `setState` of a *restore* comes after the promise of an action queued
behind it, so React then shows the older state.

`action_queue_lost`, with three requests: `dispatchAction` leaves `last` pointing
to the discarded node when a navigation interrupts (191-207). An action dispatched
next is linked behind that node, to which nothing leads, and never starts, though
the comment at 209-210 says that it will.

A remark without a run: the discarded action's own completion calls
`runRemainingActions`, which starts what is queued behind the navigation while the
navigation runs, though the comment at 199 says "after this navigation".
`RunsOnce` holds all the same.

### TurboPersistence

`disk` is what the directory shows, `stable` what survives a loss of power. A
commit is a sequence of steps in the order of `commit`: new files, sync, publish
under the write lock, `.del` file, `CURRENT`, sync of `CURRENT`, removals; `Crash`
and `Fail` may come between any two of them. `SstFilter` is translated in full
(its two passes over the meta files, from the newest to the oldest, are the
recursive functions of `Filters` and `Used`), as are the cleanup on open, the
sequence numbers, and the rule of compaction that moves an SST that is not merged
behind the merged ones. SSTs are opened lazily, so an SST that a reader follows
must be in the directory at that time.

Which SSTs a compaction merges depends on their key ranges and sizes; the model
lets it cut the live SSTs into any consecutive segments, which includes all the
choices of `get_merge_segments` when the ranges overlap.

Run `turbo_persistence` (two keys, three batches, two compactions, two crashes):
`ReadersSeeCommits` (a commit becomes visible as a whole when it is published; a
compaction never does), `NoDanglingReference`, `RecoveredIsCommitted` (opening
after any crash finds the last acknowledged commit or all of the one under way).
Two keys are needed for a batch that touches part of the store; three batches with
two compactions let a meta file outlive the SSTs it declared obsolete; the second
crash finds what the cleanup after the first removed and may bring it back. After
the last crash, what would survive another is irrelevant, and `MCView` leaves it
out.

`turbo_persistence_read_only`: the doc of the `read_only` field says that "no
modification on the database is performed", but
`open_read_only_with_parallel_scheduler` passes `false` to `open_directory`, and
the cleanup removes files of a commit that another process has under way.

Assumptions and bounds: the four bytes of `CURRENT` are written at once; of the
files that may or may not survive a power loss at most `MaxOdd` do, or at most
`MaxOdd` do not (one in the run; the proofs are for any number, hence for any
choice of files); sequence numbers stop at `MaxSeq`, which the run never reaches:
its batches and compactions use fewer; a file system that loses the creation of
`CURRENT` (the first file) has lost later files too. A crash between the creation
and the first write of `CURRENT` leaves a directory that cannot be opened (`Open`
is disabled then). One key family of single values; a merge yields one SST (the
split into warm and cold ones, and by size, is left out); the AMQF filters and the
block caches are pure optimisations and are left out.

### LRUOrder, LRUPolicy, LRUCache

`LRUOrder` defines what reads and writes do to a sequence of entries; `LRUPolicy`
is the abstract cache; `LRUCache` the map and the linked list with its two
sentinels and the eviction loop, one turn per step. `Entries` is what the iterator
of the class yields (`IteratedFrom`: from `head.next` along `next`, up to `tail`).
`LRUCache` implements `LRUPolicy` (`ImplementsPolicy`): in the loop, the entries
that the loop has yet to drop are gone already for the policy, so that the step
that enters the loop is the policy's write and its turns are stutters.

Run `lru_cache`: four keys, values of sizes 0 to 4 under a capacity of 3, so that
a write drops none, one, two or three entries, is refused (too large), or throws
(size 0: `Storable`). Nodes are symmetric: a dropped one may be allocated anew.
With four keys a moved node can be first, last, or have a neighbour on either
side.

### DefaultCacheHandler

`memoryCache` is an `LRUOrder` sequence, which `LRUCache` has been shown to
implement. A `set` is registered in `SetStart` and ends in `SetStore` or
`SetFail`; a `get` answers at once or waits for the promise it found. In between
are the awaits of the code. Time is counted in thirds of a millisecond, because
`updateTags` rounds to the nearest millisecond, `areTagsExpired` truncates, and
timestamps are fractional: two ticks round up and one rounds down.

Run `default_cache_handler` (one key, two sets, one get, two tag updates, eight
ticks of the clock): `ExpiredNotServed`, `GetWaitsForSoleSet`, `GetIsAnswered`.
`ExpiredNotServed` has a window of a millisecond on both sides, which is what
rounding costs, and leaves out a tag to which a later update gave an expiration in
the future: that overwrites the earlier expiration, and nothing says which should
win. Keys do not interact but through eviction, which the LRU run covers, so this
run has one. The fairness is that the producer fulfils the pending entry and its
stream ends or errors: `collectResult` in the wrapper, the only producer, resolves
on errors too.

`default_cache_handler_overlap`: `types.ts` 51-54 requires that a get "must wait"
for a pending set. The end of any set deletes the registration of the key, also
that of a later set still pending, and the next get does not wait.

### CacheSignal

The signals of the renders and `moduleLoadingSignal`, to which each render's
signal subscribes (`trackPendingModules`; this is the only subscription in the
code, so one level is modelled). What `moduleLoadingSignal` itself schedules has
no listener and is left out. With the signals come the event loop's phases and the
jobs of React: `process.nextTick` runs after the microtasks; an immediate queued
in a check phase waits for the next one; a timeout fires in a later timers phase,
though not surely the next. A read that settles wakes a job, which runs as a
microtask or is deferred with `setImmediate` and may start further reads.

Two kinds of renders call `trackPendingModules`: a prerender does after it has
called React, a render in dev (`renderWithRestartOnCacheMissInDev`; its validation
variant is the same) before it has started.

Run `cache_signal` (one render of each kind sharing the imports; two reads: one
each, one that wakes the other, or an import with a cache read): counts agree with
the reads in flight whatever is subscribed in the middle (`CountsAgree`),
`NoLostWakeup`, `ReadyMeansSettled` (cacheReady comes after the work that reads
woke: this is what the immediate followed by a timeout is for),
`ImportsExtendPrerenders`, `CacheReadyResolves`. Deadlock is checked: the event
loop always turns. Liveness assumes that Node runs what is scheduled, reads
settle, and a timer that is due fires in one of the later timers phases (strong
fairness, since its step is enabled only in that phase).

`ImportsExtendPrerenders` says nothing of renders in dev, for a reason that TLC
found: their signal may have become ready, and unsubscribed, before the render
began. This needs the payload, awaited before the render starts, to take a turn of
the event loop in something that is not a tracked read (a page module with a
top-level await, say); if it takes microtasks only, the render's first tasks come
before the immediate and the timeout of the signal. Imports of the render are then
not waited for, though `track-module-loading.instance.ts` 39-40 says that they
extend it.

`fast-set-immediate.external.ts` patches Node's timers in some renders; it is not
modelled.

### StagedRendering, DevRender

`StagedRendering` is the stage controller as a value: its methods are operators
from controllers to controllers, each with the stages whose promises it resolves.

`DevRender` is the render of a request in development
(`renderWithRestartOnCacheMissInDev`). Its first task starts React, the next four
look at the cache signal and advance the stage or abandon the render; `turn`
counts them. They are an atomic timer group: between two of them all that can run
without I/O runs (`NothingRunnable`), and no I/O completes (`IOTurn`). The
components of a page are tasks with a program each: a list of cached functions
they call, stages they await (`cookies()` and the like, `connection()`, the delay
of a segment that cannot be prefetched at runtime), sync IO, lazily initialized
modules that do sync IO once, and I/O of their own. A cached function goes through
the wrapper: it begins a read (two, if the resume data cache has nothing), uses an
entry, waits for one that another task generates, delays a short-lived one, or
generates one after the timer of `generateCacheEntryImpl`; `filling` has the
generations under way. `Restart` comes when no read is open and nothing can run,
which is what `CacheSignal` shows of cacheReady: the two modules meet in that
contract rather than in one state space.

Run `dev_render` (two components, a long- and a short-lived key, every pair of
programs of up to two and one operations, whether the handler has a fresh entry of
a key or none):

* `StagedAsPrerendered`: at the end of each stage of a render that is not
  abandoned, each component has done what it does in that stage of a prerender
  with warm caches (`IdealStage`), no more and no less, unless an open read is
  about to abandon the render.
* `FinalRenderIsWarm`: before its dynamic stage the final render meets no read
  that is not filled.
* `AbandonedStopsAtDynamic`: in an abandoned render no component goes behind
  something that awaits the dynamic stage (`connection()`, an uncached fetch); and
  when no read is open and nothing can run, each has come to such a wait, to its
  end, or is in I/O. I/O that awaits no stage is not held back, by the code or by
  the model: what is behind it goes on too, up to the next such wait.
* `SyncIOReported`: sync IO is reported if and only if a prerender would meet it;
  that of a lazy initialization is not.
* `CountsAgree`: each read is ended once. `EveryRequestServed`: each request is
  answered.

The fairness, `WF_vars(Next)`, is that the event loop goes on and I/O completes;
the loop has no other choice that could be postponed for ever, as each program is
finite. Deadlock is checked: a state in which a request waits for nothing that
could happen is an error. Two components are needed for one to wait for the
other's generation, and two operations for one that depends on what the first
awaited.

`dev_render_hang`: two elements of one component that calls a cached function which
is stale within 30 seconds, with a fresh entry of it in the cache handler. The
first element uses the handler's entry at once, which is not delayed for that
life (`use-cache-wrapper.ts` 1858), and puts it in the resume data cache. The
second one finds it there, in the same first stage: it keeps its read open and
waits for the dynamic stage (1669). The next stage task finds the open read and
abandons the render, in which the dynamic stage is never opened; cacheReady waits
for the open read, and the request is never answered. The comment there expects a
restart.

The same run with a handler that may have stale entries violates
`FinalRenderIsWarm`: a stale entry is used, and replaced in the resume data cache
by the promise of a background generation that no read waits for. It is listed as
a hazard; the runs have absent and fresh entries only, while the proofs of types
and of the count cover stale ones too.

Left out: what the tasks of the initial render still do after its abortion, the
payload phase before the render, failing cached functions, draft mode, private
caches and root params. A forced revalidation is the case of a handler without an
entry.

### ResponseCache

One path of a route, on a server of its own. Content is the version of the data
that it was rendered from, so that what is out of date can be told. `job` has the
batches of `get`, by the batcher's key (on demand or not: a prefetch shares the
key of a get), `generation` those of `revalidate`, which are at most one at a time
but may be started by either job or by a dynamic RSC request (`app-page.ts`
1260-1295), and joined by the others. `HandleGet` is `handleGet` over
`FileSystemCache.get`. What is not in memory is read from the disk in three steps,
between which anything may happen: `ReadFile` the content, `StatFile` its time,
which is that of the file as it is by then, and `FileWasRead` the rest, after which
the entry is put in memory; or `ReadFails`, and there is no entry. The actions from
`ReadData` to `Settle` are `handleRevalidate`: the generator reads the data at some
point, then gives a response with or without a cache control,
nothing, or an error, and the store to memory comes before that to disk. Tags
expire, are marked as stale, entries age and are evicted at any time. `Requests`
are slots that are used again without limit.

Run `response_cache` (two requests, one change of the data, one tick of the clock,
which may be an expiration, a marking or ageing):

* `CachedIsNotAwaited`: a get that begins when the cache has an entry that is not
  expired, in memory or in a file, does not wait for a generation, neither its own
  nor another's; unless it has joined a get that looked before, or the entry is
  lost: it expires, it is evicted and the disk has none or its file is not
  readable, or an expired one is read over it. `hits` has the gets for which none
  of that has happened.
* `AnswersAreCurrent`: a request that begins after a tag has expired is not
  answered with older data, if nothing was under way when it expired, and no store
  has come since between the read of a file and that of its time; and one on demand
  gets the data as it is when it begins, if no render it may join has read them yet.
* `StoredIsNewer`: a response that is stored (`StoreResponse`) never replaces newer
  content. It says nothing of `Fail`, which sets the previous entry again.
* `EveryRequestSettles`, under the fairness that scheduled work runs, files are
  read, and generators end.

Two requests are enough for a get and an on-demand one to join one generation;
with two ticks (an expiration after a marking) safety was checked once as well, in
5.7 million states. `AnswersAreCurrent` has its hypotheses because a request does
join what is under way: the exact statement of what may be stale is the point.

The second hypothesis is one the code needs. A file is read, and then its time
(`file-system-cache.ts` 152-153, 127-128). With nothing under way a tag expires;
a get begins, finds nothing in memory and reads the old file; a dynamic RSC
request regenerates the page and stores it, in memory and on the disk; the get
reads the time of the new file. The old content is not taken for expired: the get
is answered with it, and it replaces the new entry in memory (291). `StatFile`
keeps the history: when a store has overtaken the read (`Overtaken`), the gets that
wait, and those that begin before the next expiration, ask for nothing any more;
an on-demand request still does. Without that TLC finds this trace, of 11 states.
Also where the time was not overtaken, an entry that was read replaces a newer one
that memory has got meanwhile: this is in the model, and no property forbids it.

Entries are found again after an expiration only through their stamp:

`response_cache_expired`: an entry is stamped when it is set. A render that read
the data before the tag expired is stored with a stamp of after, and its content
is taken for fresh, though `updateTag.mdx` 16 says "The next request will wait to
fetch fresh data rather than serving stale content from the cache".

Left out: the minimal mode, fetch entries, `cacheControl.expire`, several paths
(they share only the tags and the memory). The other files of an entry (metadata,
RSC, segments) are taken to go with the first one: that metadata which cannot be
parsed gives a page without tags, and that files of two stores may be mixed, is not
modelled.

## 3. Proofs

`ActionQueueProofs` proves for any set of requests and refreshes (any `Nat`
subsets, kept apart: `NodeAssumption`) that `TypeOK`, `DiscardedNeverApplied`,
`RefreshOwed`, `SerialUnlessInterrupted`, `ReactAgreesWhenIdle` and `RunsOnce`
hold. None of them is inductive. What has to be added is the shape of the linked
list: what follows the pending node or a queued node is queued, no two of those
nodes share a successor, `last` has none, and a node not yet allocated is linked
to nothing (`QueueShape`); and that only a settled action can be in a state
(`StateOrigin`). A discarded node and the navigation that discarded it do share a
successor, and this does no harm exactly because the discarded one is neither
pending nor queued. All completions are instances of one `SettleStep`, so that
each branch of `runRemainingActions` is proved once.

`CacheSignalProofs` proves for any set of renders and any finite set of reads
(`SignalAssumption`) that `TypeOK`, `CountsAgree`, `NoLostWakeup`,
`ReadyMeansSettled` and `ImportsExtendPrerenders` hold. That a count is never
below 0 follows from `CountsAgree`, by the cardinality of the set of counted reads
with one element more or less, and, when a signal subscribes, of a disjoint union.
It may unsubscribe because its count is then 0, so it counts no import either.
`ReadyMeansSettled` needs `SettledBeforeTimeout`: once the immediate of a signal
without pending reads is in the batch of a check phase, every job that its reads
have woken is in that batch too, or has run; nothing can wake another without a
read that cancels the timeout or reschedules it. Together with `BatchInCheck` (a
batch is empty outside its check phase) nothing is left when the timeout fires.
This is the argument for an immediate followed by a timeout, which the code gives
only in a comment; the mutant that goes straight to the timeout breaks it.

`DevRenderProofs` proves `TypeOK` and `CountsAgree` for any finite set of
components, any programs, keys, lives and contents of the handler. The invariant
`IInv` adds `TaskShape` (what a task awaits belongs to the operation it has come
to), `FillShape` (a generation that ends a read is one of the initial render, a
read has at most one, and the resume data cache has an entry of its key), `Safe`
(the open stages are not after the current one; in an abandoned render the dynamic
one is not open) and `Waited` (a task has waited for the stages it is past). That
`count` is a natural number follows from `CountsAgree`, as for `CacheSignal`.

Its second part proves `AbandonedStopsAtDynamic` for a handler without stale
entries, whatever the lives of the functions. That nothing is done behind a wait
for the dynamic stage follows from `Safe` and `Waited`. That nothing before it is
left takes `Steady`: the stage and the open promises of the controller are
determined by the render and the number of tasks that have run (`ControllerOf`),
so an abandoned render has every stage but the dynamic one open, and a generation
of the initial render ends its read (`Quiet`), so when no read is open no
component awaits an entry.

Its third part proves `StagedAsPrerendered`, `FinalRenderIsWarm` and
`SyncIOReported` under a hypothesis on the handler, `Warmable`: it has no stale
entries, and no entries of functions that are stale within 30 seconds. The run
satisfies it; the code needs it. A stale entry of the handler is put in the resume
data cache and then replaced by the promise of a generation that no read waits for;
and an entry of the handler is delayed for a short `expire` or `revalidate: 0`
only (`use-cache-wrapper.ts:1858`), while one of the resume data cache is delayed
for a short `stale` too (`:1640`), so that what a function of that life shows
depends on which of the two had its entry.

The invariant is `Staged`, which includes `Steady`. The stage in which a prerender does an operation is
`Ideal(t, i)`; that `IdealStage`, a recursive function over programs, exists,
satisfies its equations and never decreases is proved with the least index at
which it would not. `InStage` says that what
a component has done belongs in the current stage or an earlier one, and that it
either is at an operation it has reached in this stage or awaits something of this
stage or a later one. `Settled` turns this into the property: when nothing is
runnable, no read is open (or the render is the final one) and the stage is not
the dynamic one, what a component awaits is the promise of a later stage or I/O.
In the final render that takes `WarmRender`, that each read which a prerender
makes before the dynamic stage finds its entry: it is established at the restart,
where no read is open and nothing is runnable, so that each component has either
come to its end or awaits what only the dynamic stage has, and all it has read
before is in the resume data cache (`ReadShape`). Lazy initializations are warm by
the same argument, hence what interrupts the final render is sync IO of its stage,
and is what a prerender meets (`SyncShape`, `InterruptedStep`).

`ResponseCacheProofs` proves `TypeOK`, `CachedIsNotAwaited`, `AnswersAreCurrent`
and `StoredIsNewer` for any requests, kinds, periods and bounds. The core is
`SingleFlight`: at most one generation is under way. `JobShape`, `GenerationShape`
and `Stamps` say what each phase holds and that no stamp is of the future;
`Newest`, that a generation under way has read data at least as new as what is
stored; `Hits`, that an entry found by a get that has begun remains found, in
memory, in the file, or in what has been read of it; `Floors`, that what a request
asks for is at most what each possible answer has. For an expiration the argument
is that content at least as new as x stays so (`AnswersFrom(x)`): from the moment
nothing was under way, everything that is not expired has been rendered after it.
The time that a file gets when it is read keeps this if the content that was read
is at least as new as that of the file by then (`Redated`): either both have
expired, or neither is older than x. When it is not, x has been given up
(`OvertakenStep`).

`TurboPersistenceProofs` proves `TypeOK`, `ReadersSeeCommits`,
`NoDanglingReference` and `RecoveredIsCommitted` for any finite set of keys, any
batches, any number of batches, compactions, crashes, merged segments and sequence
numbers (`BatchAssumption`, `SeqAssumption`), and whatever part of the unsynced
files a crash leaves. The invariant is `Inv`, and its core is `Core`: what it means
that a directory, of which some files are there for sure (those both in `disk` and
in `stable`) and others may be, holds a complete state. There is a sequence of
meta files whose entries, filtered, name SSTs that are there and different, with
the blobs they refer to; any other meta file that may be found is hidden, that is,
each of its entries is known to a newer one, and it declares nothing obsolete that
is used; no `.del` file that may be found lists what is needed. `Recoverable` says
that each number which `CURRENT` may be found to have names such a state, with the
contents of the last acknowledged commit or of the one under way. `WhenBefore`,
`WhenPrepared`, `WhenAfter` and `WhenFailed` say what holds in each phase of a
commit: until the publication the process has the state that `CURRENT` names, from
then on one that needs nothing of what the commit will delete.

Why each step keeps this: files numbered above a state's sequence number do not
disturb it (`CoreFrame`), nor does the loss of files that may be lost
(`CoreKeeps`), nor the removal of files it does not need (`CoreRemoves`). The
publication leads from one complete state to another (`CorePublished`): a meta
file that is dropped has no entry left, and each of its obsolete SSTs that an
older meta file still has is declared obsolete by a newer one that is kept
(`FoundUsed`, `DropHidden`); hence what was hidden stays hidden even when the
dropped file, or the older one, comes back after a crash. This is the argument for
the two passes of `SstFilter`, and the mutant that ignores obsolete SSTs breaks
it. For a compaction, each new SST stands for a part of consecutive SSTs of the
old order (`Parts`, `Merging`), a single SST that is moved for itself, so that the
newest entry of the parts is that of the whole; a blob that is superseded is
referred to by no other entry (`MergedAway`). For a batch, the new SSTs come last
and have one key each. Opening finds the meta files that may be there, of which
those not in the complete state are hidden (`MoreMetas`), and its cleanup removes
only files that this state does not need. What the functions of the model return
(`Without`, `LiveSsts`, `Filters`, `Used`, `Removed`, `Newest`) is proved before
that, for sequences of any length. The theorems are about `Spec`, one process;
with a second one that opens the directory read-only (`SpecWithReader`) the
cleanup may remove files of a commit under way, which
`turbo_persistence_read_only` shows.

`LRUOrderProofs` has no theorem of its own: its lemmas say what the operators of
`LRUOrder` return, for sequences of any length. `SizeUpTo` is a recursive function,
and that the function it chooses exists and satisfies its equation
(`SumExists`, `SizeStep`) is proved with the least element at which it would fail
(`SmallestElement`), as is that the sum grows with its bound. From these follow
that `Fitting` exists and is the only such number, what `Without` and `Touched` do
to a sequence with one entry per key, and how what is kept and dropped changes
when the last entry goes.

`LRUCacheProofs` proves for any keys, data, sizes, capacity and finite set of nodes
(`SizeAssumption`, `NodeAssumption`: the nodes and the sentinels are distinct) that
`TypeOK`, `ListShape`, `MapAgrees` and `SizeAgrees` hold, and the refinement
`ImplementsPolicy`. The pointers alone do not yield an inductive invariant: a
cell must be known to be reached from `head` before one can say what unlinking it
does. The invariant names the order that the pointers stand for: there is a
sequence L of nodes (`Represents(L)`) without repetitions, each cell of which
points to its neighbours, with the sentinels at the ends, whose nodes are those of
the map, and whose sizes add up to `totalSize`. Each operation is shown to turn L
into another such sequence (a node in front, a node removed, a node moved to the
front), and L determines what the iterator yields (`Entries`), again by an
argument on the least index at which it would differ. `LoopInv` says that outside
the loop the cache is within its capacity. The refinement follows from this:
`SetExisting` and `SetNew`, which enter the loop, are `Set` of the policy; one turn
of the loop drops the last entry of L, which leaves what is kept unchanged and
moves the key from what is to be dropped to `evicted`; the end of the loop finds
that everything fits. `Get` and `RemoveKey` are those of the policy.

`DefaultCacheHandlerProofs` proves for any keys, sets, gets, tags and bounds of time
that `TypeOK`, `GetWaitsForSoleSet` and `ExpiredNotServed` hold. The invariant adds
that the memory cache has at most one entry per key and is within its size
(`CacheInv`, from the lemmas on `LRUOrder`), that the manifest has the rounded time
of each invalidation (`ExpiryRecorded`), and that a set which no other set of its
key has overlapped is the one registered (`SoleSetRegistered`).

Each invariant was checked with TLC on its run's instance before it was proved,
but for `Inv` of `TurboPersistence`, which quantifies over sequences of meta files;
TLC checks the four properties that follow from it.

What the provers cannot reach stays with TLC: liveness (`RefreshDispatched`,
`GetIsAnswered`, `CacheReadyResolves`, `EveryRequestServed`,
`EveryRequestSettles`). The library's induction theorems cannot be used, since they
take an operator as parameter; where an induction is needed it is made by hand on
the least element at which the claim would fail. Every
invariant and every safety property over steps that a passing run checks is proved.

## 4. Runs

| Run | Question | Result |
|---|---|---|
| `action_queue` | safety and liveness of the queue | holds |
| `action_queue_lost` | is an appended action started? | violated |
| `turbo_persistence` | atomicity, durability, no dangling files | holds |
| `turbo_persistence_read_only` | does a read-only open modify anything? | violated |
| `lru_cache` | linked list against policy | holds |
| `default_cache_handler` | expiration, waiting, answers | holds |
| `default_cache_handler_overlap` | does a get wait for every set? | violated |
| `cache_signal` | wake-ups, counts, readiness | holds |
| `dev_render` | staging, warm caches, sync IO, liveness of a dev render | holds |
| `dev_render_hang` | is every request served, whatever the cache life? | violated |
| `response_cache` | current answers, no waiting on a hit, no lost update, settling | holds |
| `response_cache_expired` | is what is stored after an expiration fresh? | violated |

Deadlock checking is off where the application may stop making calls, or the
bounds on calls and crashes are used up. Each property has a mutant in
`PROJECT.json`: a definition of the model changed as a plausible bug would change
the code (those operators are defined next to the ones they stand in for), under
which the run finds the property violated.

## 5. Plan

Done: the seven components above, in the order of section 2, with the proofs of
section 3.

Next, in this order:

1. `After`: nested `after()` calls, the queue that starts on close, `AwaiterOnce`.
2. `SegmentCacheScheduler`: priorities, cancellation, in-progress limit, if its
   state can be kept small.

Not modelled, and why: the Turbo Tasks engine is tens of thousands of lines of
lock-free code whose protocol no small model would follow line by line; compiler
front ends, bundling, codegen and the CLI transform data in sequence; router
reducers and navigation tasks are functions over route trees, and the action queue
abstracts them; the route loader and the on-demand entries depend on the DOM and
on webpack's hooks; fetch patching reaches the models as reads of a signal.
Vendored code under `compiled/` is not part of this system. That is why the models
cover a small share of the repository's lines: they follow the parts where the
order of events decides, and those are small files.
