---------------------------- MODULE CacheSignal ----------------------------
(***************************************************************************)
(* The signals that tell a render when all the cache reads it started have *)
(* settled, and the one for the imports and chunk loads of the process,    *)
(* whose reads the signals of the renders under way count as their own.    *)
(*                                                                         *)
(* What the signals rely on is modelled with them: Node's event loop, and  *)
(* the work a settled read wakes in React, which runs in a microtask or in *)
(* an immediate and may start further reads.                               *)
(***************************************************************************)
EXTENDS Integers, FiniteSets

CONSTANTS
  Prerenders,   \* signals of renders that are tracked once they have started
  DevRenders,   \* signals of renders that are tracked before they start
  Modules,      \* moduleLoadingSignal
  Reads,        \* bound: the reads, of caches and of modules, as numbers
  NoSignal

Renders == Prerenders \cup DevRenders
Signals == Renders \cup {Modules}
Jobs == Renders \cup Reads   \* the first work of a render, what a read wakes

ASSUME SignalAssumption ==
  /\ Modules \notin Renders /\ NoSignal \notin Signals
  /\ Prerenders \cap DevRenders = {} /\ Renders \cap Reads = {}
  /\ Reads \subseteq Nat /\ IsFiniteSet(Reads)

VARIABLES
  count,
  earlyListeners,       \* does anything wait for inputReady?
  listeners,            \* what waits for cacheReady: the render, and the
                        \* unsubscription from the modules
  tickPending,          \* the signals that have set it
  timer,                \* pendingTimeoutCleanup: what would be cleaned up
  subscribedSignals,    \* those of moduleLoadingSignal
  rendering,            \* new, tracked, started, awaiting (cacheReady), ready
  owner,                \* the signal a read was begun on, before that NoSignal
  inFlight,             \* the reads that have not settled
  job,                  \* where a job waits: micro(task), queued for the next
                        \* check phase, in the batch of this one, or nowhere
  phase                 \* of the event loop: timers, poll, check

signalVars == <<count, earlyListeners, listeners, tickPending, timer, subscribedSignals>>
vars == <<signalVars, rendering, owner, inFlight, job, phase>>

Init ==
  /\ count = [s \in Signals |-> 0] /\ timer = [s \in Renders |-> "none"]
  /\ earlyListeners = [s \in Renders |-> FALSE] /\ listeners = [s \in Renders |-> {}]
  /\ tickPending = {} /\ subscribedSignals = {}
  /\ rendering = [s \in Renders |-> "new"]
  /\ owner = [r \in Reads |-> NoSignal] /\ inFlight = {}
  /\ job = [j \in Jobs |-> "none"] /\ phase = "poll"

\* A callback has run, and so have the microtasks and ticks it left.
NoMicrojob == \A j \in Jobs : job[j] # "micro"
BetweenTasks == NoMicrojob /\ tickPending = {}

-----------------------------------------------------------------------------
(* noMorePendingCaches, for the signals in S: one tick for the early       *)
(* listeners; for the others an immediate and then a timeout, instead of   *)
(* those that may be pending.  Nothing waits for moduleLoadingSignal: what *)
(* it schedules has no effect and is left out.                             *)
Rescheduled_UnlessTicking(S) == [s \in Renders |-> IF s \in S \ tickPending THEN "queued" ELSE timer[s]]
Rescheduled_Timeout(S) == [s \in Renders |-> IF s \in S THEN "timeout" ELSE timer[s]]
Rescheduled(S) == [s \in Renders |-> IF s \in S THEN "queued" ELSE timer[s]]

NoMorePendingCaches(S) ==
  /\ tickPending' = tickPending \cup (S \cap Renders)
  /\ timer' = Rescheduled(S)

\* A read of the modules is one of every subscriber.
Notified(o) == IF o = Modules THEN {Modules} \cup subscribedSignals ELSE {o}

\* Reads are numbered as they begin: which one it is carries no meaning.
BeginRead(r, o) ==
  /\ owner[r] = NoSignal /\ \A q \in Reads : q < r => owner[q] # NoSignal
  /\ owner' = [owner EXCEPT ![r] = o] /\ inFlight' = inFlight \cup {r}
  /\ count' = [s \in Signals |-> IF s \in Notified(o) THEN count[s] + 1 ELSE count[s]]
  /\ timer' = [s \in Renders |-> IF s \in Notified(o) THEN "none" ELSE timer[s]]
  /\ UNCHANGED <<earlyListeners, listeners, tickPending, subscribedSignals, rendering, phase>>

\* The read settles, in a microtask or a task of its own, and wakes a job.  It
\* throws if a count is 0: that this never happens is part of TypeOK.
EndRead(r) ==
  /\ r \in inFlight /\ inFlight' = inFlight \ {r}
  /\ count' = [s \in Signals |-> IF s \in Notified(owner[r]) THEN count[s] - 1 ELSE count[s]]
  /\ NoMorePendingCaches({s \in Notified(owner[r]) : count[s] = 1})
  /\ job' = [job EXCEPT ![r] = "micro"]
  /\ UNCHANGED <<earlyListeners, listeners, subscribedSignals, rendering, owner, phase>>

-----------------------------------------------------------------------------
(* trackPendingModules and cacheReady.                                     *)
ReadsAdded_None == 0
ReadsAdded == count[Modules]

IfUnused(s, n) == IF count[s] + n = 0 THEN {s} ELSE {}

Subscribed_Once(s) == IF subscribedSignals = {} THEN {s} ELSE subscribedSignals
Subscribed(s) == subscribedSignals \cup {s}

\* subscribeToReads for a new signal, then cacheReady for the given listeners.
Track(s, waiting) ==
  /\ subscribedSignals' = Subscribed(s)
  /\ count' = [count EXCEPT ![s] = @ + ReadsAdded]
  /\ listeners' = [listeners EXCEPT ![s] = {"unsubscribe"} \cup waiting]
  /\ NoMorePendingCaches(IfUnused(s, ReadsAdded))
  /\ UNCHANGED <<earlyListeners, owner, inFlight, phase>>

\* A prerender: React is called, then the modules are tracked and cacheReady
\* is awaited.
Prerender(s) ==
  /\ s \in Prerenders /\ rendering[s] = "new" /\ BetweenTasks
  /\ rendering' = [rendering EXCEPT ![s] = "awaiting"]
  /\ job' = [job EXCEPT ![s] = "micro"]
  /\ Track(s, {"render"})

\* In dev the modules are tracked first, the payload is awaited, the stages of
\* the render run in tasks, and if one of them met a pending read or sync IO
\* abandoned the render, cacheReady is awaited.
TrackDevRender(s) ==
  /\ s \in DevRenders /\ rendering[s] = "new" /\ BetweenTasks
  /\ rendering' = [rendering EXCEPT ![s] = "tracked"]
  /\ Track(s, {}) /\ UNCHANGED job

StartDevRender(s) ==
  /\ rendering[s] = "tracked" /\ BetweenTasks
  /\ rendering' = [rendering EXCEPT ![s] = "started"]
  /\ job' = [job EXCEPT ![s] = "micro"]
  /\ UNCHANGED <<signalVars, owner, inFlight, phase>>

AwaitDevRender(s) ==
  /\ rendering[s] = "started" /\ BetweenTasks
  /\ rendering' = [rendering EXCEPT ![s] = "awaiting"]
  /\ listeners' = [listeners EXCEPT ![s] = @ \cup {"render"}]
  /\ NoMorePendingCaches(IfUnused(s, 0))
  /\ UNCHANGED <<count, earlyListeners, subscribedSignals, owner, inFlight, job, phase>>

\* Arguments of a cached function that hang are given up on inputReady.
InputReady(s) ==
  /\ earlyListeners' = [earlyListeners EXCEPT ![s] = TRUE]
  /\ NoMorePendingCaches(IfUnused(s, 0))
  /\ UNCHANGED <<count, listeners, subscribedSignals, rendering, owner, inFlight, phase>>

-----------------------------------------------------------------------------
(* What the signals have scheduled.                                        *)

\* The tick, queued by a microtask: it runs after all microtasks.
Tick(s) ==
  /\ s \in tickPending /\ NoMicrojob
  /\ tickPending' = tickPending \ {s}
  /\ earlyListeners' =
       IF count[s] = 0 THEN [earlyListeners EXCEPT ![s] = FALSE] ELSE earlyListeners
  /\ UNCHANGED <<count, listeners, timer, subscribedSignals, rendering, owner, inFlight, job, phase>>

Immediate(s) ==
  /\ phase = "check" /\ timer[s] = "batch" /\ BetweenTasks
  /\ timer' = [timer EXCEPT ![s] = "timeout"]
  /\ UNCHANGED <<count, earlyListeners, listeners, tickPending, subscribedSignals, rendering, owner, inFlight, job, phase>>

\* invokeListenersIfNoPendingReads, and the microtasks it leaves: the first
\* listener is always the unsubscription, so nothing runs before it.
Timeout(s) ==
  /\ phase = "timers" /\ timer[s] = "timeout" /\ BetweenTasks
  /\ timer' = [timer EXCEPT ![s] = "none"]
  /\ IF count[s] = 0
     THEN /\ listeners' = [listeners EXCEPT ![s] = {}]
          /\ rendering' = IF "render" \in listeners[s] THEN [rendering EXCEPT ![s] = "ready"] ELSE rendering
          /\ subscribedSignals' = IF "unsubscribe" \in listeners[s] THEN subscribedSignals \ {s}
                                  ELSE subscribedSignals
     ELSE UNCHANGED <<listeners, rendering, subscribedSignals>>
  /\ UNCHANGED <<count, earlyListeners, tickPending, owner, inFlight, job, phase>>

-----------------------------------------------------------------------------
(* React and the rest of the process.                                      *)
Runnable(j) == job[j] = "micro" \/ (job[j] = "batch" /\ phase = "check" /\ BetweenTasks)

\* A read is begun by a render that has started, or one of a module by anyone.
Rendering == {s \in Renders : rendering[s] \in {"started", "awaiting"}}
Readable == Rendering \cup {Modules}

RunJob(j) ==
  /\ Runnable(j)
  /\ job' = [job EXCEPT ![j] = "none"]
  /\ \/ UNCHANGED <<signalVars, rendering, owner, inFlight, phase>>
     \/ \E s \in Rendering : InputReady(s)
     \/ \E r \in Reads, o \in Readable : BeginRead(r, o)

\* A render that streams schedules its work with setImmediate.
DeferJob(j) ==
  /\ job[j] = "micro"
  /\ job' = [job EXCEPT ![j] = "queued"]
  /\ UNCHANGED <<signalVars, rendering, owner, inFlight, phase>>

\* Code that waited for something else than a cache goes on.
OtherTask ==
  /\ phase = "poll" /\ BetweenTasks
  /\ \E r \in Reads, o \in Readable : BeginRead(r, o)
  /\ UNCHANGED job

InBatch(f) == [x \in DOMAIN f |-> IF f[x] = "queued" THEN "batch" ELSE f[x]]
EmptyBatch == "batch" \notin {job[j] : j \in Jobs} \cup {timer[s] : s \in Renders}

\* What is queued during a check phase waits for the next one.
NextPhase ==
  /\ BetweenTasks
  /\ \/ phase = "timers" /\ phase' = "poll" /\ UNCHANGED <<job, timer>>
     \/ phase = "poll" /\ phase' = "check" /\ job' = InBatch(job) /\ timer' = InBatch(timer)
     \/ phase = "check" /\ EmptyBatch /\ phase' = "timers" /\ UNCHANGED <<job, timer>>
  /\ UNCHANGED <<count, earlyListeners, listeners, tickPending, subscribedSignals, rendering, owner, inFlight>>

RenderStep(s) ==
  Prerender(s) \/ TrackDevRender(s) \/ StartDevRender(s) \/ AwaitDevRender(s)

Next ==
  \/ \E s \in Renders : RenderStep(s)
  \/ \E s \in Renders : Tick(s) \/ Immediate(s) \/ Timeout(s)
  \/ \E r \in Reads : EndRead(r)
  \/ \E j \in Jobs : RunJob(j) \/ DeferJob(j)
  \/ OtherTask \/ NextPhase

Spec == Init /\ [][Next]_vars

\* Node runs what is scheduled, reads settle, and a timeout whose time has
\* come fires in one of the timers phases that follow.
FairSpec ==
  /\ Spec
  /\ WF_vars(NextPhase)
  /\ \A s \in Renders : WF_vars(Tick(s)) /\ WF_vars(Immediate(s)) /\ SF_vars(Timeout(s))
  /\ \A r \in Reads : WF_vars(EndRead(r))
  /\ \A j \in Jobs : WF_vars(RunJob(j) \/ DeferJob(j))

-----------------------------------------------------------------------------
(* Properties.                                                             *)

\* Types; endRead is never called on a signal whose count is 0.
TypeOK ==
  /\ count \in [Signals -> Nat]
  /\ earlyListeners \in [Renders -> BOOLEAN]
  /\ listeners \in [Renders -> SUBSET {"unsubscribe", "render"}]
  /\ tickPending \subseteq Renders /\ subscribedSignals \subseteq Renders
  /\ timer \in [Renders -> {"none", "queued", "batch", "timeout"}]
  /\ rendering \in [Renders -> {"new", "tracked", "started", "awaiting", "ready"}]
  /\ owner \in [Reads -> Signals \cup {NoSignal}] /\ inFlight \subseteq Reads
  /\ job \in [Jobs -> {"none", "micro", "queued", "batch"}]
  /\ phase \in {"timers", "poll", "check"}

ReadsOf(s) == {r \in inFlight : owner[r] = s}
Counted(s) == IF s \in subscribedSignals THEN ReadsOf(s) \cup ReadsOf(Modules) ELSE ReadsOf(s)

\* A signal counts the reads in flight on it and, exactly while it is
\* subscribed, those of the modules: subscribing and unsubscribing in the
\* middle of a read never leaves a count that no endRead takes back.
CountsAgree == \A s \in Signals : count[s] = Cardinality(Counted(s))

\* No lost wake-up: what waits on a signal without a read in flight has
\* something scheduled that will notice.
NoLostWakeup ==
  \A s \in Renders : count[s] = 0 =>
    /\ listeners[s] # {} => timer[s] # "none"
    /\ earlyListeners[s] => s \in tickPending

\* noMorePendingCaches: "After a cache resolves, React will schedule new
\* rendering work".  A render is told that its caches are ready only when
\* everything that its own start or a read it counted has woken has run.
Awaits(s, j) ==
  j = s \/ (j \in Reads /\ (owner[j] = s \/ (owner[j] = Modules /\ s \in subscribedSignals)))
ReadyMeansSettled ==
  [][\A s \in Renders : rendering'[s] = "ready" /\ rendering[s] # "ready" =>
       \A j \in Jobs : Awaits(s, j) => job[j] = "none"]_vars

\* trackPendingModules: cacheSignal is extended "at least until the
\* import/chunk-load is done".  No render goes on while one is in flight.
NoImportMissed(S) ==
  \A s \in S : rendering'[s] = "ready" /\ rendering[s] # "ready" => ReadsOf(Modules) = {}
ImportsExtendPrerenders == [][NoImportMissed(Prerenders)]_vars

\* Reads settle and are finitely many, so cacheReady resolves.
CacheReadyResolves ==
  \A s \in Renders : rendering[s] = "awaiting" ~> rendering[s] = "ready"
=============================================================================
