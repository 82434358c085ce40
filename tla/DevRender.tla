----------------------------- MODULE DevRender -----------------------------
(***************************************************************************)
(* The render of a request in development: an initial render in stages,    *)
(* which is abandoned when a stage task finds an unfinished cache read,    *)
(* fills the caches, and is then rendered again with warm caches.          *)
(*                                                                         *)
(* The components of the page are tasks, each with a program: cached       *)
(* functions it calls, promises of stages it awaits (runtime APIs,         *)
(* connection(), the delay of a segment that is not prefetchable), sync IO *)
(* and I/O of its own.  They call the "use cache" wrapper, which reads the *)
(* resume data cache (RDC) of the request, the cache handler, and at last  *)
(* generates the entry.                                                    *)
(*                                                                         *)
(* The stage tasks are an atomic timer group: between two of them, whatever*)
(* can run without I/O runs, and no I/O completes.  cacheReady is what     *)
(* module CacheSignal shows of it: no read is open and nothing can run.    *)
(***************************************************************************)
EXTENDS StagedRendering, Sequences, FiniteSets

CONSTANTS
  Tasks,
  Keys,          \* of the cached functions
  Life,          \* cacheLife: long, short (it expires within minutes, or
                 \* revalidate is 0), shortStale (stale within 30 seconds)
  Programs,      \* what the tasks may do: functions from Tasks to programs
  HandlerHas     \* what the cache handler may have of a key at the start:
                 \* absent, fresh, stale

Ops ==
  [do : {"read"}, key : Keys] \cup [do : {"wait"}, stage : Advanceable]
    \cup [do : {"syncIO", "lazyInit", "io"}]

ASSUME DevRenderAssumption ==
  /\ IsFiniteSet(Tasks) /\ Life \in [Keys -> {"long", "short", "shortStale"}]
  /\ Programs \subseteq [Tasks -> Seq(Ops)] /\ HandlerHas \subseteq {"absent", "fresh", "stale"}
  /\ {"none", "handler", "fresh", "stale"} \cap Tasks = {}

\* Entries are named for what supplied them: a task that generates them, or the
\* cache handler.
Entries == Tasks \cup {"none", "handler"}

VARIABLES
  program,
  render,        \* initial, final
  turn,          \* how many tasks of the atomic group have run
  ctl,           \* its stage controller
  count,         \* of the cacheSignal
  rdc,           \* the entry of each key
  filling,       \* entries being generated: the key, the task, and whether the
                 \* end of the generation ends the read
  handler,       \* what the cache handler has: absent, fresh, stale
  at,            \* the operation a task has come to
  pc,            \* what it awaits there
  until,         \* the stage it awaits
  held,          \* the entry it has got: of the RDC, or of the handler (then
                 \* fresh or stale)
  initialized    \* has the lazy module been?

cacheVars == <<count, rdc, filling, handler>>
taskVars == <<at, pc, until, held>>
vars == <<program, render, turn, ctl, cacheVars, taskVars, initialized>>

PCs == {"ready",     \* nothing
        "entry",     \* the promise in the RDC
        "got",       \* an answer of the cache handler that needs no I/O
        "get",       \* the cache handler
        "stage",     \* the promise of a stage
        "timer",     \* the timer of generateCacheEntryImpl
        "stream",    \* the stream of the entry it generates
        "io"}

Start ==
  /\ at = [t \in Tasks |-> 1] /\ pc = [t \in Tasks |-> "ready"]
  /\ until = [t \in Tasks |-> Static] /\ held = [t \in Tasks |-> "none"]

Init ==
  /\ program \in Programs /\ handler \in [Keys -> HandlerHas]
  /\ render = "initial" /\ turn = 0 /\ ctl = Controller(TRUE, TRUE)
  /\ count = 0 /\ rdc = [k \in Keys |-> "none"] /\ filling = {}
  /\ initialized = FALSE /\ Start

Op(t) == program[t][at[t]]
At(t, do) == at[t] <= Len(program[t]) /\ Op(t).do = do
Key(t) == Op(t).key

\* I/O completes, and timers fire, before the atomic group or after it.
IOTurn == turn \in {0, 6}

\* What getCacheSignal finds: a request has a signal in the initial render.
Reads == IF render = "initial" THEN 1 ELSE 0

Resolved(k, e) == \A f \in filling : ~(f.key = k /\ f.by = e)
AwaitsFill(t) == \E f \in filling : f.key = Key(t) /\ f.by = t

Runnable(t) ==
  /\ turn > 0 /\ at[t] <= Len(program[t])
  /\ \/ pc[t] \in {"ready", "got"}
     \/ pc[t] = "entry" /\ Resolved(Key(t), held[t])
     \/ pc[t] = "stage" /\ until[t] \in ctl.open
     \/ pc[t] = "stream" /\ ~AwaitsFill(t)
NothingRunnable == \A t \in Tasks : ~Runnable(t)

-----------------------------------------------------------------------------
(* The "use cache" wrapper.                                                *)
Proceed(t) ==
  /\ at' = [at EXCEPT ![t] = @ + 1] /\ pc' = [pc EXCEPT ![t] = "ready"]
  /\ held' = [held EXCEPT ![t] = "none"] /\ UNCHANGED until

Await(t, what, entry) ==
  /\ pc' = [pc EXCEPT ![t] = what] /\ held' = [held EXCEPT ![t] = entry]
  /\ UNCHANGED <<at, until>>

AwaitStage(t, s, entry) ==
  /\ pc' = [pc EXCEPT ![t] = "stage"] /\ until' = [until EXCEPT ![t] = s]
  /\ held' = [held EXCEPT ![t] = entry] /\ UNCHANGED at

\* The read of an RDC that has no entry is ended, and begun again for the cache
\* handler, which answers at once or after I/O.
BeginRead_MissNotEnded(t) ==
  LET k == Key(t) IN
  /\ Runnable(t) /\ At(t, "read") /\ pc[t] = "ready"
  /\ count' = IF rdc[k] = "none" THEN count + 2 * Reads ELSE count + Reads
  /\ IF rdc[k] # "none" THEN Await(t, "entry", rdc[k])
     ELSE \E what \in {"got", "get"} : Await(t, what, "none")
  /\ UNCHANGED <<program, render, turn, ctl, rdc, filling, handler, initialized>>
BeginRead(t) ==
  LET k == Key(t) IN
  /\ Runnable(t) /\ At(t, "read") /\ pc[t] = "ready"
  /\ count' = count + Reads
  /\ IF rdc[k] # "none" THEN Await(t, "entry", rdc[k])
     ELSE \E what \in {"got", "get"} : Await(t, what, "none")
  /\ UNCHANGED <<program, render, turn, ctl, rdc, filling, handler, initialized>>

\* The entry is put in the RDC, if the RDC can be written, and its stream is
\* read to the end.
Consume(t, entry) ==
  /\ rdc' = IF render = "initial" THEN [rdc EXCEPT ![Key(t)] = entry] ELSE rdc
  /\ count' = count - Reads
  /\ Proceed(t)

\* A short-lived entry must not be in what is prerendered.  The read is left
\* open, so that it counts as a miss and the page is rendered again.
ReadEntry(t) ==
  LET k == Key(t) IN
  /\ Runnable(t) /\ pc[t] = "entry"
  /\ IF Life[k] = "long" THEN Consume(t, held[t])
     ELSE /\ AwaitStage(t, IF Life[k] = "short" THEN GetRuntimeStage(ctl) ELSE Dynamic, held[t])
          /\ UNCHANGED <<count, rdc>>
  /\ UNCHANGED <<program, render, turn, ctl, filling, handler, initialized>>

Fill(t, endsRead) == filling' = filling \cup {[key |-> Key(t), by |-> t, endsRead |-> endsRead]}

\* In the initial render the generation takes at least a task, so that the miss
\* is noticed; in the final one the RDC is not written.
Generate_EndsRead(t, entry) ==
  /\ IF render = "initial" THEN Await(t, "timer", entry) /\ UNCHANGED filling
     ELSE /\ Fill(t, FALSE)
          /\ IF entry = "stale" THEN Proceed(t) ELSE Await(t, "stream", entry)
  /\ count' = count - Reads
Generate(t, entry) ==
  /\ IF render = "initial" THEN Await(t, "timer", entry) /\ UNCHANGED filling
     ELSE /\ Fill(t, FALSE)
          /\ IF entry = "stale" THEN Proceed(t) ELSE Await(t, "stream", entry)
  /\ UNCHANGED count

\* The handler's entry is used; if it is stale, another is generated before the
\* function returns, and is filled in the background.
UseHandlerEntry(t, entry) ==
  IF entry = "fresh" THEN Consume(t, "handler") /\ UNCHANGED filling
  ELSE /\ rdc' = IF render = "initial" THEN [rdc EXCEPT ![Key(t)] = "handler"] ELSE rdc
       /\ Generate(t, entry)

HandlerAnswers(t) ==
  LET k == Key(t) IN
  /\ (pc[t] = "got" /\ Runnable(t)) \/ (pc[t] = "get" /\ IOTurn)
  /\ IF handler[k] = "absent" THEN Generate(t, "none") /\ UNCHANGED rdc
     ELSE IF Life[k] = "short"
          THEN /\ AwaitStage(t, GetRuntimeStage(ctl), handler[k])
               /\ UNCHANGED <<count, rdc, filling>>
          ELSE UseHandlerEntry(t, handler[k])
  /\ UNCHANGED <<program, render, turn, ctl, handler, initialized>>

\* The stage has been reached that the short-lived entry was delayed to.
UseDelayed(t) ==
  /\ Runnable(t) /\ At(t, "read") /\ pc[t] = "stage"
  /\ IF held[t] \in {"fresh", "stale"} THEN UseHandlerEntry(t, held[t])
     ELSE Consume(t, held[t]) /\ UNCHANGED filling
  /\ UNCHANGED <<program, render, turn, ctl, handler, initialized>>

\* The generation starts, and the RDC has a promise of its result.  A background
\* generation does not end the read, the stream of the stale entry does.
StartGeneration(t) ==
  /\ IOTurn /\ pc[t] = "timer"
  /\ rdc' = [rdc EXCEPT ![Key(t)] = t]
  /\ Fill(t, held[t] = "none")
  /\ IF held[t] = "none" THEN Await(t, "stream", "none") /\ UNCHANGED count
     ELSE Proceed(t) /\ count' = count - Reads
  /\ UNCHANGED <<program, render, turn, ctl, handler, initialized>>

StreamArrives(t) ==
  /\ IOTurn \/ Runnable(t)
  /\ pc[t] = "stream" /\ Proceed(t)
  /\ UNCHANGED <<program, render, turn, ctl, cacheVars, initialized>>

\* collectResult: the result is saved in the cache handler too.
EndGeneration(f) ==
  /\ IOTurn /\ filling' = filling \ {f}
  /\ count' = IF f.endsRead THEN count - 1 ELSE count
  /\ handler' = [handler EXCEPT ![f.key] = "fresh"]
  /\ UNCHANGED <<program, render, turn, ctl, rdc, taskVars, initialized>>

-----------------------------------------------------------------------------
(* Everything else a component does.                                       *)
BeginWait(t) ==
  /\ Runnable(t) /\ At(t, "wait") /\ pc[t] = "ready"
  /\ AwaitStage(t, Op(t).stage, "none")
  /\ UNCHANGED <<program, render, turn, ctl, cacheVars, initialized>>

EndWait(t) ==
  /\ Runnable(t) /\ At(t, "wait") /\ pc[t] = "stage" /\ Proceed(t)
  /\ UNCHANGED <<program, render, turn, ctl, cacheVars, initialized>>

SyncIO(t) ==
  /\ Runnable(t) /\ At(t, "syncIO") /\ Proceed(t)
  /\ ctl' = IF ShouldTrackSyncInterrupt(ctl) THEN SyncInterrupt(ctl) ELSE ctl
  /\ UNCHANGED <<program, render, turn, cacheVars, initialized>>

\* A module that does sync IO when it is first used.
LazyInit(t) ==
  /\ Runnable(t) /\ At(t, "lazyInit") /\ Proceed(t)
  /\ initialized' = TRUE
  /\ ctl' = IF ~initialized /\ ShouldTrackSyncInterrupt(ctl) THEN SyncInterrupt(ctl) ELSE ctl
  /\ UNCHANGED <<program, render, turn, cacheVars>>

BeginIO(t) ==
  /\ Runnable(t) /\ At(t, "io") /\ pc[t] = "ready" /\ Await(t, "io", "none")
  /\ UNCHANGED <<program, render, turn, ctl, cacheVars, initialized>>

EndIO(t) ==
  /\ IOTurn /\ pc[t] = "io" /\ Proceed(t)
  /\ UNCHANGED <<program, render, turn, ctl, cacheVars, initialized>>

-----------------------------------------------------------------------------
(* renderWithRestartOnCacheMissInDev.  The first task starts React.        *)
InitialStage_Unchecked(s) == IF ctl.abandonAborted THEN ctl ELSE AdvanceStage(ctl, s)
InitialStage(s) ==
  IF ctl.abandonAborted THEN ctl ELSE IF count > 0 THEN Abandon(ctl) ELSE AdvanceStage(ctl, s)

StageTask ==
  /\ turn < 5 /\ (turn > 0 => NothingRunnable)
  /\ turn' = turn + 1
  /\ ctl' = IF render = "initial" /\ turn > 0 THEN InitialStage(turn + 2)
            ELSE AdvanceStage(ctl, turn + 2)
  /\ UNCHANGED <<program, render, cacheVars, taskVars, initialized>>

TasksDone ==
  /\ turn = 5 /\ NothingRunnable /\ turn' = 6
  /\ UNCHANGED <<program, render, ctl, cacheVars, taskVars, initialized>>

\* cacheReady has resolved: the initial render is aborted, and the page is
\* rendered with the RDC it has filled.
Restart ==
  /\ render = "initial" /\ turn = 6 /\ ctl.stage = Abandoned
  /\ count = 0 /\ NothingRunnable
  /\ render' = "final" /\ turn' = 0 /\ ctl' = Controller(FALSE, FALSE)
  /\ at' = [t \in Tasks |-> 1] /\ pc' = [t \in Tasks |-> "ready"]
  /\ until' = [t \in Tasks |-> Static] /\ held' = [t \in Tasks |-> "none"]
  /\ UNCHANGED <<program, cacheVars, initialized>>

\* The render that is sent to the browser, and that it has been sent entirely.
Used == turn = 6 /\ ctl.stage # Abandoned
Served == Used /\ \A t \in Tasks : at[t] > Len(program[t])

Idle == Served /\ filling = {} /\ UNCHANGED vars

ReadStep(t) ==
  \/ BeginRead(t) \/ ReadEntry(t) \/ HandlerAnswers(t) \/ UseDelayed(t)
  \/ StartGeneration(t) \/ StreamArrives(t)
OtherStep(t) ==
  BeginWait(t) \/ EndWait(t) \/ SyncIO(t) \/ LazyInit(t) \/ BeginIO(t) \/ EndIO(t)
RenderStep == StageTask \/ TasksDone \/ Restart

Next ==
  \/ \E t \in Tasks : ReadStep(t) \/ OtherStep(t)
  \/ \E f \in filling : EndGeneration(f)
  \/ RenderStep \/ Idle

Spec == Init /\ [][Next]_vars

\* The I/O of the page and of its cached functions completes.
FairSpec == Spec /\ WF_vars(Next)

-----------------------------------------------------------------------------
TypeOK ==
  /\ program \in [Tasks -> Seq(Ops)] /\ render \in {"initial", "final"} /\ turn \in 0 .. 6
  /\ ctl \in Controllers /\ count \in Nat /\ rdc \in [Keys -> Entries]
  /\ filling \subseteq [key : Keys, by : Tasks, endsRead : BOOLEAN]
  /\ handler \in [Keys -> {"absent", "fresh", "stale"}]
  /\ at \in [Tasks -> Nat \ {0}] /\ pc \in [Tasks -> PCs] /\ until \in [Tasks -> Advanceable]
  /\ held \in [Tasks -> Entries \cup {"fresh", "stale"}]
  /\ initialized \in BOOLEAN

ReadOpen(t) == \/ pc[t] \in {"entry", "got", "get", "timer"}
               \/ pc[t] = "stage" /\ At(t, "read")

\* The signal counts the reads that are open: of the tasks that have not got
\* their entry, and of the generations that end theirs.
CountsAgree ==
  count = IF render = "final" THEN 0
          ELSE Cardinality({t \in Tasks : ReadOpen(t)}) + Cardinality({f \in filling : f.endsRead})

\* The stage in which each operation of a page is done by a prerender, where
\* the caches are warm: what development must show.
IdealStage(ops) ==
  LET ideal[i \in 0 .. Len(ops)] ==
        IF i = 0 THEN EarlyStatic
        ELSE LET s == ideal[i - 1] op == ops[i] IN
             CASE op.do = "wait" -> IF op.stage > s THEN op.stage ELSE s
               [] op.do = "io" -> Dynamic
               [] op.do = "read" /\ Life[op.key] = "short" ->
                    IF s \in {EarlyStatic, EarlyRuntime} THEN EarlyRuntime
                    ELSE IF s = Static THEN Runtime ELSE s
               [] op.do = "read" /\ Life[op.key] = "shortStale" -> Dynamic
               [] OTHER -> s
  IN ideal
Done(t, s) == Cardinality({i \in 1 .. Len(program[t]) : IdealStage(program[t])[i] <= s})

Prerenderable == ctl.stage \in EarlyStatic .. Runtime
\* At the end of each stage, a task has done what it does in that stage of a
\* prerender: no more, and no less, unless an open read will abandon the render.
\* In the dynamic stage nothing is late that belonged in an earlier one.
StagedAsPrerendered ==
  NothingRunnable /\ turn > 0 /\ ctl.stage # Abandoned =>
    \A t \in Tasks :
      /\ ctl.stage < Dynamic => at[t] - 1 <= Done(t, ctl.stage)
      /\ \/ at[t] - 1 >= Done(t, IF ctl.stage < Dynamic THEN ctl.stage ELSE Runtime)
         \/ render = "initial" /\ ctl.stage < Dynamic /\ count > 0

\* The reads of the final render that come before its dynamic stage find their
\* entry in the RDC, generated: "we've already filled any caches".
FinalRenderIsWarm ==
  render = "final" /\ Prerenderable =>
    \A t \in Tasks :
      /\ pc[t] \notin {"got", "get", "stream"}
      /\ pc[t] = "entry" => Resolved(Key(t), held[t])

\* An abandoned render stops exactly before what awaits the dynamic stage, as
\* connection() does and an uncached fetch: "unblocking the dynamic stage would
\* likely lead to wasted (uncached) IO".  It does nothing behind such a wait; and
\* when the caches are ready, every component has come to one, or to its end,
\* unless it is in I/O that no stage holds back.
WaitsForDynamic(t, i) == program[t][i].do = "wait" /\ program[t][i].stage = Dynamic
AbandonedStopsAtDynamic ==
  ctl.stage = Abandoned =>
    \A t \in Tasks :
      /\ \A i \in 1 .. at[t] - 1 : ~WaitsForDynamic(t, i)
      /\ turn = 6 /\ NothingRunnable /\ count = 0 /\ at[t] <= Len(program[t]) =>
           WaitsForDynamic(t, at[t]) \/ pc[t] = "io"

\* The render that is used reports sync IO if and only if a prerender would
\* meet it: not that of a lazy initialization, which happens once.
MeetsSyncIO ==
  \E t \in Tasks : \E i \in 1 .. Len(program[t]) :
    program[t][i].do = "syncIO" /\ IdealStage(program[t])[i] <= EarlyRuntime
SyncIOReported == Served => (ctl.interrupted <=> MeetsSyncIO)

\* Every request is answered, whatever the caches hold.
EveryRequestServed == <>Served
=============================================================================
