-------------------------- MODULE DevRenderProofs --------------------------
(***************************************************************************)
(* Proofs about module DevRender, for any page, any cached functions and   *)
(* whatever the cache handler has: its types, and the count of its cache   *)
(* signal.  The invariant is IInv.                                         *)
(*                                                                         *)
(* Then, for a handler without stale entries, where an abandoned render    *)
(* stops.  The invariant of this second part is Steady.                    *)
(*                                                                         *)
(* At last, for the handlers that are Warmable: that each stage shows what *)
(* a prerender has in it, that the final render is warm before its dynamic *)
(* stage, and that it reports the sync IO of the page.  The invariant of   *)
(* this third part is Staged.                                              *)
(***************************************************************************)
EXTENDS DevRender, FiniteSetTheorems, WellFoundedInduction, TLAPS

\* No more is open than the stage allows, and never the dynamic stage when the
\* render has been abandoned.
Safe(c) ==
  /\ c.stage = Abandoned => Dynamic \notin c.open
  /\ c.stage # Abandoned => \A s \in c.open : s <= c.stage

\* The read that a task has begun, if it may end up generating the entry.
MayFill(t) == \/ pc[t] \in {"got", "get", "timer"}
              \/ pc[t] = "stage" /\ At(t, "read") /\ held[t] \in {"fresh", "stale"}

\* What a task awaits belongs to the operation it has come to.
ShapeOf(t) ==
  /\ pc[t] \in {"entry", "got", "get", "timer", "stream"} => At(t, "read")
  /\ pc[t] = "io" => At(t, "io")
  /\ pc[t] = "stage" => At(t, "read") \/ (At(t, "wait") /\ until[t] = Op(t).stage)
  /\ pc[t] = "entry" => held[t] \in Entries \ {"none"}
  /\ pc[t] = "stage" /\ At(t, "read") => held[t] # "none"
  /\ pc[t] = "timer" => render = "initial" /\ held[t] \in {"none", "stale"}
TaskShape == \A t \in Tasks : ShapeOf(t)

\* Generations that end a read are those of the initial render, one for a read.
FillShape ==
  /\ IsFiniteSet(filling)
  /\ \A f \in filling : f.endsRead =>
       /\ render = "initial" /\ rdc[f.key] # "none"
       /\ MayFill(f.by) => Key(f.by) # f.key

\* A task has waited for the stages that it is past.
Waited ==
  \A t \in Tasks : \A i \in 1 .. at[t] - 1 :
    i <= Len(program[t]) /\ (program[t][i].do = "wait" => program[t][i].stage \in ctl.open)

IInv ==
  /\ TypeOK /\ TaskShape /\ FillShape /\ CountsAgree
  /\ Safe(ctl) /\ Waited

-----------------------------------------------------------------------------
(* The methods of the controller.                                          *)
Moved(c, s, o) == [c EXCEPT !.stage = s, !.open = o]

LEMMA MovedType ==
  ASSUME NEW c \in Controllers, NEW s \in Stages, NEW o \in SUBSET Advanceable
  PROVE  Moved(c, s, o) \in Controllers /\ Moved(c, s, o).stage = s /\ Moved(c, s, o).open = o
<1> DEFINE e == [c EXCEPT !.stage = s]
<1>1. Moved(c, s, o) = [e EXCEPT !.open = o]
  BY DEF Controllers, Moved
<1>2. e \in Controllers /\ e.stage = s
  BY DEF Controllers
<1> HIDE DEF e
<1> QED BY <1>1, <1>2 DEF Controllers

LEMMA AdvanceStageSafe ==
  ASSUME NEW c \in Controllers, NEW s \in EarlyStatic .. Dynamic, Safe(c)
  PROVE  /\ AdvanceStage(c, s) \in Controllers /\ Safe(AdvanceStage(c, s))
         /\ c.open \subseteq AdvanceStage(c, s).open
<1> USE DEF EarlyStatic, Static, Dynamic, Abandoned, Stages, Advanceable, Before
<1>1. CASE s <= c.stage
  BY <1>1 DEF AdvanceStage
<1>2. CASE ~(s <= c.stage)
  <2> DEFINE d == [c EXCEPT !.stage = s, !.open = OpenTo(c, s)]
  <2>1. OpenTo(c, s) \subseteq Advanceable /\ c.open \subseteq OpenTo(c, s)
    BY DEF OpenTo, Controllers
  <2>2. d \in Controllers /\ d.stage = s /\ d.open = OpenTo(c, s)
    <3>1. s \in Stages /\ OpenTo(c, s) \in SUBSET Advanceable
      BY <2>1
    <3>2. d = Moved(c, s, OpenTo(c, s))
      BY DEF Moved
    <3> HIDE DEF d, Stages, Advanceable
    <3> QED BY <3>1, <3>2, MovedType
  <2>3. \A x \in OpenTo(c, s) : x <= s
    BY <1>2 DEF OpenTo, Safe, Controllers
  <2>4. AdvanceStage(c, s) = d
    BY <1>2 DEF AdvanceStage
  <2> HIDE DEF d
  <2> QED BY <2>1, <2>2, <2>3, <2>4 DEF Safe
<1> QED BY <1>1, <1>2

LEMMA AbandonSafe ==
  ASSUME NEW c \in Controllers, Safe(c)
  PROVE  Abandon(c) \in Controllers /\ Safe(Abandon(c)) /\ c.open \subseteq Abandon(c).open
<1> USE DEF EarlyStatic, Static, Runtime, Dynamic, Abandoned, Stages, Advanceable, Before
<1> DEFINE b == [c EXCEPT !.abandonAborted = TRUE]
           d == [b EXCEPT !.stage = Abandoned, !.open = OpenTo(b, Runtime)]
<1>1. b \in Controllers /\ b.open = c.open /\ b.stage = c.stage
  BY DEF Controllers
<1>2. OpenTo(b, Runtime) = OpenTo(c, Runtime)
  BY <1>1 DEF OpenTo
<1>3. OpenTo(c, Runtime) \subseteq Advanceable /\ c.open \subseteq OpenTo(c, Runtime)
  BY DEF OpenTo, Controllers
<1>4. d \in Controllers /\ d.stage = Abandoned /\ d.open = OpenTo(c, Runtime)
  <2>1. Abandoned \in Stages /\ OpenTo(b, Runtime) \in SUBSET Advanceable
    BY <1>2, <1>3
  <2>2. d = Moved(b, Abandoned, OpenTo(b, Runtime))
    BY DEF Moved
  <2> HIDE DEF b, d, Stages, Advanceable, Abandoned
  <2> QED BY <1>1, <1>2, <2>1, <2>2, MovedType
<1>5. c.stage \in EarlyStatic .. Runtime => Dynamic \notin OpenTo(c, Runtime)
  BY DEF OpenTo, Safe
<1>6. Abandon(c) = c \/ Abandon(c) = b \/ (Abandon(c) = d /\ c.stage \in EarlyStatic .. Runtime)
  BY <1>1 DEF Abandon, AbandonRender
<1> HIDE DEF b, d
<1>7. Safe(b)
  BY <1>1 DEF Safe
<1>8. c.stage \in EarlyStatic .. Runtime => Safe(d)
  BY <1>4, <1>5 DEF Safe
<1> QED BY <1>1, <1>3, <1>4, <1>6, <1>7, <1>8

LEMMA SyncInterruptSafe ==
  ASSUME NEW c \in Controllers, Safe(c), ShouldTrackSyncInterrupt(c)
  PROVE  /\ SyncInterrupt(c) \in Controllers /\ Safe(SyncInterrupt(c))
         /\ c.open \subseteq SyncInterrupt(c).open
<1> USE DEF EarlyStatic, EarlyRuntime, Dynamic, Abandoned, Stages, Before
<1> DEFINE i == [c EXCEPT !.interrupted = TRUE]
           d == [c EXCEPT !.interrupted = TRUE, !.stage = Abandoned]
<1>1. i \in Controllers /\ i.open = c.open /\ i.stage = c.stage
  BY DEF Controllers
<1>2. d \in Controllers /\ d.open = c.open /\ d.stage = Abandoned
  <2>1. Abandoned \in Stages
    OBVIOUS
  <2>2. d = [i EXCEPT !.stage = Abandoned]
    BY DEF Controllers
  <2> HIDE DEF i, d
  <2> QED BY <1>1, <2>1, <2>2 DEF Controllers
<1>3. Safe(i) /\ Safe(d)
  BY <1>1, <1>2 DEF Safe, ShouldTrackSyncInterrupt
<1>4. SyncInterrupt(c) \in {c, d, Abandon(c), AdvanceStage(i, Dynamic)}
  BY DEF SyncInterrupt, Interrupted
<1> HIDE DEF i, d
<1>5. Dynamic \in EarlyStatic .. Dynamic
  OBVIOUS
<1>6. /\ AdvanceStage(i, Dynamic) \in Controllers /\ Safe(AdvanceStage(i, Dynamic))
      /\ c.open \subseteq AdvanceStage(i, Dynamic).open
  BY <1>1, <1>3, <1>5, AdvanceStageSafe
<1> QED BY <1>1, <1>2, <1>3, <1>4, <1>6, AbandonSafe

\* How a step moves the controller: what is open remains so, until the restart.
LEMMA ControllerStep ==
  ASSUME TypeOK, Safe(ctl), [Next]_vars
  PROVE  ctl' \in Controllers /\ Safe(ctl)' /\ (~Restart => ctl.open \subseteq ctl'.open)
<1>0. ctl \in Controllers
  BY DEF TypeOK
<1>1. CASE UNCHANGED ctl
  BY <1>0, <1>1 DEF Safe
<1>2. CASE StageTask
  <2>1. turn + 2 \in EarlyStatic .. Dynamic
    BY <1>2 DEF StageTask, TypeOK, EarlyStatic, Dynamic
  <2>2. ctl' \in {ctl, Abandon(ctl), AdvanceStage(ctl, turn + 2)}
    BY <1>2 DEF StageTask, InitialStage
  <2>3. /\ ctl' \in Controllers /\ ctl.open \subseteq ctl'.open
        /\ \E c \in Controllers : c = ctl' /\ Safe(c)
    BY <1>0, <2>1, <2>2, AbandonSafe, AdvanceStageSafe
  <2> QED BY <2>3 DEF Safe
<1>3. ASSUME NEW t \in Tasks, SyncIO(t) \/ LazyInit(t)
      PROVE  ctl' \in Controllers /\ Safe(ctl)' /\ ctl.open \subseteq ctl'.open
  <2>1. ctl' = ctl \/ (ShouldTrackSyncInterrupt(ctl) /\ ctl' = SyncInterrupt(ctl))
    BY <1>3 DEF SyncIO, LazyInit
  <2>2. /\ ctl' \in Controllers /\ ctl.open \subseteq ctl'.open
        /\ \E c \in Controllers : c = ctl' /\ Safe(c)
    BY <1>0, <2>1, SyncInterruptSafe
  <2> QED BY <2>2 DEF Safe
<1>4. CASE Restart
  <2>1. ctl' = Controller(FALSE, FALSE)
    BY <1>4 DEF Restart
  <2> QED BY <1>4, <2>1 DEF Controller, Controllers, Safe, Stages, Advanceable, Before, Abandoned,
                             Static, Dynamic
<1> QED
  BY <1>1, <1>2, <1>3, <1>4
  DEF Next, ReadStep, OtherStep, RenderStep, BeginRead, ReadEntry, HandlerAnswers, UseDelayed,
      StartGeneration, StreamArrives, EndGeneration, BeginWait, EndWait, BeginIO, EndIO, TasksDone,
      Idle, vars

-----------------------------------------------------------------------------
(* Type correctness.  That the count is a number is a matter of the reads. *)
TaskTypes ==
  /\ at \in [Tasks -> Nat \ {0}] /\ pc \in [Tasks -> PCs] /\ until \in [Tasks -> Advanceable]
  /\ held \in [Tasks -> Entries \cup {"fresh", "stale"}]

CacheTypes ==
  /\ rdc \in [Keys -> Entries] /\ filling \subseteq [key : Keys, by : Tasks, endsRead : BOOLEAN]
  /\ handler \in [Keys -> {"absent", "fresh", "stale"}]

LEMMA OpType ==
  ASSUME TypeOK, NEW t \in Tasks
  PROVE  /\ At(t, "read") => Key(t) \in Keys
         /\ At(t, "wait") => Op(t).stage \in Advanceable
<1>1. program[t] \in Seq(Ops) /\ at[t] \in Nat \ {0}
  BY DEF TypeOK
<1>2. at[t] <= Len(program[t]) => Op(t) \in Ops
  BY <1>1 DEF Op
<1> QED BY <1>2 DEF At, Key, Ops

LEMMA StageType == \A c \in Controllers : GetRuntimeStage(c) \in Advanceable /\ Dynamic \in Advanceable
BY DEF GetRuntimeStage, Advanceable, Static, EarlyRuntime, Runtime, Dynamic

LEMMA ReadStepType ==
  ASSUME TypeOK, TaskShape, NEW t \in Tasks, ReadStep(t)
  PROVE  TaskTypes' /\ CacheTypes'
<1>0. /\ TaskTypes /\ CacheTypes /\ ctl \in Controllers
      /\ "none" \in Entries /\ "handler" \in Entries /\ t \in Entries
  BY DEF TypeOK, TaskTypes, CacheTypes, Entries
<1> USE DEF TaskTypes, CacheTypes
<1>1. Proceed(t) => TaskTypes'
  BY <1>0 DEF Proceed, PCs, Entries
<1>2. ASSUME NEW what \in PCs, NEW entry \in Entries \cup {"fresh", "stale"}, Await(t, what, entry)
      PROVE  TaskTypes'
  BY <1>0, <1>2 DEF Await
<1>3. ASSUME NEW s \in Advanceable, NEW entry \in Entries \cup {"fresh", "stale"}, AwaitStage(t, s, entry)
      PROVE  TaskTypes'
  BY <1>0, <1>3 DEF AwaitStage, PCs
<1>4. ASSUME NEW e \in Entries, At(t, "read"), Consume(t, e)
      PROVE  TaskTypes' /\ rdc' \in [Keys -> Entries]
  BY <1>0, <1>1, <1>4 DEF Consume
<1>5. ASSUME At(t, "read"), NEW e, Fill(t, e), e \in BOOLEAN
      PROVE  filling' \subseteq [key : Keys, by : Tasks, endsRead : BOOLEAN]
  BY <1>0, <1>5, OpType DEF Fill
<1>6. ASSUME At(t, "read"), NEW entry \in {"none", "stale"}, Generate(t, entry)
      PROVE  TaskTypes' /\ filling' \subseteq [key : Keys, by : Tasks, endsRead : BOOLEAN]
  <2>1. "timer" \in PCs /\ "stream" \in PCs /\ entry \in Entries \cup {"fresh", "stale"}
    BY <1>0 DEF PCs
  <2>2. CASE render = "initial"
    BY <1>0, <1>2, <1>6, <2>1, <2>2 DEF Generate
  <2>3. CASE render # "initial"
    BY <1>1, <1>2, <1>5, <1>6, <2>1, <2>3 DEF Generate
  <2> QED BY <2>2, <2>3
<1>7. ASSUME At(t, "read"), NEW entry \in {"fresh", "stale"}, UseHandlerEntry(t, entry)
      PROVE  TaskTypes' /\ rdc' \in [Keys -> Entries]
             /\ filling' \subseteq [key : Keys, by : Tasks, endsRead : BOOLEAN]
  BY <1>0, <1>4, <1>6, <1>7 DEF UseHandlerEntry
<1>8. CASE BeginRead(t)
  <2>1. rdc[Key(t)] \in Entries
    BY <1>0, <1>8, OpType DEF BeginRead
  <2>2. UNCHANGED <<rdc, filling, handler>>
    BY <1>8 DEF BeginRead
  <2>3. \E what \in {"entry", "got", "get"}, entry \in Entries : Await(t, what, entry)
    BY <1>0, <1>8, <2>1 DEF BeginRead
  <2> QED BY <1>0, <1>2, <2>2, <2>3 DEF PCs
<1>9. CASE ReadEntry(t)
  <2>1. At(t, "read") /\ held[t] \in Entries /\ UNCHANGED <<filling, handler>>
    BY <1>9 DEF ReadEntry, TaskShape, ShapeOf
  <2>2. CASE Consume(t, held[t])
    BY <1>0, <1>4, <2>1, <2>2
  <2>3. CASE /\ AwaitStage(t, IF Life[Key(t)] = "short" THEN GetRuntimeStage(ctl) ELSE Dynamic, held[t])
             /\ UNCHANGED rdc
    BY <1>0, <1>3, <2>1, <2>3, StageType
  <2> QED BY <1>9, <2>2, <2>3 DEF ReadEntry
<1>10. CASE HandlerAnswers(t)
  <2>1. At(t, "read") /\ UNCHANGED handler
    BY <1>10 DEF HandlerAnswers, TaskShape, ShapeOf
  <2>2. handler[Key(t)] \in {"absent", "fresh", "stale"}
    BY <1>0, <2>1, OpType
  <2>3. CASE handler[Key(t)] = "absent"
    BY <1>0, <1>6, <1>10, <2>1, <2>3 DEF HandlerAnswers
  <2>4. CASE handler[Key(t)] # "absent" /\ Life[Key(t)] = "short"
    BY <1>0, <1>3, <1>10, <2>1, <2>2, <2>4, StageType DEF HandlerAnswers
  <2>5. CASE handler[Key(t)] # "absent" /\ Life[Key(t)] # "short"
    BY <1>0, <1>7, <1>10, <2>1, <2>2, <2>5 DEF HandlerAnswers
  <2> QED BY <2>3, <2>4, <2>5
<1>11. CASE UseDelayed(t)
  <2>1. At(t, "read") /\ UNCHANGED handler
    BY <1>11 DEF UseDelayed
  <2>2. CASE held[t] \in {"fresh", "stale"}
    BY <1>0, <1>7, <1>11, <2>1, <2>2 DEF UseDelayed
  <2>3. CASE held[t] \notin {"fresh", "stale"}
    BY <1>0, <1>4, <1>11, <2>1, <2>3 DEF UseDelayed
  <2> QED BY <2>2, <2>3
<1>12. CASE StartGeneration(t)
  <2>1. At(t, "read") /\ UNCHANGED handler /\ Fill(t, held[t] = "none")
    BY <1>12 DEF StartGeneration, TaskShape, ShapeOf
  <2>2. filling' \subseteq [key : Keys, by : Tasks, endsRead : BOOLEAN]
    BY <1>5, <2>1
  <2>3. rdc' \in [Keys -> Entries]
    BY <1>0, <1>12 DEF StartGeneration
  <2>4. TaskTypes'
    BY <1>0, <1>1, <1>2, <1>12 DEF StartGeneration, PCs
  <2> QED BY <1>0, <2>1, <2>2, <2>3, <2>4
<1>13. CASE StreamArrives(t)
  BY <1>0, <1>1, <1>13 DEF StreamArrives, cacheVars
<1> QED BY <1>8, <1>9, <1>10, <1>11, <1>12, <1>13 DEF ReadStep

LEMMA OtherStepType ==
  ASSUME TypeOK, NEW t \in Tasks, OtherStep(t)
  PROVE  TaskTypes' /\ CacheTypes'
<1>0. TaskTypes /\ CacheTypes /\ "none" \in Entries
  BY DEF TypeOK, TaskTypes, CacheTypes, Entries
<1> USE DEF TaskTypes, CacheTypes
<1>1. Proceed(t) => TaskTypes'
  BY <1>0 DEF Proceed, PCs
<1>2. CASE BeginWait(t)
  <2>1. AwaitStage(t, Op(t).stage, "none") /\ Op(t).stage \in Advanceable /\ UNCHANGED cacheVars
    BY <1>2, OpType DEF BeginWait
  <2> QED BY <1>0, <2>1 DEF AwaitStage, PCs, cacheVars
<1>3. CASE BeginIO(t)
  BY <1>0, <1>3 DEF BeginIO, Await, PCs, cacheVars
<1>4. CASE EndWait(t) \/ SyncIO(t) \/ LazyInit(t) \/ EndIO(t)
  BY <1>0, <1>1, <1>4 DEF EndWait, SyncIO, LazyInit, EndIO, cacheVars
<1> QED BY <1>2, <1>3, <1>4 DEF OtherStep

LEMMA TypeStep ==
  ASSUME TypeOK, TaskShape, Safe(ctl), [Next]_vars, count' \in Nat
  PROVE  TypeOK'
<1>1. TaskTypes' /\ CacheTypes'
  <2>0. TaskTypes /\ CacheTypes
    BY DEF TypeOK, TaskTypes, CacheTypes
  <2>1. CASE \E f \in filling : EndGeneration(f)
    <3>1. PICK f \in filling : EndGeneration(f)
      BY <2>1
    <3>2. filling' \subseteq filling /\ handler' = [handler EXCEPT ![f.key] = "fresh"]
          /\ UNCHANGED <<rdc, at, pc, until, held>>
      BY <3>1 DEF EndGeneration, taskVars
    <3> QED BY <2>0, <3>2 DEF TaskTypes, CacheTypes
  <2>2. CASE StageTask \/ TasksDone \/ Idle \/ UNCHANGED vars
    BY <2>0, <2>2 DEF StageTask, TasksDone, Idle, vars, cacheVars, taskVars, TaskTypes, CacheTypes
  <2>3. CASE Restart
    BY <2>0, <2>3 DEF Restart, cacheVars, TaskTypes, CacheTypes, PCs, Entries, Advanceable, Static, Dynamic
  <2> QED BY <2>1, <2>2, <2>3, ReadStepType, OtherStepType DEF Next, RenderStep
<1>2. ctl' \in Controllers
  BY ControllerStep
<1>3. program' = program
  BY DEF Next, ReadStep, OtherStep, RenderStep, BeginRead, ReadEntry, HandlerAnswers, UseDelayed,
         StartGeneration, StreamArrives, EndGeneration, BeginWait, EndWait, SyncIO, LazyInit, BeginIO,
         EndIO, StageTask, TasksDone, Restart, Idle, vars
<1>4. render' \in {"initial", "final"} /\ turn' \in 0 .. 6
  <2>0. render \in {"initial", "final"} /\ turn \in 0 .. 6
    BY DEF TypeOK
  <2>1. CASE StageTask \/ TasksDone \/ Restart
    <3>1. CASE StageTask
      <4>1. turn < 5 /\ turn' = turn + 1 /\ render' = render
        BY <3>1 DEF StageTask
      <4> QED BY <2>0, <4>1
    <3>2. CASE TasksDone \/ Restart
      <4>1. turn' \in {0, 6} /\ render' \in {render, "final"}
        BY <3>2 DEF TasksDone, Restart
      <4> QED BY <2>0, <4>1
    <3> QED BY <2>1, <3>1, <3>2
  <2>2. CASE UNCHANGED <<render, turn>>
    BY <2>0, <2>2
  <2> QED
    BY <2>1, <2>2
    DEF Next, ReadStep, OtherStep, RenderStep, BeginRead, ReadEntry, HandlerAnswers, UseDelayed,
        StartGeneration, StreamArrives, EndGeneration, BeginWait, EndWait, SyncIO, LazyInit, BeginIO,
        EndIO, Idle, vars
<1>5. initialized' \in BOOLEAN
  <2>0. initialized \in BOOLEAN
    BY DEF TypeOK
  <2>1. initialized' = TRUE \/ initialized' = initialized
    BY DEF Next, ReadStep, OtherStep, RenderStep, BeginRead, ReadEntry, HandlerAnswers, UseDelayed,
           StartGeneration, StreamArrives, EndGeneration, BeginWait, EndWait, SyncIO, LazyInit, BeginIO,
           EndIO, StageTask, TasksDone, Restart, Idle, vars
  <2> QED BY <2>0, <2>1
<1> QED BY <1>1, <1>2, <1>3, <1>4, <1>5 DEF TypeOK, TaskTypes, CacheTypes

-----------------------------------------------------------------------------
(* The shape of the tasks and of the generations.                          *)
LEMMA OtherTasks ==
  ASSUME TypeOK, NEW t \in Tasks, ReadStep(t) \/ OtherStep(t)
  PROVE  /\ UNCHANGED <<program, render>>
         /\ \A u \in Tasks \ {t} :
              at'[u] = at[u] /\ pc'[u] = pc[u] /\ until'[u] = until[u] /\ held'[u] = held[u]
<1>0. /\ at \in [Tasks -> Nat \ {0}] /\ pc \in [Tasks -> PCs] /\ until \in [Tasks -> Advanceable]
      /\ held \in [Tasks -> Entries \cup {"fresh", "stale"}]
  BY DEF TypeOK
<1> DEFINE Same == \A u \in Tasks \ {t} :
              at'[u] = at[u] /\ pc'[u] = pc[u] /\ until'[u] = until[u] /\ held'[u] = held[u]
<1>1. Proceed(t) => Same
  BY <1>0 DEF Proceed
<1>2. ASSUME NEW what, NEW entry, Await(t, what, entry) PROVE Same
  BY <1>0, <1>2 DEF Await
<1>3. ASSUME NEW s, NEW entry, AwaitStage(t, s, entry) PROVE Same
  BY <1>0, <1>3 DEF AwaitStage
<1>4. ASSUME NEW e, Generate(t, e) PROVE Same
  BY <1>1, <1>2, <1>4 DEF Generate
<1>5. ASSUME NEW e, UseHandlerEntry(t, e) PROVE Same
  BY <1>1, <1>4, <1>5 DEF UseHandlerEntry, Consume
<1>6. UNCHANGED <<program, render>>
  BY DEF ReadStep, OtherStep, BeginRead, ReadEntry, HandlerAnswers, UseDelayed, StartGeneration,
         StreamArrives, BeginWait, EndWait, SyncIO, LazyInit, BeginIO, EndIO
<1> HIDE DEF Same
<1>7. Same
  BY <1>1, <1>2, <1>3, <1>4, <1>5
  DEF ReadStep, OtherStep, BeginRead, ReadEntry, HandlerAnswers, UseDelayed, StartGeneration,
      StreamArrives, BeginWait, EndWait, SyncIO, LazyInit, BeginIO, EndIO, Consume
<1> QED BY <1>6, <1>7 DEF Same

LEMMA OwnShape ==
  ASSUME TypeOK, TaskShape, FillShape, NEW t \in Tasks, ReadStep(t) \/ OtherStep(t)
  PROVE  ShapeOf(t)'
<1>0. /\ at \in [Tasks -> Nat \ {0}] /\ pc \in [Tasks -> PCs] /\ until \in [Tasks -> Advanceable]
      /\ held \in [Tasks -> Entries \cup {"fresh", "stale"}] /\ UNCHANGED <<program, render>>
  BY OtherTasks DEF TypeOK
<1>1. Proceed(t) => ShapeOf(t)'
  BY <1>0 DEF Proceed, ShapeOf
<1>2. ASSUME NEW what, NEW entry, Await(t, what, entry)
      PROVE  pc'[t] = what /\ held'[t] = entry /\ at' = at /\ \A do : At(t, do)' = At(t, do)
  BY <1>0, <1>2 DEF Await, At, Op
<1>3. ASSUME NEW s, NEW entry, entry # "none", AwaitStage(t, s, entry), At(t, "read") PROVE ShapeOf(t)'
  BY <1>0, <1>3 DEF AwaitStage, At, Op, ShapeOf
<1>4. ASSUME NEW e \in {"none", "stale"}, Generate(t, e), At(t, "read") PROVE ShapeOf(t)'
  <2>1. CASE render = "initial"
    <3>1. Await(t, "timer", e)
      BY <1>4, <2>1 DEF Generate
    <3>2. pc'[t] = "timer" /\ held'[t] = e /\ At(t, "read")'
      BY <1>2, <1>4, <3>1
    <3> QED BY <1>0, <1>4, <2>1, <3>2 DEF ShapeOf
  <2>2. CASE render # "initial"
    <3>1. Proceed(t) \/ Await(t, "stream", e)
      BY <1>4, <2>2 DEF Generate
    <3>2. Await(t, "stream", e) => pc'[t] = "stream" /\ At(t, "read")'
      BY <1>2, <1>4
    <3> QED BY <1>1, <3>1, <3>2 DEF ShapeOf
  <2> QED BY <2>1, <2>2
<1>5. ASSUME NEW e \in {"fresh", "stale"}, UseHandlerEntry(t, e), At(t, "read") PROVE ShapeOf(t)'
  BY <1>1, <1>4, <1>5 DEF UseHandlerEntry, Consume
<1>6. CASE BeginRead(t)
  <2>1. At(t, "read") /\ Key(t) \in Keys
    BY <1>6, OpType DEF BeginRead
  <2>2. CASE rdc[Key(t)] # "none"
    <3>1. pc'[t] = "entry" /\ held'[t] = rdc[Key(t)] /\ At(t, "read")'
      BY <1>2, <1>6, <2>1, <2>2 DEF BeginRead
    <3>2. rdc[Key(t)] \in Entries
      BY <2>1 DEF TypeOK
    <3> QED BY <2>2, <3>1, <3>2 DEF ShapeOf
  <2>3. CASE rdc[Key(t)] = "none"
    <3>1. \E what \in {"got", "get"} : Await(t, what, "none")
      BY <1>6, <2>3 DEF BeginRead
    <3>2. pc'[t] \in {"got", "get"} /\ At(t, "read")'
      BY <1>2, <2>1, <3>1
    <3> QED BY <3>2 DEF ShapeOf
  <2> QED BY <2>2, <2>3
<1>7. CASE ReadEntry(t)
  <2>1. At(t, "read") /\ held[t] # "none"
    BY <1>7 DEF ReadEntry, TaskShape, ShapeOf
  <2> QED BY <1>1, <1>3, <1>7, <2>1 DEF ReadEntry, Consume
<1>8. CASE HandlerAnswers(t)
  <2>1. At(t, "read")
    BY <1>8 DEF HandlerAnswers, TaskShape, ShapeOf
  <2>2. handler[Key(t)] \in {"absent", "fresh", "stale"}
    BY <2>1, OpType DEF TypeOK
  <2> QED BY <1>3, <1>4, <1>5, <1>8, <2>1, <2>2 DEF HandlerAnswers
<1>9. CASE UseDelayed(t)
  BY <1>1, <1>5, <1>9 DEF UseDelayed, Consume
<1>10. CASE StartGeneration(t)
  <2>1. At(t, "read") /\ (Proceed(t) \/ Await(t, "stream", "none"))
    BY <1>10 DEF StartGeneration, TaskShape, ShapeOf
  <2>2. Await(t, "stream", "none") => pc'[t] = "stream" /\ At(t, "read")'
    BY <1>2, <2>1
  <2> QED BY <1>1, <2>1, <2>2 DEF ShapeOf
<1>11. CASE BeginWait(t)
  BY <1>0, <1>11 DEF BeginWait, AwaitStage, At, Op, ShapeOf
<1>12. CASE BeginIO(t)
  <2>1. pc'[t] = "io" /\ At(t, "io")'
    BY <1>2, <1>12 DEF BeginIO
  <2> QED BY <2>1 DEF ShapeOf
<1>13. CASE StreamArrives(t) \/ EndWait(t) \/ SyncIO(t) \/ LazyInit(t) \/ EndIO(t)
  BY <1>1, <1>13 DEF StreamArrives, EndWait, SyncIO, LazyInit, EndIO
<1> QED
  BY <1>6, <1>7, <1>8, <1>9, <1>10, <1>11, <1>12, <1>13 DEF ReadStep, OtherStep

\* A task that may fill its entry has begun a read that found nothing.
LEMMA MayFillStep ==
  ASSUME TypeOK, TaskShape, NEW t \in Tasks, ReadStep(t) \/ OtherStep(t), MayFill(t)'
  PROVE  At(t, "read") /\ Key(t)' = Key(t) /\ (MayFill(t) \/ rdc[Key(t)] = "none")
<1>0. /\ at \in [Tasks -> Nat \ {0}] /\ pc \in [Tasks -> PCs] /\ until \in [Tasks -> Advanceable]
      /\ held \in [Tasks -> Entries \cup {"fresh", "stale"}] /\ UNCHANGED program
  BY OtherTasks DEF TypeOK
<1>1. ~Proceed(t)
  BY <1>0 DEF Proceed, MayFill
<1>2. ASSUME NEW what, NEW entry, Await(t, what, entry)
      PROVE  /\ pc'[t] = what /\ \A do : At(t, do)' = At(t, do) /\ Key(t)' = Key(t)
  BY <1>0, <1>2 DEF Await, At, Op, Key
<1>3. ASSUME NEW s, NEW entry, AwaitStage(t, s, entry)
      PROVE  pc'[t] = "stage" /\ held'[t] = entry /\ \A do : At(t, do)' = At(t, do) /\ Key(t)' = Key(t)
  BY <1>0, <1>3 DEF AwaitStage, At, Op, Key
<1>4. ASSUME NEW e, Generate(t, e) PROVE pc'[t] \in {"timer", "stream"} /\ Key(t)' = Key(t)
  BY <1>1, <1>2, <1>4 DEF Generate
<1>5. ASSUME NEW e, UseHandlerEntry(t, e) PROVE pc'[t] \in {"timer", "stream"} /\ Key(t)' = Key(t)
  BY <1>1, <1>4, <1>5 DEF UseHandlerEntry, Consume
<1>6. CASE BeginRead(t)
  <2>1. At(t, "read")
    BY <1>6 DEF BeginRead
  <2>2. CASE rdc[Key(t)] # "none"
    BY <1>2, <1>6, <2>2 DEF BeginRead, MayFill
  <2>3. CASE rdc[Key(t)] = "none"
    BY <1>2, <1>6, <2>1, <2>3 DEF BeginRead
  <2> QED BY <2>2, <2>3
<1>7. CASE ReadEntry(t)
  <2>1. AwaitStage(t, IF Life[Key(t)] = "short" THEN GetRuntimeStage(ctl) ELSE Dynamic, held[t])
    BY <1>1, <1>7 DEF ReadEntry, Consume
  <2>2. held[t] \in Entries /\ held[t] \notin {"fresh", "stale"}
    BY <1>7, DevRenderAssumption DEF ReadEntry, TaskShape, ShapeOf, Entries
  <2> QED BY <1>3, <2>1, <2>2 DEF MayFill
<1>8. CASE HandlerAnswers(t)
  <2>1. At(t, "read") /\ MayFill(t)
    BY <1>8 DEF HandlerAnswers, TaskShape, ShapeOf, MayFill
  <2> QED BY <1>3, <1>4, <1>5, <1>8, <2>1 DEF HandlerAnswers
<1>9. CASE UseDelayed(t)
  <2>1. At(t, "read") /\ held[t] \in {"fresh", "stale"} /\ MayFill(t)
    BY <1>1, <1>9 DEF UseDelayed, Consume, MayFill
  <2> QED BY <1>5, <1>9, <2>1 DEF UseDelayed
<1>10. CASE StartGeneration(t)
  <2>1. Await(t, "stream", "none")
    BY <1>1, <1>10 DEF StartGeneration
  <2> QED BY <1>2, <2>1 DEF MayFill
<1>11. CASE BeginWait(t)
  <2>1. pc'[t] = "stage" /\ ~At(t, "read")'
    BY <1>3, <1>11 DEF BeginWait, At
  <2> QED BY <2>1 DEF MayFill
<1>12. CASE BeginIO(t)
  <2>1. pc'[t] = "io"
    BY <1>2, <1>12 DEF BeginIO
  <2> QED BY <2>1 DEF MayFill
<1>13. CASE StreamArrives(t) \/ EndWait(t) \/ SyncIO(t) \/ LazyInit(t) \/ EndIO(t)
  BY <1>1, <1>13 DEF StreamArrives, EndWait, SyncIO, LazyInit, EndIO
<1> QED
  BY <1>6, <1>7, <1>8, <1>9, <1>10, <1>11, <1>12, <1>13 DEF ReadStep, OtherStep

\* What a task does to the entries.
LEMMA FillStep ==
  ASSUME TypeOK, TaskShape, NEW t \in Tasks, ReadStep(t) \/ OtherStep(t)
  PROVE  /\ \A k \in Keys : rdc[k] # "none" => rdc'[k] # "none"
         /\ \/ filling' = filling
            \/ \E e \in BOOLEAN : Fill(t, e) /\ (e => StartGeneration(t) /\ held[t] = "none")
<1>0. rdc \in [Keys -> Entries] /\ t # "none"
  BY DevRenderAssumption DEF TypeOK
<1> DEFINE Kept == \A k \in Keys : rdc[k] # "none" => rdc'[k] # "none"
           Added == \/ filling' = filling
                    \/ \E e \in BOOLEAN : Fill(t, e) /\ (e => StartGeneration(t) /\ held[t] = "none")
<1>1. ASSUME NEW e, Generate(t, e) PROVE Added
  BY <1>1 DEF Generate
<1>2. ASSUME NEW e, UseHandlerEntry(t, e), e # "none" PROVE Kept /\ Added
  <2>1. Added
    BY <1>1, <1>2 DEF UseHandlerEntry
  <2>2. Kept
    BY <1>0, <1>2 DEF UseHandlerEntry, Consume
  <2> QED BY <2>1, <2>2
<1>3. CASE BeginRead(t) \/ StreamArrives(t) \/ OtherStep(t)
  BY <1>3 DEF BeginRead, StreamArrives, OtherStep, BeginWait, EndWait, SyncIO, LazyInit, BeginIO, EndIO,
              cacheVars
<1>4. CASE ReadEntry(t)
  <2>1. held[t] # "none" /\ filling' = filling
    BY <1>4 DEF ReadEntry, TaskShape, ShapeOf
  <2> QED BY <1>0, <1>4, <2>1 DEF ReadEntry, Consume
<1>5. CASE HandlerAnswers(t)
  <2>1. At(t, "read") /\ handler[Key(t)] # "none"
    <3>1. At(t, "read")
      BY <1>5 DEF HandlerAnswers, TaskShape, ShapeOf
    <3> QED BY <3>1, OpType DEF TypeOK
  <2> QED BY <1>1, <1>2, <1>5, <2>1 DEF HandlerAnswers
<1>6. CASE UseDelayed(t)
  <2>1. held[t] # "none"
    BY <1>6 DEF UseDelayed, TaskShape, ShapeOf
  <2> QED BY <1>0, <1>2, <1>6, <2>1 DEF UseDelayed, Consume
<1>7. CASE StartGeneration(t)
  BY <1>0, <1>7 DEF StartGeneration
<1> QED
  BY <1>3, <1>4, <1>5, <1>6, <1>7 DEF ReadStep

LEMMA TaskShapeStep ==
  ASSUME TypeOK, TaskShape, FillShape, [Next]_vars PROVE TaskShape'
<1>1. ASSUME NEW t \in Tasks, ReadStep(t) \/ OtherStep(t) PROVE TaskShape'
  <2>1. ShapeOf(t)'
    BY <1>1, OwnShape
  <2>2. ASSUME NEW u \in Tasks \ {t} PROVE ShapeOf(u)'
    BY <1>1, OtherTasks DEF ShapeOf, TaskShape, At, Op
  <2> QED BY <2>1, <2>2 DEF TaskShape
<1>2. CASE Restart
  <2>1. \A t \in Tasks : pc'[t] = "ready"
    BY <1>2 DEF Restart
  <2> QED BY <2>1 DEF TaskShape, ShapeOf
<1>3. CASE UNCHANGED <<program, render, taskVars>>
  BY <1>3 DEF TaskShape, ShapeOf, At, Op, taskVars
<1> QED
  BY <1>1, <1>2, <1>3 DEF Next, RenderStep, EndGeneration, StageTask, TasksDone, Idle, vars

LEMMA FillShapeStep ==
  ASSUME TypeOK, TaskShape, FillShape, CountsAgree, [Next]_vars PROVE FillShape'
<1>0. /\ filling \subseteq [key : Keys, by : Tasks, endsRead : BOOLEAN] /\ IsFiniteSet(filling)
      /\ rdc \in [Keys -> Entries]
  BY DEF TypeOK, FillShape
<1>1. ASSUME NEW t \in Tasks, ReadStep(t) \/ OtherStep(t) PROVE FillShape'
  <2>1. \/ filling' = filling
        \/ \E e \in BOOLEAN : Fill(t, e) /\ (e => StartGeneration(t) /\ held[t] = "none")
    BY <1>1, FillStep
  <2>2. IsFiniteSet(filling')
    <3>1. CASE filling' = filling
      BY <1>0, <3>1
    <3>2. CASE \E e \in BOOLEAN : Fill(t, e)
      <4>1. PICK f : filling' = filling \cup {f}
        BY <3>2 DEF Fill
      <4> QED BY <1>0, <4>1, FS_AddElement
    <3> QED BY <2>1, <3>1, <3>2
  <2>3. ASSUME NEW f \in filling, f.endsRead
        PROVE  /\ render' = "initial" /\ rdc'[f.key] # "none"
               /\ MayFill(f.by)' => Key(f.by)' # f.key
    <3>1. render' = render /\ rdc'[f.key] # "none" /\ render = "initial"
      BY <1>0, <1>1, <2>3, FillStep, OtherTasks DEF FillShape
    <3>2. CASE f.by # t
      <4>1. MayFill(f.by)' => MayFill(f.by) /\ Key(f.by)' = Key(f.by)
        BY <1>0, <1>1, <3>2, OtherTasks DEF MayFill, Key, At, Op
      <4> QED BY <2>3, <3>1, <4>1 DEF FillShape
    <3>3. CASE f.by = t
      <4>1. MayFill(t)' => Key(t)' = Key(t) /\ (MayFill(t) \/ rdc[Key(t)] = "none")
        BY <1>1, MayFillStep
      <4> QED BY <2>3, <3>1, <3>3, <4>1 DEF FillShape
    <3> QED BY <3>1, <3>2, <3>3
  <2>4. ASSUME StartGeneration(t), held[t] = "none",
               NEW f, f = [key |-> Key(t), by |-> t, endsRead |-> TRUE]
        PROVE  /\ render' = "initial" /\ rdc'[f.key] # "none"
               /\ MayFill(f.by)' => Key(f.by)' # f.key
    <3>1. f.by = t /\ f.key = Key(t)
      BY <2>4
    <3>2. At(t, "read") /\ render = "initial"
      BY <2>4 DEF StartGeneration, TaskShape, ShapeOf
    <3>3. rdc'[Key(t)] = t /\ render' = render
      BY <1>0, <2>4, <3>2, OpType DEF StartGeneration
    <3>4. pc'[t] = "stream"
      BY <2>4 DEF StartGeneration, Await, TypeOK
    <3>5. ~MayFill(t)'
      BY <3>4 DEF MayFill
    <3> QED BY <3>1, <3>2, <3>3, <3>5, DevRenderAssumption
  <2>5. ASSUME NEW f \in filling', f.endsRead
        PROVE  /\ render' = "initial" /\ rdc'[f.key] # "none"
               /\ MayFill(f.by)' => Key(f.by)' # f.key
    <3>1. CASE f \in filling
      BY <2>3, <2>5, <3>1
    <3>2. CASE f \notin filling
      <4>1. PICK e \in BOOLEAN : Fill(t, e) /\ (e => StartGeneration(t) /\ held[t] = "none")
        BY <2>1, <2>5, <3>2
      <4>2. f = [key |-> Key(t), by |-> t, endsRead |-> e]
        BY <2>5, <3>2, <4>1 DEF Fill
      <4>3. e = TRUE
        BY <2>5, <4>2
      <4> QED BY <2>4, <4>1, <4>2, <4>3
    <3> QED BY <3>1, <3>2
  <2> QED BY <2>2, <2>5 DEF FillShape
<1>2. ASSUME NEW f \in filling, EndGeneration(f) PROVE FillShape'
  <2>1. filling' = filling \ {f} /\ UNCHANGED <<render, rdc, program, at, pc, held>>
    BY <1>2 DEF EndGeneration, taskVars
  <2>2. IsFiniteSet(filling')
    BY <1>0, <2>1, FS_Subset
  <2> QED BY <2>1, <2>2 DEF FillShape, MayFill, Key, At, Op
<1>3. CASE Restart
  <2>1. IsFiniteSet({g \in filling : g.endsRead}) /\ IsFiniteSet({t \in Tasks : ReadOpen(t)})
    BY <1>0, DevRenderAssumption, FS_Subset
  <2>2. /\ Cardinality({g \in filling : g.endsRead}) \in Nat
        /\ Cardinality({t \in Tasks : ReadOpen(t)}) \in Nat
    BY <2>1, FS_CardinalityType
  <2>3. Cardinality({g \in filling : g.endsRead}) = 0
    BY <1>3, <2>2 DEF Restart, CountsAgree
  <2>4. {g \in filling : g.endsRead} = {}
    BY <2>1, <2>3, FS_EmptySet
  <2> QED BY <1>0, <1>3, <2>4 DEF Restart, cacheVars, FillShape
<1>4. CASE UNCHANGED <<program, render, cacheVars, taskVars>>
  BY <1>4 DEF FillShape, cacheVars, taskVars, MayFill, Key, At, Op
<1> QED
  BY <1>1, <1>2, <1>3, <1>4 DEF Next, RenderStep, StageTask, TasksDone, Idle, vars

-----------------------------------------------------------------------------
(* The count of the signal.                                                *)
OpenTasks == {t \in Tasks : ReadOpen(t)}
OpenFills == {f \in filling : f.endsRead}

LEMMA OpenFinite ==
  ASSUME FillShape
  PROVE  /\ IsFiniteSet(OpenTasks) /\ Cardinality(OpenTasks) \in Nat
         /\ IsFiniteSet(OpenFills) /\ Cardinality(OpenFills) \in Nat
<1>1. IsFiniteSet(OpenTasks) /\ IsFiniteSet(OpenFills)
  BY DevRenderAssumption, FS_Subset DEF OpenTasks, OpenFills, FillShape
<1> QED BY <1>1, FS_CardinalityType

LEMMA OpenFiniteNext ==
  ASSUME FillShape'
  PROVE  Cardinality(OpenTasks)' \in Nat /\ Cardinality(OpenFills)' \in Nat
<1>1. IsFiniteSet(OpenTasks') /\ IsFiniteSet(OpenFills')
  BY DevRenderAssumption, FS_Subset DEF OpenTasks, OpenFills, FillShape
<1> QED BY <1>1, FS_CardinalityType

\* What a task does to the reads that are open.
LEMMA ReadEffect ==
  ASSUME TypeOK, TaskShape, FillShape, NEW t \in Tasks, ReadStep(t) \/ OtherStep(t),
         render = "initial"
  PROVE  \/ (ReadOpen(t)' <=> ReadOpen(t)) /\ OpenFills' = OpenFills /\ count' = count
         \/ ~ReadOpen(t) /\ ReadOpen(t)' /\ OpenFills' = OpenFills /\ count' = count + 1
         \/ ReadOpen(t) /\ ~ReadOpen(t)' /\ OpenFills' = OpenFills /\ count' = count - 1
         \/ /\ ReadOpen(t) /\ ~ReadOpen(t)' /\ count' = count
            /\ \E f : f \notin OpenFills /\ OpenFills' = OpenFills \cup {f}
<1>0. /\ at \in [Tasks -> Nat \ {0}] /\ pc \in [Tasks -> PCs] /\ until \in [Tasks -> Advanceable]
      /\ held \in [Tasks -> Entries \cup {"fresh", "stale"}] /\ UNCHANGED program
      /\ Reads = 1
  BY OtherTasks DEF TypeOK, Reads
<1>1. Proceed(t) => ~ReadOpen(t)'
  BY <1>0 DEF Proceed, ReadOpen
<1>2. ASSUME NEW what, NEW entry, Await(t, what, entry), At(t, "read")
      PROVE  ReadOpen(t)' <=> what \in {"entry", "got", "get", "timer", "stage"}
  <2>1. pc'[t] = what /\ At(t, "read")'
    BY <1>0, <1>2 DEF Await, At, Op
  <2> QED BY <2>1 DEF ReadOpen
<1>3. ASSUME NEW s, NEW entry, AwaitStage(t, s, entry)
      PROVE  ReadOpen(t)' <=> At(t, "read")
  <2>1. pc'[t] = "stage" /\ (At(t, "read")' <=> At(t, "read"))
    BY <1>0, <1>3 DEF AwaitStage, At, Op
  <2> QED BY <2>1 DEF ReadOpen
<1>4. ASSUME NEW e, Consume(t, e) PROVE ~ReadOpen(t)' /\ count' = count - 1
  BY <1>0, <1>1, <1>4 DEF Consume
<1>5. ASSUME NEW e, Generate(t, e), At(t, "read")
      PROVE  ReadOpen(t)' /\ count' = count /\ filling' = filling
  BY <1>2, <1>5 DEF Generate
<1>6. ASSUME NEW e, UseHandlerEntry(t, e), At(t, "read")
      PROVE  /\ filling' = filling
             /\ \/ ReadOpen(t)' /\ count' = count
                \/ ~ReadOpen(t)' /\ count' = count - 1
  BY <1>4, <1>5, <1>6 DEF UseHandlerEntry
<1>7. filling' = filling => OpenFills' = OpenFills
  BY DEF OpenFills
<1>8. CASE BeginRead(t)
  <2>1. ~ReadOpen(t) /\ count' = count + 1 /\ filling' = filling /\ At(t, "read")
    BY <1>0, <1>8 DEF BeginRead, ReadOpen
  <2>2. \E what \in {"entry", "got", "get"} : \E entry : Await(t, what, entry)
    BY <1>8 DEF BeginRead
  <2> QED BY <1>2, <1>7, <2>1, <2>2
<1>9. CASE ReadEntry(t)
  <2>1. ReadOpen(t) /\ At(t, "read") /\ filling' = filling
    BY <1>9 DEF ReadEntry, TaskShape, ShapeOf, ReadOpen
  <2> QED BY <1>3, <1>4, <1>7, <1>9, <2>1 DEF ReadEntry
<1>10. CASE HandlerAnswers(t)
  <2>1. ReadOpen(t) /\ At(t, "read")
    BY <1>10 DEF HandlerAnswers, TaskShape, ShapeOf, ReadOpen
  <2> QED BY <1>3, <1>5, <1>6, <1>7, <1>10, <2>1 DEF HandlerAnswers
<1>11. CASE UseDelayed(t)
  <2>1. ReadOpen(t) /\ At(t, "read")
    BY <1>11 DEF UseDelayed, ReadOpen
  <2> QED BY <1>4, <1>6, <1>7, <1>11, <2>1 DEF UseDelayed
<1>12. CASE StartGeneration(t)
  <2>1. ReadOpen(t) /\ At(t, "read") /\ MayFill(t)
    BY <1>12 DEF StartGeneration, TaskShape, ShapeOf, ReadOpen, MayFill
  <2>2. CASE held[t] = "none"
    <3> DEFINE f == [key |-> Key(t), by |-> t, endsRead |-> TRUE]
    <3>1. filling' = filling \cup {f} /\ Await(t, "stream", "none") /\ count' = count
      BY <1>12, <2>2 DEF StartGeneration, Fill
    <3>2. f \notin OpenFills
      BY <2>1 DEF OpenFills, FillShape
    <3>3. OpenFills' = OpenFills \cup {f}
      BY <3>1 DEF OpenFills
    <3>4. ~ReadOpen(t)'
      BY <1>2, <2>1, <3>1
    <3> QED BY <2>1, <3>1, <3>2, <3>3, <3>4
  <2>3. CASE held[t] # "none"
    <3>1. Proceed(t) /\ count' = count - 1 /\ filling' = filling \cup {[key |-> Key(t), by |-> t, endsRead |-> FALSE]}
      BY <1>0, <1>12, <2>3 DEF StartGeneration, Fill
    <3>2. OpenFills' = OpenFills
      BY <3>1 DEF OpenFills
    <3> QED BY <1>1, <2>1, <3>1, <3>2
  <2> QED BY <2>2, <2>3
<1>13. CASE StreamArrives(t) \/ EndWait(t) \/ SyncIO(t) \/ LazyInit(t) \/ EndIO(t)
  <2>1. ~ReadOpen(t)
    BY <1>13 DEF StreamArrives, EndWait, SyncIO, LazyInit, EndIO, ReadOpen, At, Runnable,
                 TaskShape, ShapeOf
  <2>2. Proceed(t) /\ UNCHANGED <<filling, count>>
    BY <1>13 DEF StreamArrives, EndWait, SyncIO, LazyInit, EndIO, cacheVars
  <2> QED BY <1>1, <1>7, <2>1, <2>2
<1>14. CASE BeginWait(t)
  <2>1. ~At(t, "read") /\ ~ReadOpen(t) /\ UNCHANGED <<filling, count>>
    BY <1>14 DEF BeginWait, At, ReadOpen, cacheVars
  <2> QED BY <1>3, <1>7, <1>14, <2>1 DEF BeginWait
<1>15. CASE BeginIO(t)
  <2>1. pc'[t] = "io" /\ ~ReadOpen(t) /\ UNCHANGED <<filling, count>>
    BY <1>0, <1>15 DEF BeginIO, Await, ReadOpen, cacheVars
  <2>2. ~ReadOpen(t)'
    BY <2>1 DEF ReadOpen
  <2> QED BY <1>7, <2>1, <2>2
<1> QED
  BY <1>8, <1>9, <1>10, <1>11, <1>12, <1>13, <1>14, <1>15 DEF ReadStep, OtherStep

LEMMA CountStep ==
  ASSUME TypeOK, TaskShape, FillShape, CountsAgree, [Next]_vars
  PROVE  CountsAgree' /\ count' \in Nat
<1> DEFINE Sum == IF render = "final" THEN 0 ELSE Cardinality(OpenTasks) + Cardinality(OpenFills)
<1>0. count = Sum /\ FillShape'
  BY FillShapeStep DEF CountsAgree, OpenTasks, OpenFills
<1> SUFFICES count' = Sum'
  <2>1. Sum' \in Nat
    BY <1>0, OpenFiniteNext
  <2> QED BY <2>1 DEF CountsAgree, OpenTasks, OpenFills
<1>1. ASSUME NEW t \in Tasks, ReadStep(t) \/ OtherStep(t) PROVE count' = Sum'
  <2>1. render' = render /\ \A u \in Tasks \ {t} : ReadOpen(u)' <=> ReadOpen(u)
    BY <1>1, OtherTasks DEF ReadOpen, At, Op
  <2>2. CASE render = "final"
    <3>1. \A f \in filling' : ~f.endsRead
      BY <1>0, <2>1, <2>2 DEF FillShape
    <3>2. count' = count
      <4>1. Reads = 0 /\ count \in Nat
        BY <2>2 DEF Reads, TypeOK
      <4>2. ASSUME NEW e, Consume(t, e) \/ Generate(t, e) \/ UseHandlerEntry(t, e) PROVE count' = count
        <5>1. \A x : Consume(t, x) => count' = count
          BY <4>1 DEF Consume
        <5>2. \A x : Generate(t, x) => count' = count
          BY DEF Generate
        <5> QED BY <4>2, <5>1, <5>2 DEF UseHandlerEntry
      <4>3. CASE BeginRead(t) \/ ReadEntry(t) \/ HandlerAnswers(t) \/ UseDelayed(t)
        BY <4>1, <4>2, <4>3 DEF BeginRead, ReadEntry, HandlerAnswers, UseDelayed
      <4>4. CASE StartGeneration(t) \/ StreamArrives(t) \/ OtherStep(t)
        BY <4>1, <4>4 DEF StartGeneration, StreamArrives, OtherStep, BeginWait, EndWait, SyncIO,
                          LazyInit, BeginIO, EndIO, cacheVars
      <4> QED BY <1>1, <4>3, <4>4 DEF ReadStep
    <3> QED BY <1>0, <2>1, <2>2, <3>2
  <2>3. CASE render = "initial"
    <3>0. /\ IsFiniteSet(OpenTasks) /\ Cardinality(OpenTasks) \in Nat
          /\ IsFiniteSet(OpenFills) /\ Cardinality(OpenFills) \in Nat
      BY OpenFinite
    <3>1. CASE (ReadOpen(t)' <=> ReadOpen(t)) /\ OpenFills' = OpenFills /\ count' = count
      <4>1. OpenTasks' = OpenTasks
        BY <2>1, <3>1 DEF OpenTasks
      <4> QED BY <1>0, <2>1, <3>1, <4>1
    <3>2. CASE ~ReadOpen(t) /\ ReadOpen(t)' /\ OpenFills' = OpenFills /\ count' = count + 1
      <4>1. OpenTasks' = OpenTasks \cup {t} /\ t \notin OpenTasks
        BY <2>1, <3>2 DEF OpenTasks
      <4>2. Cardinality(OpenTasks') = Cardinality(OpenTasks) + 1
        BY <3>0, <4>1, FS_AddElement
      <4> QED BY <1>0, <2>1, <2>3, <3>0, <3>2, <4>2
    <3>3. CASE ReadOpen(t) /\ ~ReadOpen(t)' /\ OpenFills' = OpenFills /\ count' = count - 1
      <4>1. OpenTasks' = OpenTasks \ {t} /\ t \in OpenTasks
        BY <2>1, <3>3 DEF OpenTasks
      <4>2. Cardinality(OpenTasks') = Cardinality(OpenTasks) - 1
        BY <3>0, <4>1, FS_RemoveElement
      <4> QED BY <1>0, <2>1, <2>3, <3>0, <3>3, <4>2
    <3>4. CASE /\ ReadOpen(t) /\ ~ReadOpen(t)' /\ count' = count
               /\ \E f : f \notin OpenFills /\ OpenFills' = OpenFills \cup {f}
      <4>1. OpenTasks' = OpenTasks \ {t} /\ t \in OpenTasks
        BY <2>1, <3>4 DEF OpenTasks
      <4>2. Cardinality(OpenTasks') = Cardinality(OpenTasks) - 1
        BY <3>0, <4>1, FS_RemoveElement
      <4>3. Cardinality(OpenFills') = Cardinality(OpenFills) + 1
        BY <3>0, <3>4, FS_AddElement
      <4> QED BY <1>0, <2>1, <2>3, <3>0, <3>4, <4>2, <4>3
    <3> QED BY <1>1, <2>3, <3>1, <3>2, <3>3, <3>4, ReadEffect
  <2> QED BY <2>2, <2>3 DEF TypeOK
<1>2. ASSUME NEW f \in filling, EndGeneration(f) PROVE count' = Sum'
  <2>1. /\ filling' = filling \ {f} /\ UNCHANGED <<render, program, at, pc>>
        /\ count' = IF f.endsRead THEN count - 1 ELSE count
    BY <1>2 DEF EndGeneration, taskVars
  <2>2. OpenTasks' = OpenTasks
    BY <2>1 DEF OpenTasks, ReadOpen, At, Op
  <2>3. CASE f.endsRead
    <3>1. OpenFills' = OpenFills \ {f} /\ f \in OpenFills
      BY <2>1, <2>3 DEF OpenFills
    <3>2. Cardinality(OpenFills') = Cardinality(OpenFills) - 1
      BY <3>1, OpenFinite, FS_RemoveElement
    <3>3. render # "final"
      BY <1>2, <2>3 DEF FillShape
    <3> QED BY <1>0, <2>1, <2>2, <2>3, <3>2, <3>3, OpenFinite
  <2>4. CASE ~f.endsRead
    <3>1. OpenFills' = OpenFills
      BY <2>1, <2>4 DEF OpenFills
    <3> QED BY <1>0, <2>1, <2>2, <2>4, <3>1
  <2> QED BY <2>3, <2>4
<1>3. CASE Restart
  BY <1>3 DEF Restart, cacheVars
<1>4. CASE UNCHANGED <<program, render, cacheVars, taskVars>>
  <2>1. OpenTasks' = OpenTasks /\ OpenFills' = OpenFills
    BY <1>4 DEF OpenTasks, OpenFills, ReadOpen, At, Op, cacheVars, taskVars
  <2> QED BY <1>0, <1>4, <2>1 DEF cacheVars
<1> HIDE DEF Sum
<1> QED
  BY <1>1, <1>2, <1>3, <1>4 DEF Next, RenderStep, StageTask, TasksDone, Idle, vars

-----------------------------------------------------------------------------
(* What a task has waited for.                                             *)
LEMMA PastStep ==
  ASSUME TypeOK, TaskShape, NEW t \in Tasks, ReadStep(t) \/ OtherStep(t)
  PROVE  \/ at'[t] = at[t]
         \/ /\ at'[t] = at[t] + 1 /\ at[t] <= Len(program[t])
            /\ Op(t).do = "wait" => Op(t).stage \in ctl.open
<1>0. at \in [Tasks -> Nat \ {0}]
  BY DEF TypeOK
<1>1. Proceed(t) => at'[t] = at[t] + 1
  BY <1>0 DEF Proceed
<1>2. ASSUME NEW s, NEW entry, Await(t, s, entry) \/ AwaitStage(t, s, entry) PROVE at'[t] = at[t]
  BY <1>2 DEF Await, AwaitStage
<1>3. ASSUME NEW e, Generate(t, e) \/ UseHandlerEntry(t, e) PROVE at'[t] \in {at[t], at[t] + 1}
  BY <1>1, <1>2, <1>3 DEF Generate, UseHandlerEntry, Consume
<1>4. CASE ReadStep(t)
  <2>1. At(t, "read")
    BY <1>4 DEF ReadStep, BeginRead, ReadEntry, HandlerAnswers, UseDelayed, StartGeneration, StreamArrives,
                TaskShape, ShapeOf
  <2>2. at'[t] \in {at[t], at[t] + 1}
    BY <1>1, <1>2, <1>3, <1>4
    DEF ReadStep, BeginRead, ReadEntry, HandlerAnswers, UseDelayed, StartGeneration, StreamArrives, Consume
  <2> QED BY <2>1, <2>2 DEF At
<1>5. CASE BeginWait(t) \/ BeginIO(t)
  BY <1>2, <1>5 DEF BeginWait, BeginIO
<1>6. CASE EndWait(t)
  <2>1. Op(t).stage \in ctl.open /\ at[t] <= Len(program[t])
    BY <1>6 DEF EndWait, Runnable, TaskShape, ShapeOf, At
  <2> QED BY <1>1, <1>6, <2>1 DEF EndWait
<1>7. CASE SyncIO(t) \/ LazyInit(t) \/ EndIO(t)
  BY <1>1, <1>7 DEF SyncIO, LazyInit, EndIO, At, TaskShape, ShapeOf
<1> QED BY <1>4, <1>5, <1>6, <1>7 DEF OtherStep

LEMMA WaitedStep ==
  ASSUME TypeOK, TaskShape, Safe(ctl), Waited, [Next]_vars PROVE Waited'
<1>0. \A t \in Tasks : at[t] \in Nat \ {0} /\ Len(program[t]) \in Nat
  BY DEF TypeOK
<1>1. ASSUME NEW t \in Tasks, ReadStep(t) \/ OtherStep(t) PROVE Waited'
  <2>1. ctl.open \subseteq ctl'.open
    <3>1. ~Restart
      BY <1>1, OtherTasks DEF Restart
    <3> QED BY <3>1, ControllerStep
  <2>2. program' = program /\ \A u \in Tasks \ {t} : at'[u] = at[u]
    BY <1>1, OtherTasks
  <2>3. ASSUME NEW i \in 1 .. at'[t] - 1
        PROVE  i <= Len(program[t]) /\ (program[t][i].do = "wait" => program[t][i].stage \in ctl.open)
    <3>1. CASE i \in 1 .. at[t] - 1
      BY <3>1 DEF Waited
    <3>2. CASE i \notin 1 .. at[t] - 1
      <4>1. at'[t] = at[t] + 1 /\ i = at[t]
        BY <1>0, <1>1, <2>3, <3>2, PastStep
      <4> QED BY <1>1, <4>1, <1>0, PastStep DEF Op
    <3> QED BY <3>1, <3>2
  <2>4. ASSUME NEW u \in Tasks, NEW i \in 1 .. at'[u] - 1
        PROVE  i <= Len(program'[u]) /\ (program'[u][i].do = "wait" => program'[u][i].stage \in ctl'.open)
    <3>1. CASE u = t
      BY <2>1, <2>2, <2>3, <2>4, <3>1
    <3>2. CASE u # t
      BY <2>1, <2>2, <2>4, <3>2 DEF Waited
    <3> QED BY <3>1, <3>2
  <2> QED BY <2>4 DEF Waited
<1>2. CASE Restart
  BY <1>2 DEF Restart, Waited
<1>3. CASE UNCHANGED <<program, at, ctl>>
  BY <1>3 DEF Waited
<1>4. CASE StageTask
  <2>1. UNCHANGED <<program, at>> /\ render' = render
    BY <1>4 DEF StageTask, taskVars
  <2>2. ctl.open \subseteq ctl'.open
    BY <2>1, ControllerStep DEF Restart
  <2> QED BY <2>1, <2>2 DEF Waited
<1> QED
  BY <1>1, <1>2, <1>3, <1>4 DEF Next, RenderStep, EndGeneration, TasksDone, Idle, vars, taskVars

-----------------------------------------------------------------------------
(* The theorems.                                                           *)
LEMMA InitIInv == Init => IInv
<1> SUFFICES ASSUME Init PROVE IInv
  OBVIOUS
<1> USE DEF Init, Start
<1>1. ctl = Controller(TRUE, TRUE)
  OBVIOUS
<1>2. ctl \in Controllers /\ Safe(ctl)
  BY <1>1 DEF Controller, Controllers, Safe, Stages, Advanceable, Before, Abandoned, Static, Dynamic
<1>3. program \in [Tasks -> Seq(Ops)] /\ handler \in [Keys -> {"absent", "fresh", "stale"}]
  BY DevRenderAssumption
<1>4. TypeOK
  <2>1. /\ render = "initial" /\ turn = 0 /\ count = 0 /\ initialized = FALSE /\ filling = {}
        /\ 0 \in 0 .. 6 /\ 0 \in Nat
    OBVIOUS
  <2>3. rdc \in [Keys -> Entries]
    BY DEF Entries
  <2>2. /\ at \in [Tasks -> Nat \ {0}] /\ pc \in [Tasks -> PCs] /\ until \in [Tasks -> Advanceable]
        /\ held \in [Tasks -> Entries \cup {"fresh", "stale"}]
    BY DEF Entries, PCs, Advanceable, Static, Dynamic
  <2> QED BY <1>2, <1>3, <2>1, <2>2, <2>3 DEF TypeOK
<1>5. TaskShape
  BY DEF TaskShape, ShapeOf
<1>6. FillShape
  BY FS_EmptySet DEF FillShape
<1>7. {t \in Tasks : ReadOpen(t)} = {} /\ {f \in filling : f.endsRead} = {}
  BY DEF ReadOpen
<1>8. CountsAgree
  BY <1>7, FS_EmptySet DEF CountsAgree
<1>9. Waited
  BY DEF Waited
<1> QED BY <1>2, <1>4, <1>5, <1>6, <1>8, <1>9 DEF IInv

LEMMA NextIInv == IInv /\ [Next]_vars => IInv'
<1> SUFFICES ASSUME IInv, [Next]_vars PROVE IInv'
  OBVIOUS
<1> USE DEF IInv
<1>1. CountsAgree' /\ count' \in Nat
  BY CountStep
<1>2. TypeOK' /\ Safe(ctl)'
  BY <1>1, TypeStep, ControllerStep
<1>3. TaskShape' /\ FillShape' /\ Waited'
  BY TaskShapeStep, FillShapeStep, WaitedStep
<1> QED BY <1>1, <1>2, <1>3

LEMMA Invariance == Spec => []IInv
BY InitIInv, NextIInv, PTL DEF Spec

\* Types; and the count of CacheSignal never falls below 0, so endRead never throws.
THEOREM TypeCorrect == Spec => []TypeOK
<1>1. IInv => TypeOK
  BY DEF IInv
<1> QED BY <1>1, Invariance, PTL

\* use-cache-wrapper: on each of its ways to an entry, a read that is begun is ended
\* once, by the task or by the generation it has started.
THEOREM ReadsAreEnded == Spec => []CountsAgree
<1>1. IInv => CountsAgree
  BY DEF IInv
<1> QED BY <1>1, Invariance, PTL

-----------------------------------------------------------------------------
(* The stages of a prerender.                                              *)
LEMMA SmallestElement ==
  ASSUME NEW T, T \subseteq Nat, T # {}
  PROVE  \E x \in T : \A y \in T : x <= y
<1>1. PICK x \in T : \A y \in T : ~(<<y, x>> \in OpToRel(<, Nat))
  BY WFMin, NatLessThanWellFounded
<1>2. \A y \in T : ~(y < x)
  BY <1>1 DEF OpToRel
<1> QED BY <1>2

\* The stage after an operation that is reached in stage s.
StageAfter(s, op) ==
  CASE op.do = "wait" -> IF op.stage > s THEN op.stage ELSE s
    [] op.do = "io" -> Dynamic
    [] op.do = "read" /\ Life[op.key] = "short" ->
         IF s \in {EarlyStatic, EarlyRuntime} THEN EarlyRuntime
         ELSE IF s = Static THEN Runtime ELSE s
    [] op.do = "read" /\ Life[op.key] = "shortStale" -> Dynamic
    [] OTHER -> s

LEMMA StageAfterFacts ==
  ASSUME NEW s \in EarlyStatic .. Dynamic, NEW op \in Ops
  PROVE  /\ StageAfter(s, op) \in s .. Dynamic
         /\ op.do = "wait" => StageAfter(s, op) = IF op.stage > s THEN op.stage ELSE s
         /\ op.do = "io" => StageAfter(s, op) = Dynamic
         /\ op.do \in {"syncIO", "lazyInit"} => StageAfter(s, op) = s
         /\ op.do = "read" =>
              StageAfter(s, op) = CASE Life[op.key] = "long" -> s
                                    [] Life[op.key] = "short" -> (IF s \in {EarlyStatic, EarlyRuntime} THEN EarlyRuntime
                                                                 ELSE IF s = Static THEN Runtime ELSE s)
                                    [] OTHER -> Dynamic
<1> USE DEF EarlyStatic, Static, EarlyRuntime, Runtime, Dynamic
<1>1. op.do \in {"read", "wait", "syncIO", "lazyInit", "io"}
  BY DEF Ops
<1>2. op.do = "read" => Life[op.key] \in {"long", "short", "shortStale"}
  BY DevRenderAssumption DEF Ops
<1>3. op.do = "wait" => op.stage \in 3 .. 6
  BY DEF Ops, Advanceable
<1>4. CASE op.do = "wait"
  BY <1>3, <1>4 DEF StageAfter
<1>5. CASE op.do = "io"
  BY <1>5 DEF StageAfter
<1>6. CASE op.do \in {"syncIO", "lazyInit"}
  BY <1>6 DEF StageAfter
<1>7. CASE op.do = "read"
  BY <1>2, <1>7 DEF StageAfter
<1> QED BY <1>1, <1>4, <1>5, <1>6, <1>7

LEMMA IdealExists ==
  ASSUME NEW ops, NEW N \in Nat
  PROVE  \E f : f = [i \in 0 .. N |-> IF i = 0 THEN EarlyStatic ELSE StageAfter(f[i - 1], ops[i])]
<1> DEFINE Ideal(f, n) == f = [i \in 0 .. n |-> IF i = 0 THEN EarlyStatic ELSE StageAfter(f[i - 1], ops[i])]
           Bad == {n \in Nat : ~ \E f : Ideal(f, n)}
<1> SUFFICES Bad = {}
  OBVIOUS
<1> SUFFICES ASSUME Bad # {} PROVE FALSE
  OBVIOUS
<1>1. PICK n \in Bad : \A m \in Bad : n <= m
  BY SmallestElement
<1>2. n # 0
  <2>1. Ideal([i \in 0 .. 0 |-> EarlyStatic], 0)
    OBVIOUS
  <2> QED BY <2>1, <1>1
<1>3. n - 1 \in Nat /\ n - 1 \notin Bad
  BY <1>1, <1>2
<1>4. PICK f : Ideal(f, n - 1)
  BY <1>3
<1> DEFINE g == [i \in 0 .. n |-> IF i = n THEN StageAfter(f[n - 1], ops[n]) ELSE f[i]]
<1>5. Ideal(g, n)
  <2>1. \A i \in 0 .. n : g[i] = IF i = 0 THEN EarlyStatic ELSE StageAfter(g[i - 1], ops[i])
    <3> TAKE i \in 0 .. n
    <3>1. CASE i = n
      BY <3>1, <1>2, <1>3
    <3>2. CASE i # n
      <4>1. i \in 0 .. (n - 1) /\ g[i] = f[i]
        BY <3>2
      <4>2. f[i] = IF i = 0 THEN EarlyStatic ELSE StageAfter(f[i - 1], ops[i])
        BY <4>1, <1>4
      <4>3. i # 0 => g[i - 1] = f[i - 1]
        BY <3>2, <4>1
      <4> QED BY <4>1, <4>2, <4>3
    <3> QED BY <3>1, <3>2
  <2> QED BY <2>1
<1> QED BY <1>5, <1>1

\* The definition of IdealStage as equations.
LEMMA IdealStageDef ==
  ASSUME NEW ops
  PROVE  Len(ops) \in Nat =>
    /\ IdealStage(ops)[0] = EarlyStatic
    /\ \A i \in 1 .. Len(ops) : IdealStage(ops)[i] = StageAfter(IdealStage(ops)[i - 1], ops[i])
<1> SUFFICES ASSUME Len(ops) \in Nat
    PROVE /\ IdealStage(ops)[0] = EarlyStatic
          /\ \A i \in 1 .. Len(ops) : IdealStage(ops)[i] = StageAfter(IdealStage(ops)[i - 1], ops[i])
  OBVIOUS
<1> DEFINE Ideal(f) == f = [i \in 0 .. Len(ops) |-> IF i = 0 THEN EarlyStatic ELSE StageAfter(f[i - 1], ops[i])]
           ideal == CHOOSE f : Ideal(f)
<1>1. \E f : Ideal(f)
  BY IdealExists
<1>2. Ideal(ideal)
  BY <1>1, Zenon
<1>3. IdealStage(ops) = ideal
  BY Zenon DEF IdealStage, StageAfter
<1> HIDE DEF ideal
<1>4. IdealStage(ops) = [i \in 0 .. Len(ops) |-> IF i = 0 THEN EarlyStatic
                                              ELSE StageAfter(IdealStage(ops)[i - 1], ops[i])]
  BY <1>2, <1>3, Zenon
<1>5. \A i \in 0 .. Len(ops) : IdealStage(ops)[i] = IF i = 0 THEN EarlyStatic
                                              ELSE StageAfter(IdealStage(ops)[i - 1], ops[i])
  BY <1>4, Zenon
<1> HIDE DEF Ideal
<1>6. 0 \in 0 .. Len(ops) /\ \A i \in 1 .. Len(ops) : i \in 0 .. Len(ops) /\ i # 0
  OBVIOUS
<1> QED BY <1>5, <1>6, Zenon

\* Its values are stages, and never decrease.
LEMMA IdealStageFacts ==
  ASSUME NEW ops \in Seq(Ops)
  PROVE  /\ \A i \in 0 .. Len(ops) : IdealStage(ops)[i] \in EarlyStatic .. Dynamic
         /\ \A i, j \in 0 .. Len(ops) : i <= j => IdealStage(ops)[i] <= IdealStage(ops)[j]
<1> DEFINE ideal == IdealStage(ops)
           R == EarlyStatic .. Dynamic
<1>0. Len(ops) \in Nat /\ \A i \in 1 .. Len(ops) : ops[i] \in Ops
  OBVIOUS
<1>1. ideal[0] = EarlyStatic /\ \A i \in 1 .. Len(ops) : ideal[i] = StageAfter(ideal[i - 1], ops[i])
  BY <1>0, IdealStageDef
<1> HIDE DEF ideal
<1>2. \A i \in 0 .. Len(ops) : ideal[i] \in R
  <2> DEFINE Bad == {i \in 0 .. Len(ops) : ideal[i] \notin R}
  <2> SUFFICES ASSUME Bad # {} PROVE FALSE
    OBVIOUS
  <2>1. Bad \subseteq Nat
    BY <1>0
  <2>2. PICK i \in Bad : \A j \in Bad : i <= j
    BY <2>1, SmallestElement
  <2>3. i # 0
    BY <1>1, <2>2 DEF EarlyStatic, Dynamic
  <2>4. i \in 1 .. Len(ops) /\ i - 1 \in 0 .. Len(ops) /\ i - 1 \notin Bad
    BY <1>0, <2>2, <2>3
  <2>5. ideal[i - 1] \in R
    BY <2>4
  <2>6. ideal[i] \in ideal[i - 1] .. Dynamic
    <3>1. ideal[i] = StageAfter(ideal[i - 1], ops[i]) /\ ops[i] \in Ops
      BY <1>0, <1>1, <2>4
    <3> QED BY <2>5, <3>1, StageAfterFacts
  <2>7. ideal[i] \in R
    BY <2>5, <2>6 DEF EarlyStatic, Dynamic
  <2> QED BY <2>2, <2>7
<1>3. \A i \in 1 .. Len(ops) : ideal[i - 1] <= ideal[i]
  <2> TAKE i \in 1 .. Len(ops)
  <2>1. i - 1 \in 0 .. Len(ops)
    BY <1>0
  <2>2. ideal[i] \in ideal[i - 1] .. Dynamic
    <3>1. ideal[i] = StageAfter(ideal[i - 1], ops[i]) /\ ops[i] \in Ops /\ ideal[i - 1] \in R
      BY <1>0, <1>1, <1>2, <2>1
    <3> QED BY <3>1, StageAfterFacts
  <2> QED BY <1>2, <2>1, <2>2 DEF EarlyStatic, Dynamic
<1>4. ASSUME NEW i \in 0 .. Len(ops) PROVE \A j \in 0 .. Len(ops) : i <= j => ideal[i] <= ideal[j]
  <2> DEFINE Bad == {j \in 0 .. Len(ops) : i <= j /\ ~(ideal[i] <= ideal[j])}
  <2> SUFFICES ASSUME Bad # {} PROVE FALSE
    OBVIOUS
  <2>1. Bad \subseteq Nat
    BY <1>0
  <2>2. PICK j \in Bad : \A m \in Bad : j <= m
    BY <2>1, SmallestElement
  <2>3. j # i
    BY <1>2, <2>2 DEF EarlyStatic, Dynamic
  <2>4. j \in 1 .. Len(ops) /\ j - 1 \in 0 .. Len(ops) /\ i <= j - 1 /\ j - 1 \notin Bad
    BY <1>0, <2>2, <2>3
  <2>5. ideal[i] <= ideal[j - 1] /\ ideal[j - 1] <= ideal[j]
    BY <1>3, <2>4
  <2>6. ideal[i] \in Int /\ ideal[j - 1] \in Int /\ ideal[j] \in Int
    BY <1>2, <2>2, <2>4 DEF EarlyStatic, Dynamic
  <2> QED BY <2>2, <2>5, <2>6
<1> QED BY <1>2, <1>4 DEF ideal

\* The same for the page that is rendered.
Ideal(t, i) == IdealStage(program[t])[i]

LEMMA IdealFacts ==
  ASSUME TypeOK, NEW t \in Tasks
  PROVE  /\ Len(program[t]) \in Nat
         /\ Ideal(t, 0) = EarlyStatic
         /\ \A i \in 0 .. Len(program[t]) : Ideal(t, i) \in EarlyStatic .. Dynamic
         /\ \A i \in 1 .. Len(program[t]) :
              /\ i - 1 \in 0 .. Len(program[t]) /\ program[t][i] \in Ops
              /\ Ideal(t, i) = StageAfter(Ideal(t, i - 1), program[t][i])
         /\ \A i, j \in 0 .. Len(program[t]) : i <= j => Ideal(t, i) <= Ideal(t, j)
<1>1. program[t] \in Seq(Ops)
  BY DEF TypeOK
<1>2. Len(program[t]) \in Nat /\ \A i \in 1 .. Len(program[t]) : program[t][i] \in Ops /\ i - 1 \in 0 .. Len(program[t])
  BY <1>1
<1>3. /\ IdealStage(program[t])[0] = EarlyStatic
      /\ \A i \in 1 .. Len(program[t]) :
           IdealStage(program[t])[i] = StageAfter(IdealStage(program[t])[i - 1], program[t][i])
  BY <1>2, IdealStageDef
<1>4. /\ \A i \in 0 .. Len(program[t]) : IdealStage(program[t])[i] \in EarlyStatic .. Dynamic
      /\ \A i, j \in 0 .. Len(program[t]) : i <= j => IdealStage(program[t])[i] <= IdealStage(program[t])[j]
  BY <1>1, IdealStageFacts
<1> QED BY <1>2, <1>3, <1>4 DEF Ideal

\* What is done up to a stage is a prefix of the program.
LEMMA DoneFacts ==
  ASSUME TypeOK, NEW t \in Tasks, NEW s \in Int, NEW n \in 0 .. Len(program[t])
  PROVE  /\ n = 0 \/ Ideal(t, n) <= s => n <= Done(t, s)
         /\ n = Len(program[t]) \/ Ideal(t, n + 1) > s => n >= Done(t, s)
<1> DEFINE N == Len(program[t])
           D == {i \in 1 .. N : Ideal(t, i) <= s}
<1>0. /\ N \in Nat /\ n \in Nat /\ n <= N
      /\ \A i \in 0 .. N : Ideal(t, i) \in Int
      /\ \A i, j \in 0 .. N : i <= j => Ideal(t, i) <= Ideal(t, j)
  <2>1. \A x \in EarlyStatic .. Dynamic : x \in Int
    BY DEF EarlyStatic, Dynamic
  <2>2. N \in Nat
    BY IdealFacts
  <2>3. n \in Nat /\ n <= N
    BY <2>2
  <2> HIDE DEF N
  <2>4. \A i \in 0 .. N : Ideal(t, i) \in Int
    BY <2>1, IdealFacts DEF N
  <2> QED BY <2>2, <2>3, <2>4, IdealFacts DEF N
<1>1. Done(t, s) = Cardinality(D)
  BY DEF Done, Ideal
<1>2. IsFiniteSet(D) /\ Cardinality(D) \in Nat
  <2>1. IsFiniteSet(1 .. N)
    BY <1>0, FS_Interval
  <2>2. D \in SUBSET (1 .. N)
    OBVIOUS
  <2> QED BY <2>1, <2>2, FS_Subset, FS_CardinalityType
<1>3. IsFiniteSet(1 .. n) /\ Cardinality(1 .. n) = n
  BY <1>0, FS_Interval
<1> HIDE DEF N
<1>4. ASSUME n = 0 \/ Ideal(t, n) <= s PROVE n <= Cardinality(D)
  <2>1. \A i \in 1 .. n : i \in 1 .. N /\ i \in 0 .. N /\ n \in 0 .. N /\ i <= n /\ n # 0
    BY <1>0
  <2>2. \A i \in 1 .. n : Ideal(t, i) <= s
    BY <1>0, <1>4, <2>1
  <2>3. 1 .. n \in SUBSET D
    BY <2>1, <2>2
  <2> HIDE DEF D
  <2> QED BY <1>2, <1>3, <2>3, FS_Subset
<1>5. ASSUME n = N \/ Ideal(t, n + 1) > s PROVE n >= Cardinality(D)
  <2>1. \A i \in D : i \in 1 .. n
    <3> TAKE i \in D
    <3>1. CASE n = N
      BY <3>1
    <3>2. CASE n # N /\ n < i
      <4>1. n + 1 \in 0 .. N /\ i \in 0 .. N /\ n + 1 <= i
        BY <1>0, <3>2
      <4>2. Ideal(t, n + 1) <= Ideal(t, i) /\ Ideal(t, i) <= s
        BY <1>0, <4>1
      <4> QED BY <1>0, <1>5, <3>2, <4>1, <4>2
    <3>3. CASE ~(n < i)
      BY <1>0, <3>3
    <3> QED BY <3>1, <3>2, <3>3
  <2>2. D \in SUBSET (1 .. n)
    BY <2>1
  <2> HIDE DEF D
  <2> QED BY <1>2, <1>3, <2>2, FS_Subset
<1> QED BY <1>1, <1>4, <1>5 DEF N

-----------------------------------------------------------------------------
(* What a task may do in one step, when no entry is stale.                 *)
NoStale ==
  /\ \A k \in Keys : handler[k] # "stale"
  /\ \A t \in Tasks : held[t] # "stale"

\* A task has done its operation, or awaits something there.
Passes(t) == at'[t] = at[t] + 1 /\ pc'[t] = "ready"
Comes(t, what) == at'[t] = at[t] /\ pc'[t] = what

\* The stage that a short-lived entry is delayed to.
DelayStage(t) == IF Life[Key(t)] = "short" THEN GetRuntimeStage(ctl) ELSE Dynamic

FillOf(t, endsRead) == [key |-> Key(t), by |-> t, endsRead |-> endsRead]

FindsEntry(t) ==
  pc[t] = "ready" /\ Comes(t, "entry") /\ rdc[Key(t)] # "none" /\ UNCHANGED <<rdc, filling>>
AsksHandler(t) ==
  /\ pc[t] = "ready" /\ (Comes(t, "got") \/ Comes(t, "get"))
  /\ rdc[Key(t)] = "none" /\ UNCHANGED <<rdc, filling>>
IsDelayed(t) ==
  /\ pc[t] \in {"entry", "got", "get"} /\ Comes(t, "stage") /\ Life[Key(t)] # "long"
  /\ until'[t] = DelayStage(t) /\ UNCHANGED <<rdc, filling>>
UsesEntry(t) ==
  /\ Passes(t) /\ UNCHANGED filling
  /\ \/ pc[t] = "entry" /\ Life[Key(t)] = "long"
     \/ pc[t] \in {"got", "get"} /\ Life[Key(t)] # "short" /\ handler[Key(t)] = "fresh"
     \/ pc[t] = "stage" /\ until[t] \in ctl.open
  /\ IF render = "initial" THEN rdc'[Key(t)] # "none" ELSE rdc' = rdc
Generates(t) ==
  /\ pc[t] \in {"got", "get"} /\ UNCHANGED rdc
  /\ IF render = "initial" THEN Comes(t, "timer") /\ UNCHANGED filling
     ELSE Comes(t, "stream") /\ filling' = filling \cup {FillOf(t, FALSE)}
IsStarted(t) ==
  /\ pc[t] = "timer" /\ render = "initial" /\ IOTurn /\ Comes(t, "stream")
  /\ rdc'[Key(t)] # "none" /\ filling' = filling \cup {FillOf(t, TRUE)}
HasArrived(t) ==
  /\ pc[t] = "stream" /\ Passes(t) /\ UNCHANGED <<rdc, filling>>

ReadOutcome(t) ==
  \/ FindsEntry(t) \/ AsksHandler(t) \/ IsDelayed(t) \/ UsesEntry(t) \/ Generates(t)
  \/ IsStarted(t) \/ HasArrived(t)

LEMMA ReadEffects ==
  ASSUME TypeOK, TaskShape, NoStale, NEW t \in Tasks, ReadStep(t)
  PROVE  /\ At(t, "read") /\ Key(t) \in Keys
         /\ UNCHANGED <<turn, ctl, handler, initialized>> /\ held'[t] # "stale"
         /\ ReadOutcome(t)
<1>0. /\ at \in [Tasks -> Nat \ {0}] /\ pc \in [Tasks -> PCs] /\ until \in [Tasks -> Advanceable]
      /\ held \in [Tasks -> Entries \cup {"fresh", "stale"}] /\ rdc \in [Keys -> Entries]
      /\ render \in {"initial", "final"}
  BY DEF TypeOK
<1>e. t # "none" /\ t # "stale" /\ \A k \in Keys : rdc[k] # "stale"
  BY <1>0, DevRenderAssumption DEF Entries
<1>1. Proceed(t) => Passes(t) /\ held'[t] = "none"
  BY <1>0 DEF Proceed, Passes
<1>2. ASSUME NEW what, NEW entry, Await(t, what, entry) PROVE Comes(t, what) /\ held'[t] = entry
  BY <1>0, <1>2 DEF Await, Comes
<1>3. ASSUME NEW s, NEW entry, AwaitStage(t, s, entry)
      PROVE  Comes(t, "stage") /\ until'[t] = s /\ held'[t] = entry
  BY <1>0, <1>3 DEF AwaitStage, Comes
<1>4. At(t, "read") /\ UNCHANGED <<turn, ctl, handler, initialized>>
  BY DEF ReadStep, BeginRead, ReadEntry, HandlerAnswers, UseDelayed, StartGeneration, StreamArrives,
         TaskShape, ShapeOf, cacheVars
<1>5. Key(t) \in Keys
  BY <1>4, OpType
<1>6. ASSUME NEW e, Consume(t, e), e # "none"
      PROVE  /\ Passes(t) /\ held'[t] = "none"
             /\ IF render = "initial" THEN rdc'[Key(t)] # "none" ELSE rdc' = rdc
  BY <1>0, <1>1, <1>5, <1>6 DEF Consume
<1>7. CASE BeginRead(t)
  <2>1. pc[t] = "ready" /\ UNCHANGED <<rdc, filling>>
    BY <1>7 DEF BeginRead
  <2>2. CASE rdc[Key(t)] # "none"
    <3>1. Await(t, "entry", rdc[Key(t)])
      BY <1>7, <2>2 DEF BeginRead
    <3> QED BY <1>2, <1>4, <1>5, <1>e, <2>1, <2>2, <3>1 DEF FindsEntry, ReadOutcome
  <2>3. CASE rdc[Key(t)] = "none"
    <3>1. PICK what \in {"got", "get"} : Await(t, what, "none")
      BY <1>7, <2>3 DEF BeginRead
    <3> QED BY <1>2, <1>4, <1>5, <2>1, <2>3, <3>1 DEF AsksHandler, ReadOutcome
  <2> QED BY <2>2, <2>3
<1>8. CASE ReadEntry(t)
  <2>1. pc[t] = "entry" /\ UNCHANGED filling /\ held[t] # "none" /\ held[t] # "stale"
    BY <1>8 DEF ReadEntry, TaskShape, ShapeOf, NoStale
  <2>2. CASE Life[Key(t)] = "long"
    BY <1>4, <1>5, <1>6, <1>8, <2>1, <2>2 DEF ReadEntry, UsesEntry, ReadOutcome
  <2>3. CASE Life[Key(t)] # "long"
    <3>1. AwaitStage(t, DelayStage(t), held[t]) /\ UNCHANGED rdc
      BY <1>8, <2>3 DEF ReadEntry, DelayStage
    <3> QED BY <1>3, <1>4, <1>5, <2>1, <2>3, <3>1 DEF IsDelayed, ReadOutcome
  <2> QED BY <2>2, <2>3
<1>9. CASE HandlerAnswers(t)
  <2>1. pc[t] \in {"got", "get"} /\ handler[Key(t)] \in {"absent", "fresh"}
    BY <1>5, <1>9 DEF HandlerAnswers, NoStale, TypeOK
  <2>2. CASE handler[Key(t)] = "absent"
    <3>1. Generate(t, "none") /\ UNCHANGED rdc
      BY <1>9, <2>2 DEF HandlerAnswers
    <3>2. CASE render = "initial"
      BY <1>2, <1>4, <1>5, <2>1, <3>1, <3>2 DEF Generate, Generates, ReadOutcome
    <3>3. CASE render # "initial"
      <4>1. Fill(t, FALSE) /\ Await(t, "stream", "none")
        BY <3>1, <3>3 DEF Generate
      <4> QED BY <1>2, <1>4, <1>5, <2>1, <3>1, <3>3, <4>1 DEF Fill, FillOf, Generates, ReadOutcome
    <3> QED BY <3>2, <3>3
  <2>3. CASE handler[Key(t)] = "fresh" /\ Life[Key(t)] = "short"
    <3>1. AwaitStage(t, DelayStage(t), "fresh") /\ UNCHANGED <<rdc, filling>>
      BY <1>9, <2>3 DEF HandlerAnswers, DelayStage
    <3> QED BY <1>3, <1>4, <1>5, <2>1, <2>3, <3>1 DEF IsDelayed, ReadOutcome
  <2>4. CASE handler[Key(t)] = "fresh" /\ Life[Key(t)] # "short"
    <3>1. Consume(t, "handler") /\ UNCHANGED filling
      BY <1>9, <2>4 DEF HandlerAnswers, UseHandlerEntry
    <3> QED BY <1>4, <1>5, <1>6, <2>1, <2>4, <3>1 DEF UsesEntry, ReadOutcome
  <2> QED BY <2>1, <2>2, <2>3, <2>4
<1>10. CASE UseDelayed(t)
  <2>1. pc[t] = "stage" /\ held[t] # "none" /\ held[t] # "stale" /\ until[t] \in ctl.open
    BY <1>10 DEF UseDelayed, TaskShape, ShapeOf, NoStale, Runnable
  <2>2. \E e : e # "none" /\ Consume(t, e) /\ UNCHANGED filling
    <3>1. CASE held[t] = "fresh"
      BY <1>10, <3>1 DEF UseDelayed, UseHandlerEntry
    <3>2. CASE held[t] # "fresh"
      BY <1>10, <2>1, <3>2 DEF UseDelayed
    <3> QED BY <3>1, <3>2
  <2> QED BY <1>4, <1>5, <1>6, <2>1, <2>2 DEF UsesEntry, ReadOutcome
<1>11. CASE StartGeneration(t)
  <2>1. /\ pc[t] = "timer" /\ held[t] = "none" /\ IOTurn /\ render = "initial"
        /\ rdc' = [rdc EXCEPT ![Key(t)] = t]
    BY <1>11 DEF StartGeneration, TaskShape, ShapeOf, NoStale
  <2>2. Await(t, "stream", "none") /\ filling' = filling \cup {FillOf(t, TRUE)}
    BY <1>11, <2>1 DEF StartGeneration, Fill, FillOf
  <2>3. rdc'[Key(t)] # "none"
    BY <1>0, <1>5, <1>e, <2>1
  <2> QED BY <1>2, <1>4, <1>5, <2>1, <2>2, <2>3 DEF IsStarted, ReadOutcome
<1>12. CASE StreamArrives(t)
  BY <1>1, <1>4, <1>5, <1>12 DEF StreamArrives, HasArrived, ReadOutcome, cacheVars
<1> QED BY <1>7, <1>8, <1>9, <1>10, <1>11, <1>12 DEF ReadStep

\* The same for everything else.
BeginsWait(t) ==
  /\ At(t, "wait") /\ pc[t] = "ready" /\ Comes(t, "stage") /\ until'[t] = Op(t).stage
  /\ UNCHANGED <<ctl, initialized>>
EndsWait(t) ==
  /\ At(t, "wait") /\ pc[t] = "stage" /\ until[t] \in ctl.open /\ Passes(t)
  /\ UNCHANGED <<ctl, initialized>>
DoesSyncIO(t) ==
  /\ At(t, "syncIO") /\ pc[t] = "ready" /\ turn > 0 /\ Passes(t) /\ UNCHANGED initialized
  /\ ctl' = IF ShouldTrackSyncInterrupt(ctl) THEN SyncInterrupt(ctl) ELSE ctl
Initializes(t) ==
  /\ At(t, "lazyInit") /\ pc[t] = "ready" /\ turn > 0 /\ Passes(t) /\ initialized'
  /\ ctl' = IF ~initialized /\ ShouldTrackSyncInterrupt(ctl) THEN SyncInterrupt(ctl) ELSE ctl
BeginsIO(t) ==
  At(t, "io") /\ pc[t] = "ready" /\ Comes(t, "io") /\ UNCHANGED <<ctl, initialized>>
EndsIO(t) ==
  At(t, "io") /\ pc[t] = "io" /\ IOTurn /\ Passes(t) /\ UNCHANGED <<ctl, initialized>>

OtherOutcome(t) ==
  \/ BeginsWait(t) \/ EndsWait(t) \/ DoesSyncIO(t) \/ Initializes(t) \/ BeginsIO(t) \/ EndsIO(t)

LEMMA OtherEffects ==
  ASSUME TypeOK, TaskShape, NoStale, NEW t \in Tasks, OtherStep(t)
  PROVE  /\ UNCHANGED <<turn, rdc, filling, handler>> /\ held'[t] # "stale"
         /\ OtherOutcome(t)
<1>0. /\ at \in [Tasks -> Nat \ {0}] /\ pc \in [Tasks -> PCs] /\ until \in [Tasks -> Advanceable]
      /\ held \in [Tasks -> Entries \cup {"fresh", "stale"}]
  BY DEF TypeOK
<1>1. Proceed(t) => Passes(t) /\ held'[t] = "none"
  BY <1>0 DEF Proceed, Passes
<1>2. UNCHANGED <<turn, rdc, filling, handler>>
  BY DEF OtherStep, BeginWait, EndWait, SyncIO, LazyInit, BeginIO, EndIO, cacheVars
<1>3. CASE BeginWait(t)
  BY <1>0, <1>2, <1>3 DEF BeginWait, AwaitStage, Comes, BeginsWait, OtherOutcome
<1>4. CASE EndWait(t)
  BY <1>1, <1>2, <1>4 DEF EndWait, Runnable, EndsWait, OtherOutcome
<1>5. ASSUME Runnable(t), At(t, "syncIO") \/ At(t, "lazyInit") PROVE pc[t] = "ready" /\ turn > 0
  <2>1. ~At(t, "read") /\ ~At(t, "wait") /\ ~At(t, "io")
    BY <1>5 DEF At
  <2> QED BY <1>5, <2>1 DEF Runnable, TaskShape, ShapeOf
<1>6. CASE SyncIO(t)
  BY <1>1, <1>2, <1>5, <1>6 DEF SyncIO, DoesSyncIO, OtherOutcome
<1>7. CASE LazyInit(t)
  BY <1>1, <1>2, <1>5, <1>7 DEF LazyInit, Initializes, OtherOutcome
<1>8. CASE BeginIO(t)
  BY <1>0, <1>2, <1>8 DEF BeginIO, Await, Comes, BeginsIO, OtherOutcome
<1>9. CASE EndIO(t)
  <2>1. At(t, "io")
    BY <1>9 DEF EndIO, TaskShape, ShapeOf
  <2> QED BY <1>1, <1>2, <1>9, <2>1 DEF EndIO, EndsIO, OtherOutcome
<1> QED BY <1>3, <1>4, <1>5, <1>6, <1>7, <1>8, <1>9 DEF OtherStep

-----------------------------------------------------------------------------
(* The controller of a render, in its n-th task.                           *)
Open(s) == {x \in Advanceable : x <= s}

ControllerOf(c, r, n) ==
  /\ c.abortable = (r = "initial") /\ c.abandonable = (r = "initial")
  /\ c.abandonAborted <=> c.stage = Abandoned
  /\ c.stage = Abandoned => r = "initial"
  /\ c.open = Open(IF c.stage = Abandoned THEN Runtime ELSE c.stage)
  /\ n = 0 <=> c.stage = Before
  /\ n \in 1 .. 5 => c.stage \in {n + 1, Abandoned} \/ c.interrupted
  /\ n = 6 => c.stage \in {Dynamic, Abandoned}
  /\ c.interrupted => r = "final" /\ c.stage = Dynamic

LEMMA StageNumbers ==
  /\ Before = 1 /\ EarlyStatic = 2 /\ Static = 3 /\ EarlyRuntime = 4 /\ Runtime = 5 /\ Dynamic = 6
  /\ Abandoned = 7 /\ Stages = 1 .. 7 /\ Advanceable = 3 .. 6
BY DEF Before, EarlyStatic, Static, EarlyRuntime, Runtime, Dynamic, Abandoned, Stages, Advanceable

LEMMA MovedFields ==
  ASSUME NEW c \in Controllers, NEW s \in Stages, NEW o \in SUBSET Advanceable
  PROVE  LET d == Moved(c, s, o) IN
         /\ d \in Controllers /\ d.stage = s /\ d.open = o
         /\ d.interrupted = c.interrupted /\ d.abortable = c.abortable
         /\ d.abandonable = c.abandonable /\ d.abandonAborted = c.abandonAborted
<1> DEFINE e == [c EXCEPT !.stage = s]
<1>1. Moved(c, s, o) = [e EXCEPT !.open = o]
  BY DEF Controllers, Moved
<1>2. /\ e \in Controllers /\ e.interrupted = c.interrupted /\ e.abortable = c.abortable
      /\ e.abandonable = c.abandonable /\ e.abandonAborted = c.abandonAborted
  BY DEF Controllers
<1> HIDE DEF e
<1>3. LET d == [e EXCEPT !.open = o] IN
      /\ d.interrupted = e.interrupted /\ d.abortable = e.abortable
      /\ d.abandonable = e.abandonable /\ d.abandonAborted = e.abandonAborted
  BY <1>2 DEF Controllers
<1>4. Moved(c, s, o) \in Controllers /\ Moved(c, s, o).stage = s /\ Moved(c, s, o).open = o
  BY MovedType
<1> QED BY <1>1, <1>2, <1>3, <1>4, Zenon

LEMMA OpenOpens ==
  ASSUME NEW c \in Controllers, NEW a \in Int, NEW s \in Int, c.stage = a, c.open = Open(a), a <= s
  PROVE  OpenTo(c, s) = Open(s) /\ Open(s) \in SUBSET Advanceable
BY StageNumbers DEF OpenTo, Open

LEMMA AdvanceStageShape ==
  ASSUME NEW c \in Controllers, NEW r \in {"initial", "final"}, NEW n \in 0 .. 4,
         ControllerOf(c, r, n), ~c.abandonAborted
  PROVE  LET d == AdvanceStage(c, n + 2) IN
         /\ ControllerOf(d, r, n + 1) /\ d \in Controllers
         /\ c.interrupted => d = c
         /\ ~c.interrupted => d.stage = n + 2 /\ ~d.interrupted /\ c.stage = n + 1
<1>0. c.stage \in 1 .. 7 /\ c.stage # Abandoned /\ n + 1 \in 1 .. 5
  BY StageNumbers DEF ControllerOf, Controllers
<1>1. CASE c.interrupted
  <2>1. c.stage = 6 /\ n + 2 <= 6
    BY <1>1, StageNumbers DEF ControllerOf
  <2>2. AdvanceStage(c, n + 2) = c
    BY <2>1 DEF AdvanceStage
  <2>3. ControllerOf(c, r, n + 1)
    BY <1>0, <1>1, <2>1, StageNumbers DEF ControllerOf
  <2> QED BY <1>1, <2>2, <2>3
<1>2. CASE ~c.interrupted
  <2> DEFINE d == Moved(c, n + 2, OpenTo(c, n + 2))
  <2>1. c.stage = n + 1
    BY <1>0, <1>2, StageNumbers DEF ControllerOf
  <2>2. AdvanceStage(c, n + 2) = d
    BY <2>1 DEF AdvanceStage, Moved
  <2>3. c.open = Open(c.stage)
    BY <1>0 DEF ControllerOf
  <2>4. OpenTo(c, n + 2) = Open(n + 2) /\ Open(n + 2) \in SUBSET Advanceable
    BY <2>1, <2>3, OpenOpens
  <2>5. n + 2 \in Stages
    BY StageNumbers
  <2>6. /\ d \in Controllers /\ d.stage = n + 2 /\ d.open = Open(n + 2)
        /\ d.interrupted = c.interrupted /\ d.abortable = c.abortable
        /\ d.abandonable = c.abandonable /\ d.abandonAborted = c.abandonAborted
    BY <2>4, <2>5, MovedFields
  <2> HIDE DEF d
  <2>7. ControllerOf(d, r, n + 1)
    BY <1>0, <1>2, <2>6, StageNumbers DEF ControllerOf
  <2> QED BY <1>2, <2>1, <2>2, <2>6, <2>7
<1> QED BY <1>1, <1>2

\* An initial render is abandoned in any of its stages but the last.
LEMMA AbandonShape ==
  ASSUME NEW c \in Controllers, NEW n \in 1 .. 6, ControllerOf(c, "initial", n), ~c.abandonAborted,
         c.stage \in EarlyStatic .. Runtime
  PROVE  LET d == Abandon(c) IN
         /\ d \in Controllers /\ d.stage = Abandoned /\ ~d.interrupted
         /\ \A m \in 1 .. 6 : ControllerOf(d, "initial", m)
<1> DEFINE b == [c EXCEPT !.abandonAborted = TRUE]
           o == OpenTo(b, Runtime)
           d == Moved(b, Abandoned, o)
<1>1. /\ b \in Controllers /\ b.stage = c.stage /\ b.open = c.open /\ b.abandonAborted
      /\ b.interrupted = c.interrupted /\ b.abortable = c.abortable /\ b.abandonable = c.abandonable
  BY DEF Controllers
<1>2. Abandon(c) = d
  BY <1>1 DEF Abandon, AbandonRender, Moved
<1> HIDE DEF b
<1>3. c.open = Open(c.stage) /\ c.stage \in 2 .. 5 /\ ~c.interrupted /\ c.abortable /\ c.abandonable
  BY StageNumbers DEF ControllerOf
<1>4. o = Open(Runtime) /\ o \in SUBSET Advanceable
  BY <1>1, <1>3, OpenOpens, StageNumbers
<1>5. Abandoned \in Stages
  BY StageNumbers
<1> HIDE DEF o
<1>6. /\ d \in Controllers /\ d.stage = Abandoned /\ d.open = o
      /\ d.interrupted = b.interrupted /\ d.abortable = b.abortable
      /\ d.abandonable = b.abandonable /\ d.abandonAborted = b.abandonAborted
  <2>1. b \in Controllers
    BY <1>1
  <2>2. o \in SUBSET Advanceable
    BY <1>4
  <2> QED BY <2>1, <2>2, <1>5, MovedFields
<1> HIDE DEF d
<1>7. \A m \in 1 .. 6 : ControllerOf(d, "initial", m)
  BY <1>1, <1>3, <1>4, <1>6, StageNumbers DEF ControllerOf
<1> QED BY <1>1, <1>2, <1>3, <1>6, <1>7

\* Sync IO abandons the initial render, and moves the final one to its last stage.
LEMMA SyncInterruptShape ==
  ASSUME NEW c \in Controllers, NEW r \in {"initial", "final"}, NEW n \in 1 .. 6, ControllerOf(c, r, n),
         ShouldTrackSyncInterrupt(c)
  PROVE  LET d == SyncInterrupt(c) IN
         /\ d \in Controllers /\ ControllerOf(d, r, n)
         /\ r = "initial" => d.stage = Abandoned /\ ~d.interrupted
         /\ r = "final" => d.stage = Dynamic /\ d.interrupted
<1>0. c.stage \in 2 .. 4 /\ c.stage # Abandoned /\ c.stage # Before /\ ~c.abandonAborted /\ ~c.interrupted
  BY StageNumbers DEF ShouldTrackSyncInterrupt, ControllerOf
<1>1. CASE r = "initial"
  <2>1. SyncInterrupt(c) = Abandon(c) /\ c.stage \in EarlyStatic .. Runtime
    <3>1. c.abandonable
      BY <1>1 DEF ControllerOf
    <3>2. c.stage \notin {Before, Abandoned}
      BY <1>0
    <3>3. SyncInterrupt(c) = Abandon(c)
      BY <3>1, <3>2, Zenon DEF SyncInterrupt
    <3> QED BY <1>0, <3>3, StageNumbers
  <2> QED BY <1>0, <1>1, <2>1, AbandonShape
<1>2. CASE r = "final"
  <2> DEFINE i == [c EXCEPT !.interrupted = TRUE]
             o == OpenTo(i, Dynamic)
             d == Moved(i, Dynamic, o)
  <2>1. /\ i \in Controllers /\ i.stage = c.stage /\ i.open = c.open /\ i.interrupted
        /\ i.abortable = c.abortable /\ i.abandonable = c.abandonable
        /\ i.abandonAborted = c.abandonAborted
    BY DEF Controllers
  <2>2. SyncInterrupt(c) = AdvanceStage(i, Dynamic)
    BY <1>0, <1>2, StageNumbers DEF SyncInterrupt, Interrupted, ControllerOf
  <2> HIDE DEF i
  <2>3. SyncInterrupt(c) = d
    BY <1>0, <2>1, <2>2, StageNumbers DEF AdvanceStage, Moved
  <2>4. c.open = Open(c.stage)
    BY <1>0 DEF ControllerOf
  <2>5. o = Open(Dynamic) /\ o \in SUBSET Advanceable
    BY <1>0, <2>1, <2>4, OpenOpens, StageNumbers
  <2>6. Dynamic \in Stages
    BY StageNumbers
  <2> HIDE DEF o
  <2>7. /\ d \in Controllers /\ d.stage = Dynamic /\ d.open = o
        /\ d.interrupted = i.interrupted /\ d.abortable = i.abortable
        /\ d.abandonable = i.abandonable /\ d.abandonAborted = i.abandonAborted
    BY <2>1, <2>5, <2>6, MovedFields
  <2> HIDE DEF d
  <2>8. ControllerOf(d, r, n)
    BY <1>0, <1>2, <2>1, <2>5, <2>7, StageNumbers DEF ControllerOf
  <2> QED BY <1>2, <2>1, <2>3, <2>7, <2>8
<1> QED BY <1>1, <1>2

-----------------------------------------------------------------------------
\* The handler has no stale entries, nor any of functions that are stale within
\* 30 seconds.
Warmable ==
  /\ "stale" \notin HandlerHas
  /\ "fresh" \in HandlerHas => \A k \in Keys : Life[k] # "shortStale"

HandlerShape ==
  render = "initial" /\ turn < 6 => \A k \in Keys : handler[k] \in HandlerHas

\* Nothing happens before the first task of a render; and in its atomic group
\* the initial render generates nothing.
Quiet ==
  /\ turn = 0 => filling = {} /\ \A t \in Tasks : at[t] = 1 /\ pc[t] = "ready"
  /\ render = "initial" /\ turn < 6 => filling = {} /\ \A t \in Tasks : pc[t] # "stream"
  /\ render = "initial" => \A f \in filling : f.endsRead

\* What has been read is in the RDC.
ReadShape(t) ==
  /\ pc[t] = "entry" => rdc[Key(t)] # "none"
  /\ pc[t] = "stream" => (rdc[Key(t)] = "none" <=> render = "final")
  /\ pc[t] \in {"got", "get"} /\ render = "final" => rdc[Key(t)] = "none"
  /\ render = "initial" =>
       \A i \in 1 .. at[t] - 1 :
         /\ program[t][i].do = "read" => rdc[program[t][i].key] # "none"
         /\ program[t][i].do = "lazyInit" => initialized

\* The final render generates what the RDC does not have; that comes in its
\* dynamic stage only.
WarmRender ==
  render = "final" =>
    /\ \A f \in filling : rdc[f.key] = "none"
    /\ \A t \in Tasks : \A i \in 1 .. Len(program[t]) :
         /\ program[t][i].do = "read" /\ Ideal(t, i - 1) # Dynamic => rdc[program[t][i].key] # "none"
         /\ program[t][i].do = "lazyInit" /\ Ideal(t, i) # Dynamic => initialized

\* What a task does or awaits in an earlier stage than the dynamic one.
Left(t) == at[t] <= Len(program[t])
InStage(t) ==
  turn > 0 /\ ctl.stage < Dynamic =>
    /\ Ideal(t, at[t] - 1) <= ctl.stage
    /\ Left(t) => IF pc[t] \in {"stage", "io"} THEN Ideal(t, at[t]) >= ctl.stage
                  ELSE Ideal(t, at[t] - 1) = ctl.stage
    /\ pc[t] = "stage" =>
         Ideal(t, at[t]) = IF until[t] > Ideal(t, at[t] - 1) THEN until[t] ELSE Ideal(t, at[t] - 1)
InDynamic(t) ==
  ctl.stage = Dynamic /\ ~ctl.interrupted /\ Left(t) => Ideal(t, at[t]) = Dynamic

SyncShape(t) ==
  \A i \in 1 .. at[t] - 1 :
    program[t][i].do = "syncIO" /\ Ideal(t, i) <= EarlyRuntime =>
      ctl.stage = Abandoned \/ ctl.interrupted

Steady == NoStale /\ Quiet /\ ControllerOf(ctl, render, turn)

Staged ==
  /\ Steady /\ HandlerShape
  /\ \A t \in Tasks : ReadShape(t) /\ InStage(t) /\ InDynamic(t) /\ SyncShape(t)
  /\ WarmRender /\ (ctl.interrupted => MeetsSyncIO)

LEMMA NextCases ==
  ASSUME [Next]_vars
  PROVE  \/ \E t \in Tasks : ReadStep(t) \/ OtherStep(t)
         \/ \E f \in filling : EndGeneration(f)
         \/ StageTask \/ TasksDone \/ Restart \/ UNCHANGED vars
BY DEF Next, RenderStep, Idle

\* No task does anything before React has been started.
LEMMA StartedStep ==
  ASSUME Quiet, NEW t \in Tasks, ReadStep(t) \/ OtherStep(t)
  PROVE  turn # 0
BY DEF Quiet, ReadStep, OtherStep, BeginRead, ReadEntry, HandlerAnswers, UseDelayed, StartGeneration,
       StreamArrives, BeginWait, EndWait, SyncIO, LazyInit, BeginIO, EndIO, Runnable

LEMMA NoStaleStep ==
  ASSUME IInv, NoStale, [Next]_vars
  PROVE  NoStale'
<1>0. /\ TypeOK /\ TaskShape /\ handler \in [Keys -> {"absent", "fresh", "stale"}]
  BY DEF IInv, TypeOK
<1>1. ASSUME NEW t \in Tasks, ReadStep(t) \/ OtherStep(t) PROVE NoStale'
  <2>1. handler' = handler /\ held'[t] # "stale" /\ \A u \in Tasks \ {t} : held'[u] = held[u]
    BY <1>0, <1>1, ReadEffects, OtherEffects, OtherTasks
  <2> QED BY <2>1 DEF NoStale
<1>2. ASSUME NEW f \in filling, EndGeneration(f) PROVE NoStale'
  BY <1>0, <1>2 DEF EndGeneration, NoStale, taskVars
<1>3. CASE StageTask \/ TasksDone \/ UNCHANGED vars
  BY <1>3 DEF StageTask, TasksDone, NoStale, vars, cacheVars, taskVars
<1>4. CASE Restart
  <2>1. handler' = handler /\ \A t \in Tasks : held'[t] = "none"
    BY <1>4 DEF Restart, cacheVars
  <2> QED BY <2>1 DEF NoStale
<1> QED BY <1>1, <1>2, <1>3, <1>4, NextCases

LEMMA HandlerShapeStep ==
  ASSUME IInv, NoStale, HandlerShape, Quiet, [Next]_vars
  PROVE  HandlerShape'
<1>0. TypeOK /\ TaskShape /\ turn \in 0 .. 6
  BY DEF IInv, TypeOK
<1>1. ASSUME NEW t \in Tasks, ReadStep(t) \/ OtherStep(t) PROVE HandlerShape'
  <2>1. UNCHANGED <<turn, handler, render>>
    BY <1>0, <1>1, ReadEffects, OtherEffects, OtherTasks
  <2> QED BY <2>1 DEF HandlerShape
<1>2. ASSUME NEW f \in filling, EndGeneration(f) PROVE HandlerShape'
  BY <1>2 DEF EndGeneration, Quiet, HandlerShape
<1>3. CASE StageTask \/ TasksDone
  <2>1. UNCHANGED <<handler, render>> /\ (turn' < 6 => turn < 6)
    BY <1>0, <1>3 DEF StageTask, TasksDone, cacheVars
  <2> QED BY <2>1 DEF HandlerShape
<1>4. CASE Restart
  BY <1>4 DEF Restart, HandlerShape
<1>5. CASE UNCHANGED vars
  BY <1>5 DEF HandlerShape, vars, cacheVars
<1> QED BY <1>1, <1>2, <1>3, <1>4, <1>5, NextCases

-----------------------------------------------------------------------------
(* The controller.                                                         *)
LEMMA SyncEffect ==
  ASSUME TypeOK, ControllerOf(ctl, render, turn), NEW t \in Tasks, DoesSyncIO(t) \/ Initializes(t)
  PROVE  \/ ctl' = ctl
         \/ /\ ShouldTrackSyncInterrupt(ctl) /\ ctl' \in Controllers /\ ControllerOf(ctl', render, turn)
            /\ DoesSyncIO(t) \/ ~initialized
            /\ render = "initial" => ctl'.stage = Abandoned /\ ~ctl'.interrupted
            /\ render = "final" => ctl'.stage = Dynamic /\ ctl'.interrupted
<1>1. ctl \in Controllers /\ render \in {"initial", "final"} /\ turn \in 1 .. 6
  BY DEF TypeOK, DoesSyncIO, Initializes
<1>2. \/ ctl' = ctl
      \/ /\ ShouldTrackSyncInterrupt(ctl) /\ ctl' = SyncInterrupt(ctl)
         /\ DoesSyncIO(t) \/ ~initialized
  BY DEF DoesSyncIO, Initializes
<1>3. CASE ShouldTrackSyncInterrupt(ctl) /\ ctl' = SyncInterrupt(ctl) /\ (DoesSyncIO(t) \/ ~initialized)
  BY <1>1, <1>3, SyncInterruptShape
<1> QED BY <1>2, <1>3

\* A stage task leaves the controller, abandons the render, or goes on by one stage.
LEMMA StageTaskEffect ==
  ASSUME TypeOK, ControllerOf(ctl, render, turn), StageTask
  PROVE  /\ ControllerOf(ctl', render, turn + 1) /\ turn' = turn + 1
         /\ \/ ctl' = ctl /\ (ctl.stage = Abandoned \/ ctl.interrupted)
            \/ ctl'.stage = Abandoned /\ ~ctl'.interrupted
            \/ /\ ctl'.stage = turn + 2 /\ ctl.stage = turn + 1 /\ ~ctl'.interrupted
               /\ turn > 0 => NothingRunnable /\ (render = "initial" => count = 0)
<1>0. /\ ctl \in Controllers /\ render \in {"initial", "final"} /\ turn \in 0 .. 4 /\ turn' = turn + 1
      /\ count \in Nat
  BY DEF TypeOK, StageTask
<1>1. CASE ~ctl.abandonAborted /\ ctl' = AdvanceStage(ctl, turn + 2)
           /\ (turn > 0 => NothingRunnable /\ (render = "initial" => count = 0))
  <2>1. /\ ControllerOf(ctl', render, turn + 1)
        /\ ctl.interrupted => ctl' = ctl
        /\ ~ctl.interrupted => ctl'.stage = turn + 2 /\ ~ctl'.interrupted /\ ctl.stage = turn + 1
    BY <1>0, <1>1, AdvanceStageShape
  <2> QED BY <1>0, <1>1, <2>1
<1>2. CASE render = "initial" /\ turn > 0
  <2>1. ctl' = InitialStage(turn + 2) /\ NothingRunnable
    BY <1>2 DEF StageTask
  <2>2. CASE ctl.abandonAborted
    <3>1. ctl' = ctl
      BY <2>1, <2>2 DEF InitialStage
    <3>2. ctl.stage = Abandoned
      BY <2>2 DEF ControllerOf
    <3>3. ControllerOf(ctl, render, turn + 1)
      BY <1>0, <1>2, <3>2, StageNumbers DEF ControllerOf
    <3> QED BY <1>0, <3>1, <3>2, <3>3
  <2>3. CASE ~ctl.abandonAborted /\ count > 0
    <3>1. ctl' = Abandon(ctl)
      BY <2>1, <2>3 DEF InitialStage
    <3>2. ctl.stage = turn + 1
      BY <1>0, <1>2, <2>3 DEF ControllerOf
    <3>3. turn \in 1 .. 6 /\ turn + 1 \in 1 .. 6 /\ ctl.stage \in EarlyStatic .. Runtime
      BY <1>0, <1>2, <3>2, StageNumbers
    <3> QED BY <1>0, <1>2, <2>3, <3>1, <3>3, AbandonShape
  <2>4. CASE ~ctl.abandonAborted /\ ~(count > 0)
    BY <1>0, <1>1, <2>1, <2>4 DEF InitialStage
  <2> QED BY <2>2, <2>3, <2>4
<1>3. CASE ~(render = "initial" /\ turn > 0)
  <2>1. ctl' = AdvanceStage(ctl, turn + 2) /\ (turn > 0 => NothingRunnable)
    BY <1>3 DEF StageTask
  <2>2. ~ctl.abandonAborted
    BY <1>0, <1>3, StageNumbers DEF ControllerOf
  <2> QED BY <1>0, <1>1, <1>3, <2>1, <2>2
<1> QED BY <1>2, <1>3

LEMMA ControllerOfStep ==
  ASSUME IInv, NoStale, ControllerOf(ctl, render, turn), Quiet, [Next]_vars
  PROVE  ControllerOf(ctl', render', turn')
<1>0. TypeOK /\ TaskShape
  BY DEF IInv
<1>1. ASSUME NEW t \in Tasks, ReadStep(t) \/ OtherStep(t) PROVE ControllerOf(ctl', render', turn')
  <2>1. UNCHANGED <<turn, render>> /\ (ctl' = ctl \/ DoesSyncIO(t) \/ Initializes(t))
    BY <1>0, <1>1, ReadEffects, OtherEffects, OtherTasks
    DEF OtherOutcome, BeginsWait, EndsWait, BeginsIO, EndsIO
  <2> QED BY <1>0, <2>1, SyncEffect
<1>2. CASE StageTask
  BY <1>0, <1>2, StageTaskEffect DEF StageTask
<1>3. CASE TasksDone
  <2>1. turn = 5 /\ turn' = 6 /\ UNCHANGED <<ctl, render>>
    BY <1>3 DEF TasksDone
  <2> QED BY <2>1, StageNumbers DEF ControllerOf
<1>4. CASE Restart
  <2>1. render' = "final" /\ turn' = 0 /\ ctl' = Controller(FALSE, FALSE)
    BY <1>4 DEF Restart
  <2>2. PICK c : c = Controller(FALSE, FALSE)
    OBVIOUS
  <2>3. /\ c.stage = 1 /\ c.open = {} /\ c.interrupted = FALSE
        /\ c.abortable = FALSE /\ c.abandonable = FALSE /\ c.abandonAborted = FALSE
    BY <2>2, StageNumbers DEF Controller
  <2>4. Open(1) = {}
    BY StageNumbers DEF Open
  <2>5. ControllerOf(c, "final", 0)
    <3>1. /\ c.abortable = ("final" = "initial") /\ c.abandonable = ("final" = "initial")
          /\ ~c.abandonAborted /\ ~c.interrupted
      BY <2>3, Zenon
    <3>2. c.stage # Abandoned /\ c.stage = Before /\ c.open = Open(c.stage)
      BY <2>3, <2>4, StageNumbers
    <3> QED BY <3>1, <3>2, StageNumbers DEF ControllerOf
  <2> QED BY <2>1, <2>2, <2>5
<1>5. CASE UNCHANGED <<ctl, render, turn>>
  BY <1>5
<1> QED BY <1>1, <1>2, <1>3, <1>4, <1>5, NextCases DEF EndGeneration, vars

-----------------------------------------------------------------------------
\* The operation that a task has come to.
LEMMA OpFacts ==
  ASSUME TypeOK, NEW t \in Tasks, Left(t)
  PROVE  /\ at[t] \in 1 .. Len(program[t]) /\ Op(t) \in Ops
         /\ Ideal(t, at[t] - 1) \in EarlyStatic .. Dynamic
         /\ Ideal(t, at[t]) \in Ideal(t, at[t] - 1) .. Dynamic
         /\ Op(t).do = "wait" =>
              Ideal(t, at[t]) = IF Op(t).stage > Ideal(t, at[t] - 1) THEN Op(t).stage
                                ELSE Ideal(t, at[t] - 1)
         /\ Op(t).do = "io" => Ideal(t, at[t]) = Dynamic
         /\ Op(t).do \in {"syncIO", "lazyInit"} => Ideal(t, at[t]) = Ideal(t, at[t] - 1)
         /\ Op(t).do = "read" =>
              /\ Life[Key(t)] = "long" => Ideal(t, at[t]) = Ideal(t, at[t] - 1)
              /\ Life[Key(t)] = "short" =>
                   Ideal(t, at[t]) = IF Ideal(t, at[t] - 1) \in {EarlyStatic, EarlyRuntime} THEN EarlyRuntime
                                     ELSE IF Ideal(t, at[t] - 1) = Static THEN Runtime
                                     ELSE Ideal(t, at[t] - 1)
              /\ Life[Key(t)] \notin {"long", "short"} => Ideal(t, at[t]) = Dynamic
<1>1. at[t] \in 1 .. Len(program[t])
  BY IdealFacts DEF TypeOK, Left
<1>2. PICK s : s = Ideal(t, at[t] - 1)
  OBVIOUS
<1>3. PICK op : op = Op(t)
  OBVIOUS
<1>4. op \in Ops /\ s \in EarlyStatic .. Dynamic /\ Ideal(t, at[t]) = StageAfter(s, op)
  BY <1>1, <1>2, <1>3, IdealFacts DEF Op
<1>5. Op(t).do = "read" => op.key = Key(t)
  BY <1>3 DEF Key
<1> HIDE DEF Ops
<1> QED BY <1>1, <1>2, <1>3, <1>4, <1>5, StageAfterFacts

\* A step of a task, and what it leaves.
LEMMA TaskStep ==
  ASSUME IInv, NoStale, Quiet, NEW t \in Tasks, ReadStep(t) \/ OtherStep(t)
  PROVE  /\ UNCHANGED <<program, render, turn, handler>> /\ turn \in 1 .. 6
         /\ \A u \in Tasks \ {t} : at'[u] = at[u] /\ pc'[u] = pc[u] /\ until'[u] = until[u]
         /\ \/ /\ At(t, "read") /\ Key(t) \in Keys
               /\ UNCHANGED <<ctl, initialized>> /\ ReadOutcome(t)
            \/ UNCHANGED <<rdc, filling>> /\ OtherOutcome(t)
<1>0. TypeOK /\ TaskShape /\ turn \in 0 .. 6
  BY DEF IInv, TypeOK
<1>1. turn \in 1 .. 6
  BY <1>0, StartedStep
<1>2. UNCHANGED <<program, render>> /\ \A u \in Tasks \ {t} : at'[u] = at[u] /\ pc'[u] = pc[u] /\ until'[u] = until[u]
  BY <1>0, OtherTasks
<1>3. CASE ReadStep(t)
  BY <1>0, <1>1, <1>2, <1>3, ReadEffects
<1>4. CASE OtherStep(t)
  BY <1>0, <1>1, <1>2, <1>4, OtherEffects
<1> QED BY <1>3, <1>4

\* The RDC keeps what it has; the final render does not write it.
LEMMA RdcStep ==
  ASSUME IInv, NoStale, Quiet, NEW t \in Tasks, ReadStep(t) \/ OtherStep(t)
  PROVE  /\ \A k \in Keys : rdc[k] # "none" => rdc'[k] # "none"
         /\ render = "final" => rdc' = rdc
         /\ initialized => initialized'
<1>1. \A k \in Keys : rdc[k] # "none" => rdc'[k] # "none"
  BY FillStep DEF IInv
<1>2. render = "final" => rdc' = rdc
  BY TaskStep DEF ReadOutcome, FindsEntry, AsksHandler, IsDelayed, UsesEntry, Generates, IsStarted, HasArrived
<1>3. initialized => initialized'
  BY TaskStep DEF OtherOutcome, BeginsWait, EndsWait, DoesSyncIO, Initializes, BeginsIO, EndsIO
<1> QED BY <1>1, <1>2, <1>3

\* No read is open.
LEMMA NoneOpen ==
  ASSUME IInv, render = "initial", count = 0
  PROVE  /\ \A t \in Tasks : ~ReadOpen(t)
         /\ \A f \in filling : ~f.endsRead
<1>1. /\ IsFiniteSet(OpenTasks) /\ Cardinality(OpenTasks) \in Nat
      /\ IsFiniteSet(OpenFills) /\ Cardinality(OpenFills) \in Nat
  BY OpenFinite DEF IInv
<1>2. Cardinality(OpenTasks) + Cardinality(OpenFills) = 0
  BY DEF IInv, CountsAgree, OpenTasks, OpenFills
<1>3. OpenTasks = {} /\ OpenFills = {}
  BY <1>1, <1>2, FS_EmptySet
<1> QED BY <1>3 DEF OpenTasks, OpenFills

LEMMA QuietStep ==
  ASSUME IInv, NoStale, Quiet, [Next]_vars
  PROVE  Quiet'
<1>0. turn \in 0 .. 6 /\ render \in {"initial", "final"}
  BY DEF IInv, TypeOK
<1>1. ASSUME NEW t \in Tasks, ReadStep(t) \/ OtherStep(t) PROVE Quiet'
  <2>1. /\ UNCHANGED <<render, turn>> /\ turn \in 1 .. 6 /\ \A u \in Tasks \ {t} : pc'[u] = pc[u]
        /\ ReadOutcome(t) \/ (UNCHANGED filling /\ OtherOutcome(t))
    BY <1>1, TaskStep
  <2>2. \/ filling' = filling \/ render = "final"
        \/ turn = 6 /\ filling' = filling \cup {FillOf(t, TRUE)}
    <3>1. Generates(t) => filling' = filling \/ render # "initial"
      BY Zenon DEF Generates
    <3>2. IsStarted(t) => IOTurn /\ filling' = filling \cup {FillOf(t, TRUE)}
      BY Zenon DEF IsStarted
    <3>3. FindsEntry(t) \/ AsksHandler(t) \/ IsDelayed(t) \/ UsesEntry(t) \/ HasArrived(t) => filling' = filling
      BY DEF FindsEntry, AsksHandler, IsDelayed, UsesEntry, HasArrived
    <3>4. IOTurn => turn = 6
      BY <2>1 DEF IOTurn
    <3> QED BY <1>0, <2>1, <3>1, <3>2, <3>3, <3>4, Zenon DEF ReadOutcome
  <2>3. render = "initial" /\ turn < 6 => pc'[t] # "stream"
    <3>1. CASE OtherOutcome(t)
      BY <3>1 DEF OtherOutcome, BeginsWait, EndsWait, DoesSyncIO, Initializes, BeginsIO, EndsIO, Passes, Comes
    <3>2. CASE FindsEntry(t) \/ AsksHandler(t) \/ IsDelayed(t) \/ UsesEntry(t) \/ HasArrived(t)
      BY <3>2 DEF FindsEntry, AsksHandler, IsDelayed, UsesEntry, HasArrived, Passes, Comes
    <3>3. CASE Generates(t) \/ IsStarted(t)
      <4>1. Generates(t) => (render = "initial" => Comes(t, "timer"))
        BY Zenon DEF Generates
      <4>2. IsStarted(t) => IOTurn
        BY Zenon DEF IsStarted
      <4> QED BY <2>1, <3>3, <4>1, <4>2 DEF Comes, IOTurn
    <3> QED BY <2>1, <3>1, <3>2, <3>3 DEF ReadOutcome
  <2> QED BY <2>1, <2>2, <2>3 DEF Quiet, FillOf
<1>2. ASSUME NEW f \in filling, EndGeneration(f) PROVE Quiet'
  BY <1>2 DEF EndGeneration, Quiet, taskVars
<1>3. CASE StageTask \/ TasksDone
  BY <1>0, <1>3 DEF StageTask, TasksDone, Quiet, cacheVars, taskVars
<1>4. CASE Restart
  <2>1. filling = {}
    BY <1>4, NoneOpen DEF Restart, Quiet
  <2> QED BY <1>4, <2>1 DEF Restart, Quiet, cacheVars
<1>5. CASE UNCHANGED vars
  BY <1>5 DEF Quiet, vars, cacheVars, taskVars
<1> QED BY <1>1, <1>2, <1>3, <1>4, <1>5, NextCases

-----------------------------------------------------------------------------
(* What has been read is in the RDC, and what the final render reads.      *)
\* What awaits an entry, the handler or a stream reads one of the cached functions.
LEMMA ReadKey ==
  ASSUME IInv, NEW t \in Tasks, pc[t] \in {"entry", "got", "get", "timer", "stream"}
  PROVE  Left(t) /\ At(t, "read") /\ Key(t) \in Keys
<1>1. At(t, "read")
  BY DEF IInv, TaskShape, ShapeOf
<1> QED BY <1>1, OpType DEF IInv, At, Left

LEMMA PastOps ==
  ASSUME IInv, NEW t \in Tasks, NEW i \in 1 .. at[t] - 1
  PROVE  i \in 1 .. Len(program[t]) /\ (program[t][i].do = "read" => program[t][i].key \in Keys)
<1>1. program[t] \in Seq(Ops) /\ at[t] \in Nat /\ Len(program[t]) \in Nat
  BY DEF IInv, TypeOK
<1>2. i \in 1 .. Len(program[t])
  BY <1>1 DEF IInv, Waited
<1>3. program[t][i] \in Ops
  BY <1>1, <1>2
<1> QED BY <1>2, <1>3 DEF Ops

\* The same in the next state, of a task that does not move.
LEMMA ReadShapeKept ==
  ASSUME IInv, NEW t \in Tasks, ReadShape(t), UNCHANGED <<program, render>>,
         at'[t] = at[t], pc'[t] = pc[t],
         \A k \in Keys : rdc[k] # "none" => rdc'[k] # "none", render = "final" => rdc' = rdc,
         initialized => initialized'
  PROVE  ReadShape(t)'
<1>1. Key(t)' = Key(t) /\ render \in {"initial", "final"}
  BY DEF Key, Op, IInv, TypeOK
<1>2. /\ pc'[t] = "entry" => rdc'[Key(t)] # "none"
      /\ pc'[t] = "stream" => (rdc'[Key(t)] = "none" <=> render = "final")
      /\ pc'[t] \in {"got", "get"} /\ render = "final" => rdc'[Key(t)] = "none"
  BY <1>1, ReadKey DEF ReadShape
<1>3. ASSUME render = "initial", NEW i \in 1 .. at[t] - 1
      PROVE  /\ program[t][i].do = "read" => rdc'[program[t][i].key] # "none"
             /\ program[t][i].do = "lazyInit" => initialized'
  BY <1>3, PastOps DEF ReadShape
<1> QED BY <1>1, <1>2, <1>3 DEF ReadShape

\* And of one that does.
LEMMA ReadShapeMoved ==
  ASSUME IInv, NoStale, Quiet, NEW t \in Tasks, ReadShape(t), ReadStep(t) \/ OtherStep(t)
  PROVE  ReadShape(t)'
<1>0. /\ UNCHANGED <<program, render>> /\ turn \in 1 .. 6
      /\ \A k \in Keys : rdc[k] # "none" => rdc'[k] # "none"
      /\ render = "final" => rdc' = rdc
      /\ initialized => initialized'
      /\ at[t] \in Nat \ {0} /\ render \in {"initial", "final"}
  BY TaskStep, RdcStep DEF IInv, TypeOK
<1>1. ASSUME NEW i \in 1 .. at[t] - 1, render = "initial"
      PROVE  /\ program[t][i].do = "read" => rdc'[program[t][i].key] # "none"
             /\ program[t][i].do = "lazyInit" => initialized'
  BY <1>0, <1>1, PastOps DEF ReadShape
<1>2. ASSUME Passes(t), render = "initial" => (Op(t).do = "read" => rdc'[Op(t).key] # "none")
                                             /\ (Op(t).do = "lazyInit" => initialized')
      PROVE  ReadShape(t)'
  <2>1. pc'[t] = "ready" /\ at'[t] = at[t] + 1
    BY <1>2 DEF Passes
  <2>2. ASSUME NEW i \in 1 .. at'[t] - 1, render = "initial"
        PROVE  /\ program[t][i].do = "read" => rdc'[program[t][i].key] # "none"
               /\ program[t][i].do = "lazyInit" => initialized'
    <3>1. i \in 1 .. at[t] - 1 \/ i = at[t]
      BY <1>0, <2>1
    <3> QED BY <1>1, <1>2, <2>2, <3>1 DEF Op
  <2> QED BY <1>0, <2>1, <2>2 DEF ReadShape
<1>3. ASSUME NEW what, Comes(t, what),
             /\ what = "entry" => rdc'[Key(t)] # "none"
             /\ what = "stream" => (rdc'[Key(t)] = "none" <=> render = "final")
             /\ what \in {"got", "get"} /\ render = "final" => rdc'[Key(t)] = "none"
      PROVE  ReadShape(t)'
  <2>1. pc'[t] = what /\ at'[t] = at[t] /\ Key(t)' = Key(t)
    BY <1>0, <1>3 DEF Comes, Key, Op
  <2> QED BY <1>0, <1>1, <1>3, <2>1 DEF ReadShape
<1>4. CASE At(t, "read") /\ ReadOutcome(t)
  <2>0. Op(t).do = "read" /\ Op(t).key = Key(t) /\ Key(t) \in Keys
    BY <1>4, OpType DEF At, Key, IInv
  <2>1. CASE FindsEntry(t)
    BY <1>3, <2>1 DEF FindsEntry
  <2>2. CASE AsksHandler(t)
    BY <1>3, <2>2 DEF AsksHandler
  <2>3. CASE IsDelayed(t)
    BY <1>3, <2>3 DEF IsDelayed
  <2>4. CASE UsesEntry(t)
    BY <1>2, <2>0, <2>4 DEF UsesEntry
  <2>5. CASE Generates(t)
    <3>1. pc[t] \in {"got", "get"} /\ rdc' = rdc
      BY <2>5 DEF Generates
    <3>2. CASE render = "initial"
      <4>1. Comes(t, "timer")
        BY <2>5, <3>2, Zenon DEF Generates
      <4> QED BY <1>3, <4>1
    <3>3. CASE render = "final"
      <4>1. Comes(t, "stream")
        BY <2>5, <3>3 DEF Generates
      <4>2. rdc[Key(t)] = "none"
        BY <3>1, <3>3 DEF ReadShape
      <4> QED BY <1>3, <3>1, <3>3, <4>1, <4>2
    <3> QED BY <1>0, <3>2, <3>3
  <2>6. CASE IsStarted(t)
    <3>1. Comes(t, "stream") /\ rdc'[Key(t)] # "none" /\ render = "initial"
      BY <2>6, Zenon DEF IsStarted
    <3> QED BY <1>3, <3>1
  <2>7. CASE HasArrived(t)
    <3>1. pc[t] = "stream" /\ Passes(t) /\ rdc' = rdc
      BY <2>7 DEF HasArrived
    <3> QED BY <1>2, <2>0, <3>1 DEF ReadShape
  <2> QED BY <1>4, <2>1, <2>2, <2>3, <2>4, <2>5, <2>6, <2>7 DEF ReadOutcome
<1>5. CASE OtherOutcome(t)
  <2>1. CASE BeginsWait(t) \/ BeginsIO(t)
    BY <1>3, <2>1 DEF BeginsWait, BeginsIO
  <2>2. CASE EndsWait(t) \/ DoesSyncIO(t) \/ EndsIO(t)
    <3>1. Passes(t) /\ Op(t).do \in {"wait", "syncIO", "io"}
      BY <2>2 DEF EndsWait, DoesSyncIO, EndsIO, At
    <3> QED BY <1>2, <3>1
  <2>3. CASE Initializes(t)
    <3>1. Passes(t) /\ Op(t).do = "lazyInit" /\ initialized'
      BY <2>3 DEF Initializes, At
    <3> QED BY <1>2, <3>1
  <2> QED BY <1>5, <2>1, <2>2, <2>3 DEF OtherOutcome
<1> QED BY <1>4, <1>5, TaskStep

LEMMA ReadShapeStep ==
  ASSUME IInv, NoStale, Quiet, \A t \in Tasks : ReadShape(t), [Next]_vars, NEW u \in Tasks
  PROVE  ReadShape(u)'
<1>1. ASSUME NEW t \in Tasks, ReadStep(t) \/ OtherStep(t) PROVE ReadShape(u)'
  <2>1. CASE u = t
    BY <1>1, <2>1, ReadShapeMoved
  <2>2. CASE u # t
    BY <1>1, <2>2, TaskStep, RdcStep, ReadShapeKept
  <2> QED BY <2>1, <2>2
<1>2. CASE Restart
  <2>1. at'[u] = 1 /\ pc'[u] = "ready" /\ render' = "final"
    BY <1>2 DEF Restart
  <2> QED BY <2>1 DEF ReadShape
<1>3. CASE UNCHANGED <<program, render, at, pc, rdc, initialized>>
  BY <1>3, ReadShapeKept
<1> QED
  BY <1>1, <1>2, <1>3, NextCases DEF EndGeneration, StageTask, TasksDone, vars, cacheVars, taskVars

\* When the caches are ready that an abandoned render fills, a task that has not
\* come to its end awaits what only the dynamic stage has.
CachesReady ==
  render = "initial" /\ turn = 6 /\ ctl.stage = Abandoned /\ count = 0 /\ NothingRunnable

LEMMA AwaitsDynamic ==
  ASSUME IInv, Quiet, ControllerOf(ctl, render, turn), NEW t \in Tasks, CachesReady, Left(t)
  PROVE  /\ Ideal(t, at[t]) = Dynamic /\ Op(t).do \in {"wait", "io"}
         /\ WaitsForDynamic(t, at[t]) \/ pc[t] = "io"
<1>0. /\ TypeOK /\ pc[t] \in PCs /\ render = "initial" /\ turn = 6 /\ ctl.stage = Abandoned /\ count = 0
      /\ ~Runnable(t) /\ until[t] \in Advanceable
  BY DEF IInv, TypeOK, CachesReady, NothingRunnable
<1>1. ~ReadOpen(t) /\ filling = {}
  BY <1>0, NoneOpen DEF Quiet
<1>2. pc[t] \notin {"ready", "got", "entry", "get", "timer"}
  BY <1>0, <1>1 DEF Runnable, ReadOpen, Left
<1>3. pc[t] # "stream"
  BY <1>0, <1>1 DEF Runnable, AwaitsFill, Left
<1>4. CASE pc[t] = "io"
  BY <1>0, <1>4, OpFacts DEF IInv, TaskShape, ShapeOf, At
<1>5. CASE pc[t] = "stage"
  <2>1. until[t] \notin ctl.open /\ At(t, "wait") /\ until[t] = Op(t).stage
    BY <1>0, <1>1, <1>5 DEF Runnable, ReadOpen, Left, IInv, TaskShape, ShapeOf
  <2>2. Op(t).stage = Dynamic
    BY <1>0, <2>1, StageNumbers DEF ControllerOf, Open
  <2>3. WaitsForDynamic(t, at[t])
    BY <2>1, <2>2 DEF At, Op, WaitsForDynamic
  <2> QED BY <1>0, <2>1, <2>2, <2>3, OpFacts, StageNumbers DEF At
<1> QED BY <1>0, <1>2, <1>3, <1>4, <1>5 DEF PCs

LEMMA WarmRenderStep ==
  ASSUME IInv, NoStale, Quiet, ControllerOf(ctl, render, turn), \A t \in Tasks : ReadShape(t),
         WarmRender, [Next]_vars
  PROVE  WarmRender'
<1>0. TypeOK /\ filling \subseteq [key : Keys, by : Tasks, endsRead : BOOLEAN]
  BY DEF IInv, TypeOK
<1>1. program' = program
  BY NextCases, TaskStep
  DEF EndGeneration, StageTask, TasksDone, Restart, vars
<1>2. \A t \in Tasks : \A i : Ideal(t, i)' = Ideal(t, i)
  BY <1>1 DEF Ideal
<1>3. ASSUME render' = "final", render = "final", rdc' = rdc, initialized => initialized',
             \A f \in filling' : rdc[f.key] = "none"
      PROVE  WarmRender'
  BY <1>1, <1>2, <1>3 DEF WarmRender
<1>4. ASSUME NEW t \in Tasks, ReadStep(t) \/ OtherStep(t) PROVE WarmRender'
  <2>1. render' = render /\ (render = "final" => rdc' = rdc) /\ (initialized => initialized')
    BY <1>4, TaskStep, RdcStep
  <2>2. ASSUME render = "final" PROVE \A f \in filling' : rdc[f.key] = "none"
    <3>1. filling' = filling \/ Generates(t) \/ IsStarted(t)
      BY <1>4, TaskStep DEF ReadOutcome, FindsEntry, AsksHandler, IsDelayed, UsesEntry, HasArrived
    <3>2. ~IsStarted(t)
      BY <2>2 DEF IsStarted
    <3>3. Generates(t) => rdc[Key(t)] = "none" /\ filling' = filling \cup {FillOf(t, FALSE)}
      BY <2>2 DEF Generates, ReadShape
    <3>4. FillOf(t, FALSE).key = Key(t)
      BY DEF FillOf
    <3> QED BY <2>2, <3>1, <3>2, <3>3, <3>4 DEF WarmRender
  <2> QED BY <1>3, <2>1, <2>2 DEF WarmRender
<1>5. ASSUME NEW f \in filling, EndGeneration(f) PROVE WarmRender'
  <2>1. UNCHANGED <<render, rdc, initialized>> /\ filling' \subseteq filling
    BY <1>5 DEF EndGeneration
  <2> QED BY <1>3, <2>1 DEF WarmRender
<1>6. CASE Restart
  <2>1. UNCHANGED <<rdc, filling, initialized>> /\ filling = {} /\ render = "initial"
    BY <1>6, NoneOpen DEF Restart, Quiet, cacheVars
  <2>2. ASSUME NEW t \in Tasks, NEW i \in 1 .. Len(program[t])
        PROVE  /\ program[t][i].do = "read" /\ Ideal(t, i - 1) # Dynamic => rdc[program[t][i].key] # "none"
               /\ program[t][i].do = "lazyInit" /\ Ideal(t, i) # Dynamic => initialized
    <3>0. at[t] \in Nat \ {0} /\ Len(program[t]) \in Nat /\ CachesReady
      BY <1>0, <1>6, IdealFacts DEF TypeOK, Restart, CachesReady
    <3>1. CASE i < at[t]
      BY <2>1, <3>0, <3>1 DEF ReadShape
    <3>2. CASE i = at[t]
      <4>1. Left(t) /\ Op(t) = program[t][i]
        BY <3>2 DEF Left, Op
      <4> QED BY <3>0, <4>1, AwaitsDynamic
    <3>3. CASE i > at[t]
      <4>1. Left(t)
        BY <3>0, <3>3 DEF Left
      <4>2. Ideal(t, at[t]) = Dynamic
        BY <3>0, <4>1, AwaitsDynamic
      <4>3. /\ at[t] \in 0 .. Len(program[t]) /\ i - 1 \in 0 .. Len(program[t]) /\ i \in 0 .. Len(program[t])
            /\ at[t] <= i - 1 /\ at[t] <= i
        BY <3>0, <3>3
      <4>4. Ideal(t, i - 1) >= Dynamic /\ Ideal(t, i) >= Dynamic
            /\ Ideal(t, i - 1) \in EarlyStatic .. Dynamic /\ Ideal(t, i) \in EarlyStatic .. Dynamic
        BY <1>0, <4>2, <4>3, IdealFacts
      <4> QED BY <4>4, StageNumbers
    <3> QED BY <3>0, <3>1, <3>2, <3>3
  <2> QED BY <1>1, <1>2, <2>1, <2>2 DEF WarmRender
<1>7. CASE UNCHANGED <<render, rdc, filling, initialized>>
  BY <1>3, <1>7 DEF WarmRender
<1> QED
  BY <1>4, <1>5, <1>6, <1>7, NextCases DEF StageTask, TasksDone, vars, cacheVars

-----------------------------------------------------------------------------
(* At the end of a stage.                                                  *)
\* A task that can do no more awaits a later stage; but a read that is open
\* may hold it back in the initial render.
LEMMA Settled ==
  ASSUME IInv, Quiet, ControllerOf(ctl, render, turn), WarmRender, NEW t \in Tasks,
         ReadShape(t), InStage(t), NothingRunnable, turn > 0, ctl.stage < Dynamic,
         render = "final" \/ count = 0, Left(t)
  PROVE  pc[t] \in {"stage", "io"} /\ Ideal(t, at[t]) > ctl.stage
<1>0. /\ TypeOK /\ pc[t] \in PCs /\ render \in {"initial", "final"} /\ turn \in 0 .. 6
      /\ ~Runnable(t) /\ until[t] \in Advanceable /\ ctl \in Controllers
  BY DEF IInv, TypeOK, NothingRunnable
<1>1. ctl.stage \in EarlyStatic .. Runtime /\ turn < 6 /\ ctl.stage = turn + 1
  BY <1>0, StageNumbers DEF ControllerOf
<1>2. ASSUME pc[t] \in {"got", "get", "stream"}, render = "final" PROVE FALSE
  <2>1. rdc[Key(t)] = "none" /\ At(t, "read")
    BY <1>2, ReadKey DEF ReadShape
  <2>2. Ideal(t, at[t] - 1) # Dynamic
    BY <1>1, <1>2, StageNumbers DEF InStage
  <2>3. at[t] \in 1 .. Len(program[t])
    BY <1>0, OpFacts
  <2> QED BY <1>2, <2>1, <2>2, <2>3 DEF WarmRender, At, Key, Op
<1>3. ASSUME pc[t] = "entry" PROVE Resolved(Key(t), held[t])
  <2>1. CASE render = "initial"
    BY <1>1, <2>1 DEF Quiet, Resolved
  <2>2. CASE render = "final"
    BY <1>3, <2>2 DEF WarmRender, ReadShape, Resolved
  <2> QED BY <1>0, <2>1, <2>2
<1>4. pc[t] \notin {"ready", "got", "entry"}
  BY <1>0, <1>3 DEF Runnable, Left
<1>5. pc[t] # "timer" /\ (pc[t] = "get" => render = "final")
  <2>1. pc[t] = "timer" => render = "initial"
    BY DEF IInv, TaskShape, ShapeOf
  <2>2. render = "initial" => pc[t] \notin {"timer", "get"}
    BY NoneOpen DEF ReadOpen
  <2> QED BY <1>0, <2>1, <2>2
<1>6. pc[t] = "stream" => render = "final"
  BY <1>0, <1>1 DEF Quiet
<1>7. pc[t] \in {"stage", "io"}
  BY <1>0, <1>2, <1>4, <1>5, <1>6 DEF PCs
<1>8. CASE pc[t] = "io"
  BY <1>0, <1>1, <1>8, OpFacts, StageNumbers DEF IInv, TaskShape, ShapeOf, At
<1>9. CASE pc[t] = "stage"
  <2>1. until[t] \notin ctl.open
    BY <1>0, <1>9 DEF Runnable, Left
  <2>2. until[t] > ctl.stage
    BY <1>0, <1>1, <2>1, StageNumbers DEF ControllerOf, Open
  <2>3. Ideal(t, at[t]) = IF until[t] > Ideal(t, at[t] - 1) THEN until[t] ELSE Ideal(t, at[t] - 1)
    BY <1>1, <1>9 DEF InStage
  <2>4. Ideal(t, at[t] - 1) \in Int
    BY <1>0, OpFacts, StageNumbers
  <2> QED BY <1>0, <1>1, <1>9, <2>2, <2>3, <2>4, StageNumbers
<1> QED BY <1>7, <1>8, <1>9

\* The same for the dynamic stage, which sync IO may have opened early.
LEMMA SettledDynamic ==
  ASSUME IInv, Quiet, ControllerOf(ctl, render, turn), WarmRender, NEW t \in Tasks,
         ReadShape(t), NothingRunnable, turn > 0, ctl.stage = Dynamic, render = "final", Left(t)
  PROVE  Ideal(t, at[t]) = Dynamic
<1>0. /\ TypeOK /\ pc[t] \in PCs /\ ~Runnable(t) /\ until[t] \in Advanceable
  BY DEF IInv, TypeOK, NothingRunnable
<1>1. pc[t] \notin {"ready", "got", "stage"}
  <2>1. ctl.open = Advanceable
    BY StageNumbers DEF ControllerOf, Open
  <2> QED BY <1>0, <2>1 DEF Runnable, Left
<1>2. pc[t] # "entry"
  <2>1. pc[t] = "entry" => Resolved(Key(t), held[t])
    BY DEF WarmRender, ReadShape, Resolved
  <2> QED BY <1>0, <2>1 DEF Runnable, Left
<1>3. pc[t] # "timer"
  BY DEF IInv, TaskShape, ShapeOf
<1>4. CASE pc[t] \in {"get", "stream"}
  <2>1. rdc[Key(t)] = "none" /\ At(t, "read")
    BY <1>4, ReadKey DEF ReadShape
  <2>2. at[t] \in 1 .. Len(program[t])
    BY <1>0, OpFacts
  <2>3. Ideal(t, at[t] - 1) = Dynamic
    BY <2>1, <2>2 DEF WarmRender, At, Key, Op
  <2> QED BY <1>0, <2>3, OpFacts, StageNumbers
<1>5. CASE pc[t] = "io"
  BY <1>0, <1>5, OpFacts DEF IInv, TaskShape, ShapeOf, At
<1> QED BY <1>0, <1>1, <1>2, <1>3, <1>4, <1>5 DEF PCs

-----------------------------------------------------------------------------
(* A step of a task, in its stage.                                         *)
\* It has done its operation in the stage that it was reached in.
LEMMA PassedInStage ==
  ASSUME IInv, Warmable, NoStale, HandlerShape, Quiet, ControllerOf(ctl, render, turn), WarmRender,
         NEW t \in Tasks, ReadShape(t), InStage(t), ReadStep(t) \/ OtherStep(t), Passes(t),
         ctl.stage < Dynamic
  PROVE  Ideal(t, at[t]) = ctl.stage
<1>0. /\ TypeOK /\ pc[t] \in PCs /\ render \in {"initial", "final"} /\ turn \in 1 .. 6
      /\ until[t] \in Advanceable /\ ctl \in Controllers
  BY TaskStep DEF IInv, TypeOK
<1>1. ctl.stage \in EarlyStatic .. Runtime /\ turn < 6 /\ ~IOTurn
  BY <1>0, StageNumbers DEF ControllerOf, IOTurn
<1>2. Left(t)
  BY TaskStep DEF At, Left, OtherOutcome, BeginsWait, EndsWait, DoesSyncIO, Initializes, BeginsIO, EndsIO
<1>3. /\ at[t] \in 1 .. Len(program[t]) /\ Ideal(t, at[t] - 1) \in EarlyStatic .. Dynamic
      /\ Ideal(t, at[t]) \in Ideal(t, at[t] - 1) .. Dynamic
  BY <1>0, <1>2, OpFacts
<1>4. pc[t] \notin {"stage", "io"} => Ideal(t, at[t] - 1) = ctl.stage
  BY <1>0, <1>1, <1>2 DEF InStage
<1>5. ASSUME pc[t] \in {"got", "get", "stream"}, render = "final" PROVE FALSE
  <2>1. rdc[Key(t)] = "none" /\ At(t, "read")
    BY <1>5, ReadKey DEF ReadShape
  <2>2. Ideal(t, at[t] - 1) # Dynamic
    BY <1>1, <1>4, <1>5, StageNumbers
  <2> QED BY <1>3, <1>5, <2>1, <2>2 DEF WarmRender, At, Key, Op
<1>6. ASSUME pc[t] = "stage", until[t] \in ctl.open PROVE Ideal(t, at[t]) = ctl.stage
  <2>1. until[t] <= ctl.stage
    BY <1>0, <1>1, <1>6, StageNumbers DEF ControllerOf, Open
  <2>2. /\ Ideal(t, at[t]) >= ctl.stage /\ Ideal(t, at[t] - 1) <= ctl.stage
        /\ Ideal(t, at[t]) = IF until[t] > Ideal(t, at[t] - 1) THEN until[t] ELSE Ideal(t, at[t] - 1)
    BY <1>0, <1>1, <1>2, <1>6 DEF InStage
  <2> QED BY <1>0, <1>1, <1>3, <2>1, <2>2, StageNumbers
<1>7. CASE At(t, "read") /\ Key(t) \in Keys /\ ReadOutcome(t)
  <2>1. Op(t).do = "read" /\ (Life[Key(t)] = "long" => Ideal(t, at[t]) = Ideal(t, at[t] - 1))
    BY <1>0, <1>2, <1>7, OpFacts DEF At
  <2>2. Life[Key(t)] \in {"long", "short", "shortStale"}
    BY <1>7, DevRenderAssumption
  <2>3. UsesEntry(t) \/ HasArrived(t)
    BY <1>7 DEF ReadOutcome, FindsEntry, AsksHandler, IsDelayed, Generates, IsStarted, Passes, Comes
  <2>4. CASE HasArrived(t)
    <3>1. pc[t] = "stream"
      BY <2>4 DEF HasArrived
    <3> QED BY <1>0, <1>1, <1>5, <3>1 DEF Quiet
  <2>5. CASE pc[t] = "entry" /\ Life[Key(t)] = "long"
    BY <1>4, <2>1, <2>5
  <2>6. CASE pc[t] \in {"got", "get"} /\ Life[Key(t)] # "short" /\ handler[Key(t)] = "fresh"
    <3>1. render = "initial"
      BY <1>0, <1>5, <2>6
    <3>2. "fresh" \in HandlerHas
      BY <1>1, <1>7, <2>6, <3>1 DEF HandlerShape
    <3>3. Life[Key(t)] = "long"
      BY <1>7, <2>2, <2>6, <3>2 DEF Warmable
    <3> QED BY <1>4, <2>1, <2>6, <3>3
  <2>7. CASE pc[t] = "stage" /\ until[t] \in ctl.open
    BY <1>6, <2>7
  <2> QED BY <2>3, <2>4, <2>5, <2>6, <2>7 DEF UsesEntry
<1>8. CASE OtherOutcome(t)
  <2>1. EndsWait(t) \/ DoesSyncIO(t) \/ Initializes(t)
    BY <1>1, <1>8 DEF OtherOutcome, BeginsWait, BeginsIO, EndsIO, Passes, Comes
  <2>2. CASE EndsWait(t)
    BY <1>6, <2>2 DEF EndsWait
  <2>3. CASE DoesSyncIO(t) \/ Initializes(t)
    <3>1. pc[t] = "ready" /\ Op(t).do \in {"syncIO", "lazyInit"}
      BY <2>3 DEF DoesSyncIO, Initializes, At
    <3> QED BY <1>0, <1>2, <1>4, <3>1, OpFacts
  <2> QED BY <2>1, <2>2, <2>3
<1> QED BY <1>7, <1>8, TaskStep

-----------------------------------------------------------------------------
\* It awaits something of the operation that it has come to.
LEMMA CameInStage ==
  ASSUME IInv, NoStale, Quiet, ControllerOf(ctl, render, turn),
         NEW t \in Tasks, InStage(t), ReadStep(t) \/ OtherStep(t), ~Passes(t), ctl.stage < Dynamic
  PROVE  /\ at'[t] = at[t] /\ Left(t) /\ Ideal(t, at[t] - 1) = ctl.stage
         /\ pc'[t] = "stage" =>
              Ideal(t, at[t]) = IF until'[t] > Ideal(t, at[t] - 1) THEN until'[t] ELSE Ideal(t, at[t] - 1)
<1>0. /\ TypeOK /\ render \in {"initial", "final"} /\ turn \in 1 .. 6 /\ ctl \in Controllers
  BY TaskStep DEF IInv, TypeOK
<1>1. ctl.stage \in EarlyStatic .. Runtime /\ turn < 6 /\ ~IOTurn
  BY <1>0, StageNumbers DEF ControllerOf, IOTurn
<1>2. Left(t)
  BY TaskStep DEF At, Left, OtherOutcome, BeginsWait, EndsWait, DoesSyncIO, Initializes, BeginsIO, EndsIO
<1>3. pc[t] \notin {"stage", "io"} => Ideal(t, at[t] - 1) = ctl.stage
  BY <1>0, <1>1, <1>2 DEF InStage
<1>4. CASE At(t, "read") /\ Key(t) \in Keys /\ ReadOutcome(t)
  <2>1. CASE IsDelayed(t)
    <3>1. /\ Ideal(t, at[t] - 1) = ctl.stage /\ pc'[t] = "stage" /\ at'[t] = at[t]
          /\ until'[t] = DelayStage(t) /\ Life[Key(t)] # "long"
      BY <1>3, <2>1 DEF IsDelayed, Comes
    <3>2. Op(t).do = "read"
      BY <1>4 DEF At
    <3>3. CASE Life[Key(t)] = "short"
      <4>1. Ideal(t, at[t]) = IF ctl.stage \in {EarlyStatic, EarlyRuntime} THEN EarlyRuntime
                              ELSE IF ctl.stage = Static THEN Runtime ELSE ctl.stage
        BY <1>0, <1>2, <3>1, <3>2, <3>3, OpFacts
      <4>2. until'[t] = GetRuntimeStage(ctl)
        BY <3>1, <3>3 DEF DelayStage
      <4> QED BY <1>1, <1>2, <3>1, <4>1, <4>2, StageNumbers DEF GetRuntimeStage
    <3>4. CASE Life[Key(t)] # "short"
      <4>1. Ideal(t, at[t]) = Dynamic
        BY <1>0, <1>2, <3>1, <3>2, <3>4, OpFacts
      <4>2. until'[t] = Dynamic
        BY <3>1, <3>4 DEF DelayStage
      <4> QED BY <1>1, <1>2, <3>1, <4>1, <4>2, StageNumbers
    <3> QED BY <3>3, <3>4
  <2>2. CASE FindsEntry(t) \/ AsksHandler(t) \/ Generates(t)
    <3>1. pc[t] \in {"ready", "got", "get"} /\ at'[t] = at[t] /\ pc'[t] # "stage"
      <4>1. FindsEntry(t) \/ AsksHandler(t) => pc[t] = "ready" /\ at'[t] = at[t] /\ pc'[t] # "stage"
        BY DEF FindsEntry, AsksHandler, Comes
      <4>2. Generates(t) => pc[t] \in {"got", "get"} /\ (Comes(t, "timer") \/ Comes(t, "stream"))
        BY Zenon DEF Generates
      <4> QED BY <2>2, <4>1, <4>2 DEF Comes
    <3> QED BY <1>2, <1>3, <3>1
  <2>3. ~IsStarted(t) /\ ~UsesEntry(t) /\ ~HasArrived(t)
    BY <1>1 DEF IsStarted, UsesEntry, HasArrived
  <2> QED BY <1>4, <2>1, <2>2, <2>3 DEF ReadOutcome
<1>5. CASE OtherOutcome(t)
  <2>1. CASE BeginsWait(t)
    <3>1. pc[t] = "ready" /\ at'[t] = at[t] /\ until'[t] = Op(t).stage /\ Op(t).do = "wait"
      BY <2>1 DEF BeginsWait, Comes, At
    <3> QED BY <1>0, <1>2, <1>3, <3>1, OpFacts
  <2>2. CASE BeginsIO(t)
    <3>1. pc[t] = "ready" /\ at'[t] = at[t] /\ pc'[t] = "io"
      BY <2>2 DEF BeginsIO, Comes
    <3> QED BY <1>2, <1>3, <3>1
  <2> QED BY <1>5, <2>1, <2>2 DEF OtherOutcome, EndsWait, DoesSyncIO, Initializes, EndsIO
<1> QED BY <1>4, <1>5, TaskStep

LEMMA StagedTask ==
  ASSUME IInv, Warmable, Staged, NEW t \in Tasks, ReadStep(t) \/ OtherStep(t), ctl' = ctl
  PROVE  InStage(t)' /\ InDynamic(t)'
<1>0. /\ TypeOK /\ turn \in 1 .. 6 /\ UNCHANGED <<program, turn>> /\ ctl \in Controllers
      /\ at[t] \in Nat \ {0}
  BY TaskStep DEF IInv, TypeOK, Staged, Steady
<1>1. \A i : Ideal(t, i)' = Ideal(t, i)
  BY <1>0 DEF Ideal
<1>2. ASSUME ctl.stage < Dynamic PROVE InStage(t)'
  <2>1. ReadShape(t) /\ InStage(t)
    BY DEF Staged, Steady
  <2>2. CASE Passes(t)
    <3>1. Ideal(t, at[t]) = ctl.stage
      BY <1>2, <2>1, <2>2, PassedInStage DEF Staged, Steady
    <3>2. at'[t] - 1 = at[t] /\ pc'[t] = "ready"
      BY <1>0, <2>2 DEF Passes
    <3> QED BY <1>0, <1>1, <3>1, <3>2, StageNumbers DEF InStage, Controllers
  <2>3. CASE ~Passes(t)
    <3>1. /\ at'[t] = at[t] /\ Left(t) /\ Ideal(t, at[t] - 1) = ctl.stage
          /\ pc'[t] = "stage" =>
               Ideal(t, at[t]) = IF until'[t] > Ideal(t, at[t] - 1) THEN until'[t] ELSE Ideal(t, at[t] - 1)
      BY <1>2, <2>1, <2>3, CameInStage DEF Staged, Steady
    <3>2. Ideal(t, at[t]) >= ctl.stage /\ ctl.stage <= ctl.stage
      BY <1>0, <3>1, OpFacts, StageNumbers DEF Controllers
    <3> QED BY <1>0, <1>1, <3>1, <3>2 DEF InStage
  <2> QED BY <2>2, <2>3
<1>3. ASSUME ctl.stage = Dynamic, ~ctl.interrupted PROVE InDynamic(t)'
  <2>1. Left(t)
    BY TaskStep DEF Staged, Steady, At, Left, OtherOutcome, BeginsWait, EndsWait, DoesSyncIO, Initializes, BeginsIO, EndsIO
  <2>2. Ideal(t, at[t]) = Dynamic
    BY <1>3, <2>1 DEF Staged, Steady, InDynamic
  <2>3. at'[t] \in {at[t], at[t] + 1}
    BY TaskStep
    DEF Staged, Steady, ReadOutcome, FindsEntry, AsksHandler, IsDelayed, UsesEntry, Generates, IsStarted, HasArrived,
        OtherOutcome, BeginsWait, EndsWait, DoesSyncIO, Initializes, BeginsIO, EndsIO, Passes, Comes
  <2>4. ASSUME at'[t] <= Len(program[t]) PROVE Ideal(t, at'[t]) = Dynamic
    <3>1. at[t] \in 0 .. Len(program[t]) /\ at'[t] \in 0 .. Len(program[t]) /\ at[t] <= at'[t]
      BY <1>0, <2>3, <2>4, IdealFacts
    <3> QED BY <1>0, <2>2, <3>1, IdealFacts, StageNumbers
  <2> QED BY <1>0, <1>1, <2>4 DEF InDynamic, Left
<1>4. InStage(t)'
  BY <1>2 DEF InStage
<1> QED BY <1>3, <1>4 DEF InDynamic

LEMMA InStageStep ==
  ASSUME IInv, Warmable, Staged, [Next]_vars, NEW u \in Tasks
  PROVE  InStage(u)' /\ InDynamic(u)'
<1>0. /\ TypeOK /\ turn \in 0 .. 6 /\ ctl \in Controllers /\ ControllerOf(ctl, render, turn)
      /\ InStage(u) /\ InDynamic(u) /\ ReadShape(u) /\ render \in {"initial", "final"}
  BY DEF IInv, TypeOK, Staged, Steady
<1>1. ASSUME UNCHANGED <<program, turn, ctl>>, at'[u] = at[u], pc'[u] = pc[u], until'[u] = until[u]
      PROVE  InStage(u)' /\ InDynamic(u)'
  BY <1>0, <1>1 DEF InStage, InDynamic, Left, Ideal
<1>2. ASSUME NEW t \in Tasks, ReadStep(t) \/ OtherStep(t) PROVE InStage(u)' /\ InDynamic(u)'
  <2>1. CASE ctl' = ctl
    <3>1. CASE u = t
      BY <1>2, <2>1, <3>1, StagedTask
    <3>2. CASE u # t
      BY <1>1, <1>2, <2>1, <3>2, TaskStep DEF Staged, Steady
    <3> QED BY <3>1, <3>2
  <2>2. CASE ctl' # ctl
    <3>1. DoesSyncIO(t) \/ Initializes(t)
      BY <1>2, <2>2, TaskStep DEF Staged, Steady, OtherOutcome, BeginsWait, EndsWait, BeginsIO, EndsIO
    <3>2. ctl'.stage = Abandoned \/ (ctl'.stage = Dynamic /\ ctl'.interrupted)
      BY <1>0, <2>2, <3>1, SyncEffect
    <3> QED BY <3>2, StageNumbers DEF InStage, InDynamic
  <2> QED BY <2>1, <2>2
<1>3. CASE StageTask
  <2>0. /\ UNCHANGED <<program, at, pc, until>> /\ turn \in 0 .. 4
        /\ \A i : Ideal(u, i)' = Ideal(u, i)
    BY <1>0, <1>3 DEF StageTask, taskVars, Ideal
  <2>1. CASE ctl' = ctl /\ (ctl.stage = Abandoned \/ ctl.interrupted)
    <3>1. ctl.stage \in {Dynamic, Abandoned} /\ (ctl.stage = Dynamic => ctl.interrupted)
      BY <1>0, <2>1, StageNumbers DEF ControllerOf
    <3> QED BY <2>1, <3>1, StageNumbers DEF InStage, InDynamic
  <2>2. CASE ctl'.stage = Abandoned
    BY <2>2, StageNumbers DEF InStage, InDynamic
  <2>3. CASE /\ ctl'.stage = turn + 2 /\ ctl.stage = turn + 1
             /\ turn > 0 => NothingRunnable /\ (render = "initial" => count = 0)
    <3>1. CASE turn = 0
      <4>1. at[u] = 1 /\ pc[u] = "ready" /\ ctl'.stage = EarlyStatic
        BY <2>3, <3>1, StageNumbers DEF Staged, Steady, Quiet
      <4>2. Ideal(u, at[u] - 1) = EarlyStatic
        BY <1>0, <4>1, IdealFacts
      <4> QED BY <2>0, <4>1, <4>2, StageNumbers DEF InStage, InDynamic
    <3>2. CASE turn > 0
      <4>1. NothingRunnable /\ (render = "final" \/ count = 0) /\ ctl.stage < Dynamic
        BY <1>0, <2>0, <2>3, <3>2, StageNumbers
      <4>2. Left(u) => pc[u] \in {"stage", "io"} /\ Ideal(u, at[u]) > ctl.stage
        BY <1>0, <3>2, <4>1, Settled DEF Staged, Steady
      <4>3. Left(u) => Ideal(u, at[u]) \in EarlyStatic .. Dynamic
        BY <1>0, OpFacts, StageNumbers
      <4>4. Ideal(u, at[u] - 1) <= ctl.stage
        BY <1>0, <3>2, <4>1 DEF InStage
      <4>5. Ideal(u, at[u] - 1) <= ctl'.stage
        <5>1. at[u] - 1 \in 0 .. Len(program[u])
          <6>1. at[u] \in Nat \ {0} /\ Len(program[u]) \in Nat
            BY <1>0, IdealFacts DEF TypeOK
          <6>2. at[u] - 1 \in 1 .. at[u] - 1 => at[u] - 1 <= Len(program[u])
            BY DEF IInv, Waited
          <6> QED BY <6>1, <6>2
        <5>2. Ideal(u, at[u] - 1) \in Int
          BY <1>0, <5>1, IdealFacts, StageNumbers
        <5> QED BY <2>0, <2>3, <4>4, <5>2
      <4>6. InStage(u)'
        <5>1. Left(u) => pc[u] \in {"stage", "io"} /\ Ideal(u, at[u]) >= ctl'.stage
          BY <2>0, <2>3, <4>2, <4>3, StageNumbers
        <5>2. pc[u] = "stage" =>
                Ideal(u, at[u]) = IF until[u] > Ideal(u, at[u] - 1) THEN until[u] ELSE Ideal(u, at[u] - 1)
          BY <1>0, <3>2, <4>1 DEF InStage
        <5>3. Left(u)' <=> Left(u)
          BY <2>0 DEF Left
        <5> QED BY <2>0, <4>5, <5>1, <5>2, <5>3 DEF InStage
      <4>7. InDynamic(u)'
        BY <2>0, <2>3, <4>2, <4>3, StageNumbers DEF InDynamic, Left
      <4> QED BY <4>6, <4>7
    <3> QED BY <2>0, <3>1, <3>2
  <2> QED BY <1>0, <1>3, <2>1, <2>2, <2>3, StageTaskEffect
<1>4. CASE TasksDone
  <2>1. UNCHANGED <<program, ctl, at>> /\ turn = 5 /\ (Left(u)' <=> Left(u))
    BY <1>4 DEF TasksDone, taskVars, Left
  <2>2. ctl.stage \in {Dynamic, Abandoned}
    BY <1>0, <2>1, StageNumbers DEF ControllerOf
  <2> QED BY <1>0, <2>1, <2>2, StageNumbers DEF InStage, InDynamic, Ideal
<1>5. CASE Restart
  <2>1. turn' = 0 /\ ctl'.stage = Before
    BY <1>5 DEF Restart, Controller
  <2> QED BY <2>1, StageNumbers DEF InStage, InDynamic
<1>6. CASE UNCHANGED <<program, turn, ctl, taskVars>>
  BY <1>1, <1>6 DEF taskVars
<1> QED BY <1>2, <1>3, <1>4, <1>5, <1>6, NextCases DEF EndGeneration, vars

-----------------------------------------------------------------------------
(* Sync IO.                                                                *)
\* What interrupts a render is an operation of the stage that it is in.
LEMMA InterruptsInStage ==
  ASSUME IInv, Staged, NEW t \in Tasks, ReadStep(t) \/ OtherStep(t), DoesSyncIO(t) \/ Initializes(t),
         ShouldTrackSyncInterrupt(ctl)
  PROVE  /\ at[t] \in 1 .. Len(program[t]) /\ Ideal(t, at[t]) = ctl.stage /\ ctl.stage <= EarlyRuntime
         /\ Initializes(t) /\ render = "final" => initialized
<1>0. /\ TypeOK /\ InStage(t) /\ turn \in 1 .. 6
  BY TaskStep DEF IInv, Staged, Steady
<1>1. ctl.stage \in EarlyStatic .. EarlyRuntime
  BY DEF ShouldTrackSyncInterrupt
<1>2. pc[t] = "ready" /\ Left(t) /\ Op(t).do \in {"syncIO", "lazyInit"}
  BY DEF DoesSyncIO, Initializes, At, Left
<1>3. Ideal(t, at[t] - 1) = ctl.stage
  BY <1>0, <1>1, <1>2, StageNumbers DEF InStage
<1>4. Ideal(t, at[t]) = ctl.stage /\ at[t] \in 1 .. Len(program[t])
  BY <1>0, <1>2, <1>3, OpFacts
<1>5. Initializes(t) /\ render = "final" => initialized
  <2>1. Initializes(t) => program[t][at[t]].do = "lazyInit"
    BY DEF Initializes, At, Op
  <2>2. Ideal(t, at[t]) # Dynamic
    BY <1>1, <1>4, StageNumbers
  <2> QED BY <1>4, <2>1, <2>2 DEF Staged, Steady, WarmRender
<1> QED BY <1>1, <1>4, <1>5, StageNumbers

LEMMA InterruptedStep ==
  ASSUME IInv, Staged, [Next]_vars
  PROVE  ctl'.interrupted => MeetsSyncIO'
<1>0. /\ TypeOK /\ ControllerOf(ctl, render, turn) /\ (ctl.interrupted => MeetsSyncIO)
      /\ ctl \in Controllers /\ render \in {"initial", "final"}
  BY DEF IInv, TypeOK, Staged, Steady
<1>1. ASSUME program' = program, MeetsSyncIO PROVE MeetsSyncIO'
  BY <1>1 DEF MeetsSyncIO
<1>2. ASSUME NEW t \in Tasks, ReadStep(t) \/ OtherStep(t), ctl'.interrupted PROVE MeetsSyncIO'
  <2>0. program' = program
    BY <1>2, TaskStep DEF Staged, Steady
  <2>1. CASE ctl' = ctl
    BY <1>0, <1>1, <1>2, <2>0, <2>1
  <2>2. CASE ctl' # ctl
    <3>1. DoesSyncIO(t) \/ Initializes(t)
      BY <1>2, <2>2, TaskStep DEF Staged, Steady, OtherOutcome, BeginsWait, EndsWait, BeginsIO, EndsIO
    <3>2. /\ ShouldTrackSyncInterrupt(ctl) /\ (DoesSyncIO(t) \/ ~initialized)
          /\ render = "final"
      BY <1>0, <1>2, <2>2, <3>1, SyncEffect
    <3>3. /\ at[t] \in 1 .. Len(program[t]) /\ Ideal(t, at[t]) = ctl.stage /\ ctl.stage <= EarlyRuntime
          /\ DoesSyncIO(t)
      BY <1>2, <3>1, <3>2, InterruptsInStage
    <3>4. program[t][at[t]].do = "syncIO"
      BY <3>3 DEF DoesSyncIO, At, Op
    <3> QED BY <1>1, <2>0, <3>3, <3>4 DEF MeetsSyncIO, Ideal
  <2> QED BY <2>1, <2>2
<1>3. ASSUME StageTask, ctl'.interrupted PROVE MeetsSyncIO'
  <2>1. ctl' = ctl /\ program' = program
    BY <1>0, <1>3, StageTaskEffect DEF StageTask
  <2> QED BY <1>0, <1>1, <1>3, <2>1
<1>4. CASE Restart
  BY <1>4 DEF Restart, Controller
<1>5. CASE UNCHANGED <<program, ctl>>
  BY <1>0, <1>1, <1>5
<1> QED BY <1>2, <1>3, <1>4, <1>5, NextCases DEF EndGeneration, TasksDone, vars

LEMMA SyncShapeStep ==
  ASSUME IInv, Staged, [Next]_vars, NEW u \in Tasks
  PROVE  SyncShape(u)'
<1>0. /\ TypeOK /\ ControllerOf(ctl, render, turn) /\ SyncShape(u) /\ InStage(u) /\ InDynamic(u)
      /\ ctl \in Controllers /\ render \in {"initial", "final"} /\ at[u] \in Nat \ {0}
      /\ turn \in 0 .. 6
  BY DEF IInv, TypeOK, Staged, Steady
<1>1. ASSUME UNCHANGED <<program>>, at'[u] = at[u],
             (ctl.stage = Abandoned \/ ctl.interrupted) => (ctl'.stage = Abandoned \/ ctl'.interrupted)
      PROVE  SyncShape(u)'
  BY <1>0, <1>1 DEF SyncShape, Ideal
<1>2. ASSUME NEW t \in Tasks, ReadStep(t) \/ OtherStep(t) PROVE SyncShape(u)'
  <2>1. ctl' = ctl \/ DoesSyncIO(t) \/ Initializes(t)
    BY <1>2, TaskStep DEF Staged, Steady, OtherOutcome, BeginsWait, EndsWait, BeginsIO, EndsIO
  <2>2. ctl.stage = Abandoned \/ ctl.interrupted => ctl' = ctl
    <3>1. ctl.stage = Abandoned \/ ctl.interrupted => ~ShouldTrackSyncInterrupt(ctl)
      BY <1>0, StageNumbers DEF ControllerOf, ShouldTrackSyncInterrupt
    <3> QED BY <1>0, <2>1, <3>1, SyncEffect
  <2>3. program' = program /\ turn \in 1 .. 6 /\ \A i : Ideal(u, i)' = Ideal(u, i)
    BY <1>2, TaskStep DEF Staged, Steady, Ideal
  <2>4. CASE at'[u] = at[u]
    BY <1>1, <2>2, <2>3, <2>4
  <2>5. CASE at'[u] # at[u]
    <3>1. u = t
      BY <1>2, <2>5, TaskStep DEF Staged, Steady
    <3>2. at'[u] = at[u] + 1 /\ Left(u)
      <4>1. at'[u] \in {at[u], at[u] + 1}
        BY <1>2, <3>1, TaskStep
        DEF Staged, Steady, ReadOutcome, FindsEntry, AsksHandler, IsDelayed, UsesEntry, Generates, IsStarted, HasArrived,
            OtherOutcome, BeginsWait, EndsWait, DoesSyncIO, Initializes, BeginsIO, EndsIO, Passes, Comes
      <4>2. Left(u)
        BY <1>2, <3>1, TaskStep
        DEF Staged, Steady, At, Left, OtherOutcome, BeginsWait, EndsWait, DoesSyncIO, Initializes, BeginsIO, EndsIO
      <4> QED BY <2>5, <4>1, <4>2
    <3>3. ASSUME program[u][at[u]].do = "syncIO", Ideal(u, at[u]) <= EarlyRuntime
          PROVE  ctl'.stage = Abandoned \/ ctl'.interrupted
      <4>1. DoesSyncIO(u) /\ Op(u).do = "syncIO" /\ pc[u] = "ready"
        BY <1>2, <3>1, <3>3, TaskStep
        DEF Staged, Steady, OtherOutcome, BeginsWait, EndsWait, DoesSyncIO, Initializes, BeginsIO, EndsIO, At, Op
      <4>2. Ideal(u, at[u] - 1) <= EarlyRuntime /\ Ideal(u, at[u]) = Ideal(u, at[u] - 1)
        BY <1>0, <3>2, <3>3, <4>1, OpFacts
      <4>3. CASE ctl.stage < Dynamic
        <5>1. ctl.stage = Ideal(u, at[u] - 1)
          BY <1>0, <2>3, <3>2, <4>1, <4>3 DEF InStage
        <5>2. ShouldTrackSyncInterrupt(ctl)
          BY <1>0, <2>3, <4>2, <5>1, StageNumbers DEF ShouldTrackSyncInterrupt, ControllerOf, Controllers
        <5>3. \E c \in Controllers : c = SyncInterrupt(ctl) /\ (c.stage = Abandoned \/ c.interrupted)
          BY <1>0, <2>3, <5>2, SyncInterruptShape
        <5> QED BY <4>1, <5>2, <5>3 DEF DoesSyncIO
      <4>4. CASE ctl.stage = Dynamic
        BY <1>0, <2>2, <3>2, <3>3, <4>4, StageNumbers DEF InDynamic
      <4>5. CASE ctl.stage = Abandoned
        BY <2>2, <4>5
      <4> QED BY <1>0, <4>3, <4>4, <4>5, StageNumbers DEF Controllers
    <3>4. ASSUME NEW i \in 1 .. at'[u] - 1, program[u][i].do = "syncIO", Ideal(u, i) <= EarlyRuntime
          PROVE  ctl'.stage = Abandoned \/ ctl'.interrupted
      <4>1. i \in 1 .. at[u] - 1 \/ i = at[u]
        BY <1>0, <3>2
      <4> QED BY <1>0, <2>2, <3>3, <3>4, <4>1 DEF SyncShape
    <3> QED BY <2>3, <3>4 DEF SyncShape
  <2> QED BY <2>4, <2>5
<1>3. CASE StageTask
  <2>1. UNCHANGED <<program, at>>
    BY <1>3 DEF StageTask, taskVars
  <2>2. (ctl.stage = Abandoned \/ ctl.interrupted) => (ctl'.stage = Abandoned \/ ctl'.interrupted)
    <3>1. turn \in 0 .. 4
      BY <1>0, <1>3 DEF StageTask
    <3>2. ctl.interrupted => ctl.stage = Dynamic
      BY <1>0 DEF ControllerOf
    <3> QED BY <1>0, <1>3, <3>1, <3>2, StageTaskEffect, StageNumbers
  <2> QED BY <1>1, <2>1, <2>2
<1>4. CASE Restart
  <2>1. at'[u] = 1
    BY <1>4 DEF Restart
  <2> QED BY <2>1 DEF SyncShape
<1>5. CASE UNCHANGED <<program, ctl, at>>
  BY <1>1, <1>5
<1> QED BY <1>2, <1>3, <1>4, <1>5, NextCases DEF EndGeneration, TasksDone, vars, taskVars

-----------------------------------------------------------------------------
LEMMA InitSteady == Init /\ "stale" \notin HandlerHas => Steady
<1> SUFFICES ASSUME Init, "stale" \notin HandlerHas PROVE Steady
  OBVIOUS
<1>1. /\ render = "initial" /\ turn = 0 /\ filling = {} /\ handler \in [Keys -> HandlerHas]
      /\ \A t \in Tasks : at[t] = 1 /\ pc[t] = "ready" /\ held[t] = "none"
  BY DEF Init, Start
<1>2. /\ ctl.stage = 1 /\ ctl.open = {} /\ ~ctl.interrupted /\ ctl.abortable = TRUE
      /\ ctl.abandonable = TRUE /\ ~ctl.abandonAborted
  BY StageNumbers DEF Init, Controller
<1>3. NoStale /\ Quiet
  BY <1>1 DEF NoStale, Quiet
<1>4. ControllerOf(ctl, render, turn)
  <2>1. Open(1) = {}
    BY StageNumbers DEF Open
  <2>2. ctl.abortable = (render = "initial") /\ ctl.abandonable = (render = "initial")
    BY <1>1, <1>2, Zenon
  <2>3. ctl.stage # Abandoned /\ ctl.stage = Before /\ ctl.open = Open(ctl.stage)
    BY <1>2, <2>1, StageNumbers
  <2> QED BY <1>1, <1>2, <2>2, <2>3, StageNumbers DEF ControllerOf
<1> QED BY <1>3, <1>4 DEF Steady

LEMMA NextSteady == IInv /\ Steady /\ [Next]_vars => Steady'
<1> SUFFICES ASSUME IInv, Steady, [Next]_vars PROVE Steady'
  OBVIOUS
<1>1. NoStale' /\ Quiet'
  BY NoStaleStep, QuietStep DEF Steady
<1>2. ControllerOf(ctl', render', turn')
  BY ControllerOfStep DEF Steady
<1> QED BY <1>1, <1>2 DEF Steady, ControllerOf

LEMMA SteadyInvariance == ASSUME "stale" \notin HandlerHas PROVE Spec => [](IInv /\ Steady)
<1>1. Init => IInv /\ Steady
  BY InitIInv, InitSteady
<1>2. IInv /\ Steady /\ [Next]_vars => (IInv /\ Steady)'
  BY NextIInv, NextSteady
<1> QED BY <1>1, <1>2, PTL DEF Spec

\* StagedRenderingController.abandonRenderImpl, and cacheReady: a component of an
\* abandoned render does nothing behind what awaits the dynamic stage, and when
\* the caches are ready it has come to that, to its end, or to I/O of its own.
THEOREM AbandonedStops ==
  ASSUME "stale" \notin HandlerHas PROVE Spec => []AbandonedStopsAtDynamic
<1>1. ASSUME IInv, Steady PROVE AbandonedStopsAtDynamic
  <2> SUFFICES ASSUME ctl.stage = Abandoned, NEW t \in Tasks
               PROVE  /\ \A i \in 1 .. at[t] - 1 : ~WaitsForDynamic(t, i)
                      /\ turn = 6 /\ NothingRunnable /\ count = 0 /\ at[t] <= Len(program[t]) =>
                           WaitsForDynamic(t, at[t]) \/ pc[t] = "io"
    BY DEF AbandonedStopsAtDynamic
  <2>1. \A i \in 1 .. at[t] - 1 : ~WaitsForDynamic(t, i)
    BY <1>1 DEF IInv, Safe, Waited, WaitsForDynamic
  <2>2. ASSUME turn = 6, NothingRunnable, count = 0, at[t] <= Len(program[t])
        PROVE  WaitsForDynamic(t, at[t]) \/ pc[t] = "io"
    <3>1. CachesReady /\ Left(t)
      BY <1>1, <2>2 DEF CachesReady, Left, Steady, ControllerOf
    <3> QED BY <1>1, <3>1, AwaitsDynamic DEF Steady
  <2> QED BY <2>1, <2>2
<1> QED BY <1>1, SteadyInvariance, PTL

-----------------------------------------------------------------------------
LEMMA InitStaged == Init /\ Warmable => Staged
<1> SUFFICES ASSUME Init, Warmable PROVE Staged
  OBVIOUS
<1>1. /\ render = "initial" /\ turn = 0 /\ handler \in [Keys -> HandlerHas] /\ ctl.stage = 1
      /\ ~ctl.interrupted /\ \A t \in Tasks : at[t] = 1 /\ pc[t] = "ready"
  BY StageNumbers DEF Init, Start, Controller
<1>2. Steady /\ HandlerShape
  BY <1>1, InitSteady DEF Warmable, HandlerShape
<1>3. ASSUME NEW t \in Tasks PROVE ReadShape(t) /\ InStage(t) /\ InDynamic(t) /\ SyncShape(t)
  BY <1>1, StageNumbers DEF ReadShape, InStage, InDynamic, SyncShape
<1>4. WarmRender
  BY <1>1 DEF WarmRender
<1> QED BY <1>1, <1>2, <1>3, <1>4 DEF Staged

LEMMA NextStaged == IInv /\ Warmable /\ Staged /\ [Next]_vars => Staged'
<1> SUFFICES ASSUME IInv, Warmable, Staged, [Next]_vars PROVE Staged'
  OBVIOUS
<1>0. /\ NoStale /\ HandlerShape /\ Quiet /\ ControllerOf(ctl, render, turn) /\ WarmRender
      /\ \A t \in Tasks : ReadShape(t)
  BY DEF Staged, Steady
<1>1. Steady' /\ HandlerShape'
  BY <1>0, NextSteady, HandlerShapeStep DEF Staged
<1>2. WarmRender'
  BY <1>0, WarmRenderStep
<1>3. \A t \in Tasks : ReadShape(t)'
  BY <1>0, ReadShapeStep
<1>4. \A t \in Tasks : InStage(t)' /\ InDynamic(t)'
  BY InStageStep
<1>5. (\A t \in Tasks : SyncShape(t)') /\ (ctl'.interrupted => MeetsSyncIO')
  BY SyncShapeStep, InterruptedStep
<1> QED BY <1>1, <1>2, <1>3, <1>4, <1>5 DEF Staged

LEMMA StagedInvariance == ASSUME Warmable PROVE Spec => [](IInv /\ Staged)
<1>1. Init => IInv /\ Staged
  BY InitIInv, InitStaged
<1>2. IInv /\ Staged /\ [Next]_vars => (IInv /\ Staged)'
  BY NextIInv, NextStaged
<1> QED BY <1>1, <1>2, PTL DEF Spec

\* app-render.tsx, renderWithRestartOnCacheMissInDev: "we've already filled any caches".
THEOREM FinalIsWarm == ASSUME Warmable PROVE Spec => []FinalRenderIsWarm
<1>1. ASSUME IInv, Staged PROVE FinalRenderIsWarm
  <2> SUFFICES ASSUME render = "final", Prerenderable, NEW t \in Tasks
               PROVE  /\ pc[t] \notin {"got", "get", "stream"}
                      /\ pc[t] = "entry" => Resolved(Key(t), held[t])
    BY DEF FinalRenderIsWarm
  <2>0. /\ TypeOK /\ ControllerOf(ctl, render, turn) /\ WarmRender /\ ReadShape(t) /\ InStage(t)
        /\ turn \in 0 .. 6
    BY <1>1 DEF IInv, TypeOK, Staged, Steady
  <2>1. ctl.stage \in EarlyStatic .. Runtime /\ turn > 0 /\ ctl.stage < Dynamic
    BY <2>0, StageNumbers DEF Prerenderable, ControllerOf
  <2>2. ASSUME pc[t] \in {"got", "get", "stream"} PROVE FALSE
    <3>1. rdc[Key(t)] = "none" /\ At(t, "read") /\ Left(t)
      BY <1>1, <2>0, <2>2, ReadKey DEF ReadShape
    <3>2. Ideal(t, at[t] - 1) # Dynamic
      BY <2>0, <2>1, <2>2, <3>1, StageNumbers DEF InStage
    <3>3. at[t] \in 1 .. Len(program[t])
      BY <2>0, <3>1, OpFacts
    <3> QED BY <2>0, <3>1, <3>2, <3>3 DEF WarmRender, At, Key, Op
  <2>3. pc[t] = "entry" => Resolved(Key(t), held[t])
    BY <2>0 DEF WarmRender, ReadShape, Resolved
  <2> QED BY <2>2, <2>3
<1> QED BY <1>1, StagedInvariance, PTL

\* StagedRenderingController, and the stage tasks that advance it: at the end of a
\* stage each component has done what a prerender does by then.
THEOREM StagingAgrees == ASSUME Warmable PROVE Spec => []StagedAsPrerendered
<1>1. ASSUME IInv, Staged PROVE StagedAsPrerendered
  <2> SUFFICES ASSUME NothingRunnable, turn > 0, ctl.stage # Abandoned, NEW t \in Tasks
               PROVE  /\ ctl.stage < Dynamic => at[t] - 1 <= Done(t, ctl.stage)
                      /\ \/ at[t] - 1 >= Done(t, IF ctl.stage < Dynamic THEN ctl.stage ELSE Runtime)
                         \/ render = "initial" /\ ctl.stage < Dynamic /\ count > 0
    BY DEF StagedAsPrerendered
  <2>0. /\ TypeOK /\ Quiet /\ ControllerOf(ctl, render, turn) /\ WarmRender /\ ReadShape(t)
        /\ InStage(t) /\ InDynamic(t) /\ turn \in 0 .. 6 /\ ctl \in Controllers
        /\ render \in {"initial", "final"} /\ count \in Nat /\ at[t] \in Nat \ {0}
    BY <1>1 DEF IInv, TypeOK, Staged, Steady
  <2>1. at[t] - 1 \in 0 .. Len(program[t]) /\ Len(program[t]) \in Nat
    <3>1. Len(program[t]) \in Nat
      BY <2>0, IdealFacts
    <3>2. at[t] - 1 \in 1 .. at[t] - 1 => at[t] - 1 <= Len(program[t])
      BY <1>1 DEF IInv, Waited
    <3> QED BY <2>0, <3>1, <3>2
  <2>2. ctl.stage \in Int /\ (ctl.stage < Dynamic \/ ctl.stage = Dynamic)
    BY <2>0, StageNumbers DEF Controllers
  <2>3. CASE ctl.stage < Dynamic
    <3>1. Ideal(t, at[t] - 1) <= ctl.stage
      BY <2>0, <2>3 DEF InStage
    <3>2. at[t] - 1 <= Done(t, ctl.stage)
      BY <2>0, <2>1, <2>2, <3>1, DoneFacts
    <3>3. ASSUME ~(render = "initial" /\ count > 0) PROVE at[t] - 1 >= Done(t, ctl.stage)
      <4>1. render = "final" \/ count = 0
        BY <2>0, <3>3
      <4>2. Left(t) => Ideal(t, at[t]) > ctl.stage
        BY <1>1, <2>0, <2>3, <4>1, Settled
      <4>3. at[t] - 1 = Len(program[t]) \/ Left(t)
        BY <2>0, <2>1 DEF Left
      <4>4. at[t] - 1 + 1 = at[t]
        BY <2>0
      <4> QED BY <2>0, <2>1, <2>2, <4>2, <4>3, <4>4, DoneFacts
    <3> QED BY <2>3, <3>2, <3>3
  <2>4. CASE ctl.stage = Dynamic
    <3>1. Left(t) => Ideal(t, at[t]) = Dynamic
      <4>1. CASE ctl.interrupted
        <5>1. render = "final"
          BY <2>0, <4>1 DEF ControllerOf
        <5> QED BY <1>1, <2>0, <2>4, <5>1, SettledDynamic
      <4>2. CASE ~ctl.interrupted
        BY <2>0, <2>4, <4>2 DEF InDynamic
      <4> QED BY <4>1, <4>2
    <3>2. at[t] - 1 = Len(program[t]) \/ Left(t)
      BY <2>0, <2>1 DEF Left
    <3>3. at[t] - 1 + 1 = at[t] /\ Runtime \in Int /\ Dynamic > Runtime /\ ~(Dynamic < Dynamic)
      BY <2>0, StageNumbers
    <3>4. at[t] - 1 >= Done(t, Runtime)
      BY <2>0, <2>1, <3>1, <3>2, <3>3, DoneFacts
    <3> QED BY <2>4, <3>3, <3>4
  <2> QED BY <2>2, <2>3, <2>4
<1> QED BY <1>1, StagedInvariance, PTL

\* syncInterruptCurrentStageWithReason: the render that is sent reports the sync IO
\* of the page, and none of its modules' initialization.
THEOREM SyncIOIsReported == ASSUME Warmable PROVE Spec => []SyncIOReported
<1>1. ASSUME IInv, Staged PROVE SyncIOReported
  <2> SUFFICES ASSUME Served, MeetsSyncIO PROVE ctl.interrupted
    BY <1>1 DEF SyncIOReported, Staged
  <2>0. PICK t \in Tasks : \E i \in 1 .. Len(program[t]) :
          program[t][i].do = "syncIO" /\ Ideal(t, i) <= EarlyRuntime
    BY DEF MeetsSyncIO, Ideal
  <2>1. PICK i \in 1 .. Len(program[t]) :
          program[t][i].do = "syncIO" /\ Ideal(t, i) <= EarlyRuntime
    BY <2>0
  <2>2. at[t] > Len(program[t]) /\ ctl.stage # Abandoned
    BY DEF Served, Used
  <2>3. i \in 1 .. at[t] - 1
    <3>1. at[t] \in Nat /\ Len(program[t]) \in Nat
      BY <1>1, IdealFacts DEF IInv, TypeOK
    <3> QED BY <2>2, <3>1
  <2> QED BY <1>1, <2>1, <2>2, <2>3 DEF Staged, SyncShape
<1> QED BY <1>1, StagedInvariance, PTL
=============================================================================
