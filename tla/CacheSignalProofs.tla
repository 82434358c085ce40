------------------------- MODULE CacheSignalProofs -------------------------
(* Theorems about CacheSignal, for any renders and any finite set of reads. *)
EXTENDS CacheSignal, FiniteSetTheorems, TLAPS

\* A read that was not begun or has not settled has woken nothing.
ReadsShape ==
  /\ \A r \in inFlight : owner[r] \in Signals
  /\ \A r \in Reads : (owner[r] = NoSignal \/ r \in inFlight) => job[r] = "none"

\* What the phase of a render says of its listeners and its subscription.
RendersShape ==
  /\ \A s \in Renders :
       /\ s \in subscribedSignals => rendering[s] # "new"
       /\ "render" \in listeners[s] => rendering[s] = "awaiting"
  /\ \A s \in Prerenders :
       /\ rendering[s] \notin {"tracked", "started"}
       /\ rendering[s] = "awaiting" => s \in subscribedSignals /\ "render" \in listeners[s]

\* Immediates are run in check phases only.
BatchInCheck ==
  phase # "check" =>
    /\ \A j \in Jobs : job[j] # "batch"
    /\ \A s \in Renders : timer[s] # "batch"

\* Why an immediate and then a timeout: once the immediate of a signal without
\* pending reads is among those of a check phase, what its reads woke is
\* among them too or has run.
SettledBeforeTimeout ==
  \A s \in Renders :
    (rendering[s] = "awaiting" /\ count[s] = 0 /\ timer[s] \in {"batch", "timeout"}) =>
      \A j \in Jobs : Awaits(s, j) => job[j] \in {"none", "batch"}

IInv == TypeOK /\ CountsAgree /\ NoLostWakeup /\ ReadsShape /\ RendersShape
        /\ BatchInCheck /\ SettledBeforeTimeout

-----------------------------------------------------------------------------
(* Counting.                                                               *)

LEMMA Distinct ==
  /\ Modules \notin Renders /\ NoSignal \notin Signals
  /\ Renders \subseteq Signals /\ Modules \in Signals
  /\ \A s \in Renders : s \notin Reads
BY SignalAssumption DEF Signals

\* Finitely many reads are counted, so that a count is a natural number.
LEMMA CountedFinite ==
  ASSUME inFlight \subseteq Reads, NEW s
  PROVE  /\ IsFiniteSet(ReadsOf(s)) /\ IsFiniteSet(Counted(s))
         /\ Cardinality(Counted(s)) \in Nat
PROOF
<1>1. IsFiniteSet(Reads)
  BY SignalAssumption
<1>2. ReadsOf(s) \in SUBSET Reads /\ Counted(s) \in SUBSET Reads
  BY DEF ReadsOf, Counted
<1>3. IsFiniteSet(ReadsOf(s)) /\ IsFiniteSet(Counted(s))
  BY <1>1, <1>2, FS_Subset
<1> QED BY <1>3, FS_CardinalityType

\* The reads a signal counts are those that notify it.
LEMMA CountedNotified ==
  ASSUME TypeOK, NEW r \in inFlight, NEW s \in Signals
  PROVE  r \in Counted(s) <=> s \in Notified(owner[r])
BY Distinct DEF Counted, ReadsOf, Notified, TypeOK

\* A signal that counts nothing has no read in flight, and if it is
\* subscribed no module has one.
LEMMA NothingCounted ==
  ASSUME TypeOK, CountsAgree, NEW s \in Signals, count[s] = 0
  PROVE  Counted(s) = {}
PROOF
<1>1. IsFiniteSet(Counted(s))
  BY CountedFinite DEF TypeOK
<1> QED BY <1>1, FS_EmptySet DEF CountsAgree

\* What is counted changes only with reads and subscriptions.
LEMMA CountsKept ==
  ASSUME CountsAgree, UNCHANGED <<count, subscribedSignals, owner, inFlight>>
  PROVE  CountsAgree'
PROOF
<1>1. \A s : ReadsOf(s)' = ReadsOf(s)
  BY DEF ReadsOf
<1>2. \A s : Counted(s)' = Counted(s)
  BY <1>1 DEF Counted
<1> QED BY <1>2 DEF CountsAgree

-----------------------------------------------------------------------------
(* Each action preserves the invariant.                                    *)

\* A job that may begin a read is over or does not change.
JobsEnd ==
  /\ job' \in [Jobs -> {"none", "micro", "queued", "batch"}]
  /\ \A j \in Jobs : job'[j] \in {job[j], "none"}

LEMMA BeginReadInv ==
  ASSUME IInv, NEW r \in Reads, NEW o \in Readable, BeginRead(r, o), JobsEnd
  PROVE  IInv'
PROOF
<1> USE Distinct DEF IInv
<1>1. /\ o \in Signals /\ o # NoSignal
      /\ owner[r] = NoSignal /\ r \notin inFlight /\ r \in Jobs /\ job[r] = "none"
  BY DEF Readable, Rendering, BeginRead, ReadsShape, TypeOK, Jobs
<1>2. /\ owner' = [owner EXCEPT ![r] = o] /\ inFlight' = inFlight \cup {r}
      /\ count' = [s \in Signals |-> IF s \in Notified(o) THEN count[s] + 1 ELSE count[s]]
      /\ timer' = [s \in Renders |-> IF s \in Notified(o) THEN "none" ELSE timer[s]]
      /\ UNCHANGED <<earlyListeners, listeners, tickPending, subscribedSignals, rendering, phase>>
  BY DEF BeginRead
<1>3. ASSUME NEW s \in Signals
      PROVE  Counted(s)' = IF s \in Notified(o) THEN Counted(s) \cup {r} ELSE Counted(s)
  <2>1. ASSUME NEW t \in Signals
        PROVE  ReadsOf(t)' = IF t = o THEN ReadsOf(t) \cup {r} ELSE ReadsOf(t)
    BY <1>1, <1>2 DEF ReadsOf, TypeOK
  <2>2. s \in subscribedSignals => s # Modules
    BY DEF TypeOK
  <2> QED BY <1>1, <1>2, <2>1, <2>2 DEF Counted, Notified
<1>4. CountsAgree'
  <2> SUFFICES ASSUME NEW s \in Signals PROVE count'[s] = Cardinality(Counted(s)')
    BY DEF CountsAgree
  <2>1. IsFiniteSet(Counted(s)) /\ r \notin Counted(s)
    BY <1>1, CountedFinite DEF TypeOK, Counted, ReadsOf
  <2>2. Cardinality(Counted(s) \cup {r}) = Cardinality(Counted(s)) + 1
    BY <2>1, FS_AddElement
  <2> QED BY <1>2, <1>3, <2>2 DEF CountsAgree, TypeOK
<1>5. TypeOK'
  BY <1>1, <1>2 DEF TypeOK, JobsEnd
<1>6. ASSUME NEW s \in Renders
      PROVE  /\ s \in Notified(o) => count'[s] # 0
             /\ s \notin Notified(o) => count'[s] = count[s] /\ timer'[s] = timer[s]
  BY <1>2 DEF TypeOK
<1>7. NoLostWakeup'
  BY <1>2, <1>6 DEF NoLostWakeup
<1>8. ReadsShape'
  BY <1>1, <1>2 DEF ReadsShape, TypeOK, JobsEnd, Jobs
<1>9. RendersShape'
  BY <1>2 DEF RendersShape
<1>10. BatchInCheck'
  BY <1>2 DEF BatchInCheck, JobsEnd
<1>11. SettledBeforeTimeout'
  <2> SUFFICES ASSUME NEW s \in Renders, s \notin Notified(o), NEW j \in Jobs, Awaits(s, j)'
               PROVE  Awaits(s, j)
    BY <1>2, <1>6 DEF SettledBeforeTimeout, JobsEnd
  <2>1. j # r
    BY <1>1, <1>2 DEF Awaits, Notified, TypeOK
  <2> QED BY <1>1, <1>2, <2>1 DEF Awaits, TypeOK
<1> QED BY <1>4, <1>5, <1>7, <1>8, <1>9, <1>10, <1>11

LEMMA EndReadInv ==
  ASSUME IInv, NEW r \in Reads, EndRead(r)
  PROVE  IInv'
PROOF
<1> USE Distinct DEF IInv
<1> DEFINE N == Notified(owner[r])
<1>1. r \in inFlight /\ owner[r] \in Signals /\ r \in Jobs
  BY DEF EndRead, ReadsShape, Jobs
<1>2. /\ inFlight' = inFlight \ {r}
      /\ count' = [s \in Signals |-> IF s \in N THEN count[s] - 1 ELSE count[s]]
      /\ tickPending' = tickPending \cup ({s \in N : count[s] = 1} \cap Renders)
      /\ timer' = [s \in Renders |-> IF s \in {t \in N : count[t] = 1} THEN "queued" ELSE timer[s]]
      /\ job' = [job EXCEPT ![r] = "micro"]
      /\ UNCHANGED <<earlyListeners, listeners, subscribedSignals, rendering, owner, phase>>
  BY DEF EndRead, NoMorePendingCaches, Rescheduled
<1>3. ASSUME NEW s \in Signals
      PROVE  /\ Counted(s)' = Counted(s) \ {r}
             /\ r \in Counted(s) <=> s \in N
  BY <1>1, <1>2, CountedNotified DEF Counted, ReadsOf
<1>4. CountsAgree'
  <2> SUFFICES ASSUME NEW s \in Signals PROVE count'[s] = Cardinality(Counted(s)')
    BY DEF CountsAgree
  <2>1. IsFiniteSet(Counted(s))
    BY CountedFinite DEF TypeOK
  <2>2. Cardinality(Counted(s) \ {r}) = IF r \in Counted(s) THEN Cardinality(Counted(s)) - 1
                                        ELSE Cardinality(Counted(s))
    BY <2>1, FS_RemoveElement
  <2> QED BY <1>2, <1>3, <2>2 DEF CountsAgree, TypeOK
<1>5. TypeOK'
  <2>1. count' \in [Signals -> Nat]
    <3>1. ASSUME NEW s \in Signals PROVE count'[s] \in Nat
      <4>1. IsFiniteSet(Counted(s) \ {r})
        BY CountedFinite, FS_RemoveElement DEF TypeOK
      <4>2. Cardinality(Counted(s) \ {r}) \in Nat
        BY <4>1, FS_CardinalityType
      <4> QED BY <1>3, <1>4, <4>2 DEF CountsAgree
    <3> QED BY <1>2, <3>1
  <2> QED BY <1>1, <1>2, <2>1 DEF TypeOK
<1>6. ASSUME NEW s \in Renders
      PROVE  /\ s \in N /\ count'[s] = 0 => timer'[s] = "queued" /\ s \in tickPending'
             /\ s \notin N => count'[s] = count[s] /\ timer'[s] = timer[s]
  BY <1>2 DEF TypeOK
<1>7. NoLostWakeup'
  BY <1>2, <1>6 DEF NoLostWakeup
<1>8. ReadsShape'
  BY <1>1, <1>2 DEF ReadsShape, TypeOK, Jobs
<1>9. RendersShape'
  BY <1>2 DEF RendersShape
<1>10. BatchInCheck'
  BY <1>1, <1>2 DEF BatchInCheck, TypeOK
<1>11. SettledBeforeTimeout'
  <2> SUFFICES ASSUME NEW s \in Renders, s \notin N, NEW j \in Jobs, Awaits(s, j)
               PROVE  job'[j] = job[j]
    BY <1>2, <1>6 DEF SettledBeforeTimeout, Awaits
  <2> QED BY <1>1, <1>2 DEF Awaits, Notified, TypeOK
<1> QED BY <1>4, <1>5, <1>7, <1>8, <1>9, <1>10, <1>11

\* Subscribing a new signal to the modules: job' is what else the caller does.
LEMMA TrackInv ==
  ASSUME IInv, NEW s \in Renders, NEW waiting \in {{}, {"render"}}, NEW ph,
         rendering[s] = "new", Track(s, waiting),
         rendering' = [rendering EXCEPT ![s] = ph],
         \/ ph = "awaiting" /\ waiting = {"render"}
         \/ s \in DevRenders /\ ph = "tracked" /\ waiting = {},
         job' \in {job, [job EXCEPT ![s] = "micro"]}
  PROVE  IInv'
PROOF
<1> USE Distinct DEF IInv
<1> DEFINE N == IfUnused(s, ReadsAdded)
<1>1. /\ s \notin subscribedSignals /\ s \in Signals /\ s \in Jobs /\ s # Modules
      /\ s \notin Prerenders \/ ph = "awaiting"
  BY SignalAssumption DEF RendersShape, Jobs
<1>2. /\ subscribedSignals' = subscribedSignals \cup {s}
      /\ count' = [count EXCEPT ![s] = @ + count[Modules]]
      /\ listeners' = [listeners EXCEPT ![s] = {"unsubscribe"} \cup waiting]
      /\ tickPending' = tickPending \cup (N \cap Renders)
      /\ timer' = [t \in Renders |-> IF t \in N THEN "queued" ELSE timer[t]]
      /\ UNCHANGED <<earlyListeners, owner, inFlight, phase>>
  BY DEF Track, Subscribed, ReadsAdded, NoMorePendingCaches, Rescheduled
<1>3. /\ count'[s] = 0 => timer'[s] = "queued" /\ s \in tickPending'
      /\ \A t \in Renders \ {s} : count'[t] = count[t] /\ timer'[t] = timer[t]
  BY <1>1, <1>2 DEF IfUnused, ReadsAdded, TypeOK
<1>4. CountsAgree'
  <2> SUFFICES ASSUME NEW t \in Signals PROVE count'[t] = Cardinality(Counted(t)')
    BY DEF CountsAgree
  <2>1. CASE t = s
    <3>1. /\ Counted(s) = ReadsOf(s) /\ Counted(Modules) = ReadsOf(Modules)
          /\ Counted(s)' = ReadsOf(s) \cup ReadsOf(Modules)
      BY <1>1, <1>2 DEF Counted, ReadsOf, TypeOK
    <3>2. ReadsOf(s) \cap ReadsOf(Modules) = {}
      BY <1>1 DEF ReadsOf
    <3>3. IsFiniteSet(ReadsOf(s)) /\ IsFiniteSet(ReadsOf(Modules))
      BY CountedFinite DEF TypeOK
    <3>4. Cardinality(ReadsOf(s) \cup ReadsOf(Modules))
            = Cardinality(ReadsOf(s)) + Cardinality(ReadsOf(Modules)) - Cardinality({})
      BY <3>2, <3>3, FS_Union
    <3>5. count[s] = Cardinality(ReadsOf(s)) /\ count[Modules] = Cardinality(ReadsOf(Modules))
      BY <3>1, <1>1 DEF CountsAgree
    <3> QED BY <1>1, <1>2, <2>1, <3>1, <3>4, <3>5, FS_EmptySet DEF TypeOK
  <2>2. CASE t # s
    <3>1. Counted(t)' = Counted(t)
      BY <1>2, <2>2 DEF Counted, ReadsOf
    <3> QED BY <1>2, <2>2, <3>1 DEF CountsAgree, TypeOK
  <2> QED BY <2>1, <2>2
<1>5. TypeOK'
  BY <1>1, <1>2 DEF TypeOK
<1>6. NoLostWakeup'
  BY <1>2, <1>3 DEF NoLostWakeup, TypeOK
<1>7. ReadsShape'
  <2>1. \A r \in Reads : job'[r] = job[r]
    BY <1>1 DEF TypeOK, Jobs
  <2> QED BY <1>2, <2>1 DEF ReadsShape
<1>8. RendersShape'
  BY <1>1, <1>2 DEF RendersShape, TypeOK
<1>9. BatchInCheck'
  BY <1>1, <1>2 DEF BatchInCheck, TypeOK
<1>10. SettledBeforeTimeout'
  <2> SUFFICES ASSUME NEW t \in Renders, t # s, NEW j \in Jobs, Awaits(t, j)'
               PROVE  Awaits(t, j) /\ rendering'[t] = rendering[t] /\ job'[j] = job[j]
    BY <1>3 DEF SettledBeforeTimeout
  <2> QED BY <1>1, <1>2 DEF Awaits, TypeOK
<1> QED BY <1>4, <1>5, <1>6, <1>7, <1>8, <1>9, <1>10

\* The steps of a render that subscribe it, start it, or make it wait.
LEMMA RenderStepInv ==
  ASSUME IInv, NEW s \in Renders, RenderStep(s)
  PROVE  IInv'
PROOF
<1> USE Distinct DEF IInv
<1>1. CASE Prerender(s)
  <2>1. /\ rendering[s] = "new" /\ rendering' = [rendering EXCEPT ![s] = "awaiting"]
        /\ job' = [job EXCEPT ![s] = "micro"] /\ Track(s, {"render"})
    BY <1>1 DEF Prerender
  <2> QED BY <2>1, TrackInv
<1>2. CASE TrackDevRender(s)
  <2>1. /\ rendering[s] = "new" /\ rendering' = [rendering EXCEPT ![s] = "tracked"]
        /\ job' = job /\ Track(s, {}) /\ s \in DevRenders
    BY <1>2 DEF TrackDevRender
  <2> QED BY <2>1, TrackInv
<1>3. CASE StartDevRender(s)
  <2>1. /\ rendering[s] = "tracked" /\ rendering' = [rendering EXCEPT ![s] = "started"]
        /\ job' = [job EXCEPT ![s] = "micro"] /\ s \in Jobs
        /\ UNCHANGED <<signalVars, owner, inFlight, phase>>
    BY <1>3 DEF StartDevRender, Jobs
  <2>2. TypeOK' /\ CountsAgree' /\ NoLostWakeup'
    BY <2>1, CountsKept DEF TypeOK, NoLostWakeup, signalVars
  <2>3. ReadsShape' /\ RendersShape' /\ BatchInCheck'
    BY <2>1 DEF ReadsShape, RendersShape, BatchInCheck, TypeOK, signalVars
  <2>4. SettledBeforeTimeout'
    BY <2>1 DEF SettledBeforeTimeout, Awaits, TypeOK, signalVars
  <2> QED BY <2>2, <2>3, <2>4
<1>4. CASE AwaitDevRender(s)
  <2>1. /\ rendering[s] = "started" /\ rendering' = [rendering EXCEPT ![s] = "awaiting"]
        /\ listeners' = [listeners EXCEPT ![s] = @ \cup {"render"}]
        /\ tickPending' = tickPending \cup (IfUnused(s, 0) \cap Renders)
        /\ timer' = [t \in Renders |-> IF t \in IfUnused(s, 0) THEN "queued" ELSE timer[t]]
        /\ UNCHANGED <<count, earlyListeners, subscribedSignals, owner, inFlight, job, phase>>
    BY <1>4 DEF AwaitDevRender, NoMorePendingCaches, Rescheduled
  <2>2. /\ count[s] = 0 => timer'[s] = "queued" /\ s \in tickPending'
        /\ \A t \in Renders \ {s} : timer'[t] = timer[t] /\ rendering'[t] = rendering[t]
        /\ s \notin Prerenders
    BY <2>1 DEF IfUnused, TypeOK, RendersShape
  <2>3. TypeOK' /\ CountsAgree' /\ NoLostWakeup'
    BY <2>1, <2>2, CountsKept DEF TypeOK, NoLostWakeup
  <2>4. ReadsShape' /\ RendersShape' /\ BatchInCheck'
    BY <2>1, <2>2 DEF ReadsShape, RendersShape, BatchInCheck, TypeOK
  <2>5. SettledBeforeTimeout'
    BY <2>1, <2>2 DEF SettledBeforeTimeout, Awaits
  <2> QED BY <2>3, <2>4, <2>5
<1> QED BY <1>1, <1>2, <1>3, <1>4 DEF RenderStep

\* A listener for inputReady.
LEMMA InputReadyInv ==
  ASSUME IInv, NEW s \in Renders, InputReady(s), JobsEnd
  PROVE  IInv'
PROOF
<1> USE Distinct DEF IInv
<1>1. /\ earlyListeners' = [earlyListeners EXCEPT ![s] = TRUE]
      /\ tickPending' = tickPending \cup (IfUnused(s, 0) \cap Renders)
      /\ timer' = [t \in Renders |-> IF t \in IfUnused(s, 0) THEN "queued" ELSE timer[t]]
      /\ UNCHANGED <<count, listeners, subscribedSignals, rendering, owner, inFlight, phase>>
  BY DEF InputReady, NoMorePendingCaches, Rescheduled
<1>2. /\ count[s] = 0 => timer'[s] = "queued" /\ s \in tickPending'
      /\ \A t \in Renders : timer'[t] \in {timer[t], "queued"}
  BY <1>1 DEF IfUnused, TypeOK
<1>3. TypeOK' /\ CountsAgree' /\ NoLostWakeup'
  BY <1>1, <1>2, CountsKept DEF TypeOK, NoLostWakeup, JobsEnd
<1>4. ReadsShape' /\ RendersShape' /\ BatchInCheck'
  BY <1>1, <1>2 DEF ReadsShape, RendersShape, BatchInCheck, JobsEnd, Jobs
<1>5. SettledBeforeTimeout'
  BY <1>1, <1>2 DEF SettledBeforeTimeout, Awaits, JobsEnd
<1> QED BY <1>3, <1>4, <1>5

\* A read begun by another task.
LEMMA OtherTaskInv ==
  ASSUME IInv, OtherTask
  PROVE  IInv'
PROOF
<1>1. JobsEnd
  BY DEF IInv, OtherTask, JobsEnd, TypeOK
<1> QED BY <1>1, BeginReadInv DEF OtherTask

\* A job runs, or is put off.
LEMMA JobInv ==
  ASSUME IInv, NEW j \in Jobs, RunJob(j) \/ DeferJob(j)
  PROVE  IInv'
PROOF
<1> USE DEF IInv
<1>1. CASE RunJob(j)
  <2>1. JobsEnd
    BY <1>1 DEF RunJob, JobsEnd, TypeOK
  <2>2. CASE UNCHANGED <<signalVars, rendering, owner, inFlight, phase>>
    <3> USE <2>1, <2>2 DEF signalVars, JobsEnd
    <3>1. TypeOK' /\ CountsAgree' /\ NoLostWakeup'
      BY CountsKept DEF TypeOK, NoLostWakeup
    <3>2. ReadsShape' /\ RendersShape' /\ BatchInCheck'
      BY DEF ReadsShape, RendersShape, BatchInCheck, Jobs
    <3>3. SettledBeforeTimeout'
      BY DEF SettledBeforeTimeout, Awaits
    <3> QED BY <3>1, <3>2, <3>3
  <2>3. ASSUME NEW s \in Rendering, InputReady(s) PROVE IInv'
    BY <2>1, <2>3, InputReadyInv DEF Rendering
  <2>4. ASSUME NEW r \in Reads, NEW o \in Readable, BeginRead(r, o) PROVE IInv'
    BY <2>1, <2>4, BeginReadInv
  <2> QED BY <1>1, <2>2, <2>3, <2>4 DEF RunJob
<1>2. CASE DeferJob(j)
  <2> USE Distinct
  <2>1. /\ job[j] = "micro" /\ job' = [job EXCEPT ![j] = "queued"]
        /\ UNCHANGED <<signalVars, rendering, owner, inFlight, phase>>
    BY <1>2 DEF DeferJob
  <2>2. TypeOK' /\ CountsAgree' /\ NoLostWakeup'
    BY <2>1, CountsKept DEF TypeOK, NoLostWakeup, signalVars
  <2>3. ReadsShape' /\ RendersShape' /\ BatchInCheck'
    BY <2>1 DEF ReadsShape, RendersShape, BatchInCheck, TypeOK, signalVars, Jobs
  <2>4. SettledBeforeTimeout'
    BY <2>1 DEF SettledBeforeTimeout, Awaits, TypeOK, signalVars
  <2> QED BY <2>2, <2>3, <2>4
<1> QED BY <1>1, <1>2

\* The tick and the immediate of a signal.
LEMMA TickInv ==
  ASSUME IInv, NEW s \in Renders, Tick(s) \/ Immediate(s)
  PROVE  IInv'
PROOF
<1> USE Distinct DEF IInv
<1>1. CASE Tick(s)
  <2>1. /\ tickPending' = tickPending \ {s}
        /\ earlyListeners' = IF count[s] = 0 THEN [earlyListeners EXCEPT ![s] = FALSE] ELSE earlyListeners
        /\ UNCHANGED <<count, listeners, timer, subscribedSignals, rendering, owner, inFlight, job, phase>>
    BY <1>1 DEF Tick
  <2>2. TypeOK' /\ CountsAgree' /\ NoLostWakeup'
    BY <2>1, CountsKept DEF TypeOK, NoLostWakeup
  <2>3. ReadsShape' /\ RendersShape' /\ BatchInCheck' /\ SettledBeforeTimeout'
    BY <2>1 DEF ReadsShape, RendersShape, BatchInCheck, SettledBeforeTimeout, Awaits
  <2> QED BY <2>2, <2>3
<1>2. CASE Immediate(s)
  <2>1. /\ timer[s] = "batch" /\ timer' = [timer EXCEPT ![s] = "timeout"] /\ phase = "check"
        /\ UNCHANGED <<count, earlyListeners, listeners, tickPending, subscribedSignals,
                       rendering, owner, inFlight, job, phase>>
    BY <1>2 DEF Immediate
  <2>2. TypeOK' /\ CountsAgree' /\ NoLostWakeup'
    BY <2>1, CountsKept DEF TypeOK, NoLostWakeup
  <2>3. ReadsShape' /\ RendersShape' /\ BatchInCheck' /\ SettledBeforeTimeout'
    BY <2>1 DEF ReadsShape, RendersShape, BatchInCheck, SettledBeforeTimeout, Awaits, TypeOK
  <2> QED BY <2>2, <2>3
<1> QED BY <1>1, <1>2

\* invokeListenersIfNoPendingReads: a signal without a read in flight may
\* unsubscribe, since there is nothing that it would have counted.
LEMMA TimeoutInv ==
  ASSUME IInv, NEW s \in Renders, Timeout(s)
  PROVE  IInv'
PROOF
<1> USE Distinct DEF IInv
<1>1. /\ timer' = [timer EXCEPT ![s] = "none"]
      /\ UNCHANGED <<count, earlyListeners, tickPending, owner, inFlight, job, phase>>
  BY DEF Timeout
<1>2. CASE count[s] # 0
  <2>1. UNCHANGED <<listeners, rendering, subscribedSignals>>
    BY <1>2 DEF Timeout
  <2>2. TypeOK' /\ CountsAgree' /\ NoLostWakeup'
    BY <1>1, <1>2, <2>1, CountsKept DEF TypeOK, NoLostWakeup
  <2>3. ReadsShape' /\ RendersShape' /\ BatchInCheck' /\ SettledBeforeTimeout'
    BY <1>1, <2>1 DEF ReadsShape, RendersShape, BatchInCheck, SettledBeforeTimeout, Awaits, TypeOK
  <2> QED BY <2>2, <2>3
<1>3. CASE count[s] = 0
  <2>1. /\ listeners' = [listeners EXCEPT ![s] = {}]
        /\ rendering' = IF "render" \in listeners[s] THEN [rendering EXCEPT ![s] = "ready"] ELSE rendering
        /\ subscribedSignals' \in {subscribedSignals, subscribedSignals \ {s}}
    BY <1>3 DEF Timeout
  <2>2. CountsAgree'
    <3> SUFFICES ASSUME NEW t \in Signals PROVE count'[t] = Cardinality(Counted(t)')
      BY DEF CountsAgree
    <3>1. Counted(t)' = Counted(t)
      <4>1. CASE t = s
        <5>1. Counted(t) = {}
          BY <1>3, <4>1, NothingCounted
        <5> QED BY <1>1, <2>1, <5>1 DEF Counted, ReadsOf
      <4>2. CASE t # s
        BY <1>1, <2>1, <4>2 DEF Counted, ReadsOf
      <4> QED BY <4>1, <4>2
    <3> QED BY <1>1, <3>1 DEF CountsAgree
  <2>3. TypeOK' /\ NoLostWakeup'
    BY <1>1, <2>1 DEF TypeOK, NoLostWakeup
  <2>4. ReadsShape' /\ BatchInCheck'
    BY <1>1 DEF ReadsShape, BatchInCheck, TypeOK
  <2>5. RendersShape'
    BY <2>1 DEF RendersShape, TypeOK
  <2>6. SettledBeforeTimeout'
    BY <1>1, <2>1 DEF SettledBeforeTimeout, Awaits, TypeOK
  <2> QED BY <2>2, <2>3, <2>4, <2>5, <2>6
<1> QED BY <1>2, <1>3

\* The event loop turns: what is queued for the check phase enters it
\* together, and it ends when all of that has run.
LEMMA NextPhaseInv ==
  ASSUME IInv, NextPhase
  PROVE  IInv'
PROOF
<1> USE DEF IInv
<1>1. /\ NoMicrojob
      /\ UNCHANGED <<count, earlyListeners, listeners, tickPending, subscribedSignals,
                     rendering, owner, inFlight>>
  BY DEF NextPhase, BetweenTasks
<1>2. CASE phase = "poll"
  <2>1. /\ phase' = "check"
        /\ job' = [j \in Jobs |-> IF job[j] = "queued" THEN "batch" ELSE job[j]]
        /\ timer' = [s \in Renders |-> IF timer[s] = "queued" THEN "batch" ELSE timer[s]]
    BY <1>2 DEF NextPhase, InBatch, TypeOK
  <2>2. TypeOK' /\ CountsAgree' /\ NoLostWakeup'
    BY <1>1, <2>1, CountsKept DEF TypeOK, NoLostWakeup
  <2>3. ReadsShape' /\ RendersShape' /\ BatchInCheck'
    BY <1>1, <2>1 DEF ReadsShape, RendersShape, BatchInCheck, Jobs
  <2>4. SettledBeforeTimeout'
    BY <1>1, <2>1 DEF SettledBeforeTimeout, Awaits, TypeOK, NoMicrojob
  <2> QED BY <2>2, <2>3, <2>4
<1>3. CASE phase # "poll"
  <2>1. /\ UNCHANGED <<job, timer>>
        /\ phase' \in {"poll", "timers"}
        /\ phase = "check" => EmptyBatch
    BY <1>3 DEF NextPhase
  <2>2. TypeOK' /\ CountsAgree' /\ NoLostWakeup'
    BY <1>1, <2>1, CountsKept DEF TypeOK, NoLostWakeup
  <2>3. ReadsShape' /\ RendersShape' /\ BatchInCheck' /\ SettledBeforeTimeout'
    BY <1>1, <2>1 DEF ReadsShape, RendersShape, BatchInCheck, EmptyBatch, SettledBeforeTimeout, Awaits
  <2> QED BY <2>2, <2>3
<1> QED BY <1>2, <1>3

LEMMA InitInv == Init => IInv
PROOF
<1> SUFFICES ASSUME Init PROVE IInv
  OBVIOUS
<1> USE Distinct DEF Init
<1>1. TypeOK
  BY DEF TypeOK
<1>2. CountsAgree
  <2>1. \A s \in Signals : Counted(s) = {}
    BY DEF Counted, ReadsOf
  <2> QED BY <2>1, FS_EmptySet DEF CountsAgree
<1>3. NoLostWakeup /\ RendersShape
  BY SignalAssumption DEF NoLostWakeup, RendersShape, Renders
<1>4. ReadsShape
  BY DEF ReadsShape, Jobs
<1>5. BatchInCheck /\ SettledBeforeTimeout
  BY DEF BatchInCheck, SettledBeforeTimeout
<1> QED BY <1>1, <1>2, <1>3, <1>4, <1>5 DEF IInv

LEMMA NextInv == IInv /\ [Next]_vars => IInv'
PROOF
<1> SUFFICES ASSUME IInv, [Next]_vars PROVE IInv'
  OBVIOUS
<1>1. CASE Next
  BY <1>1, RenderStepInv, TickInv, TimeoutInv, EndReadInv, JobInv, NextPhaseInv, OtherTaskInv DEF Next
<1>2. CASE UNCHANGED vars
  <2> USE <1>2 DEF vars, signalVars, IInv
  <2>1. TypeOK' /\ CountsAgree' /\ NoLostWakeup'
    BY CountsKept DEF TypeOK, NoLostWakeup
  <2>2. ReadsShape' /\ RendersShape' /\ BatchInCheck' /\ SettledBeforeTimeout'
    BY DEF ReadsShape, RendersShape, BatchInCheck, SettledBeforeTimeout, Awaits
  <2> QED BY <2>1, <2>2
<1> QED BY <1>1, <1>2

LEMMA AlwaysIInv == Spec => []IInv
BY InitInv, NextInv, PTL DEF Spec

-----------------------------------------------------------------------------
\* Only its timeout tells a render that its caches are ready, and when it does
\* no read that the render counts is in flight and no job that it awaits is left.
LEMMA ReadyStep ==
  ASSUME IInv, [Next]_vars, NEW s \in Renders, rendering'[s] = "ready", rendering[s] # "ready"
  PROVE  /\ \A j \in Jobs : Awaits(s, j) => job[j] = "none"
         /\ s \in Prerenders => ReadsOf(Modules) = {}
PROOF
<1> USE Distinct DEF IInv
<1>1. Timeout(s)
  <2>1. ASSUME NEW t \in Renders, RenderStep(t) PROVE FALSE
    BY <2>1 DEF RenderStep, Prerender, TrackDevRender, StartDevRender, AwaitDevRender, TypeOK
  <2>2. ASSUME NEW t \in Renders, Tick(t) \/ Immediate(t) PROVE FALSE
    BY <2>2 DEF Tick, Immediate
  <2>3. ASSUME NEW t \in Renders, Timeout(t), t # s PROVE FALSE
    BY <2>3 DEF Timeout, TypeOK
  <2>4. ASSUME NEW r \in Reads, EndRead(r) PROVE FALSE
    BY <2>4 DEF EndRead
  <2>5. ASSUME NEW j \in Jobs, RunJob(j) \/ DeferJob(j) PROVE FALSE
    BY <2>5 DEF RunJob, DeferJob, InputReady, BeginRead
  <2>6. ASSUME OtherTask \/ NextPhase \/ UNCHANGED vars PROVE FALSE
    BY <2>6 DEF OtherTask, BeginRead, NextPhase, vars
  <2> QED BY <2>1, <2>2, <2>3, <2>4, <2>5, <2>6 DEF Next
<1>2. /\ phase = "timers" /\ timer[s] = "timeout"
      /\ count[s] = 0 /\ rendering[s] = "awaiting"
  BY <1>1 DEF Timeout, RendersShape
<1>3. \A j \in Jobs : Awaits(s, j) => job[j] = "none"
  BY <1>2 DEF SettledBeforeTimeout, BatchInCheck
<1>4. s \in Prerenders => ReadsOf(Modules) = {}
  BY <1>2, NothingCounted DEF RendersShape, Counted
<1> QED BY <1>3, <1>4

\* Types; and endRead never finds a count at 0, so it never throws.
THEOREM TypeCorrect == Spec => []TypeOK
BY AlwaysIInv, PTL DEF IInv

\* beginRead, endRead, subscribeToReads and its unsubscription: the counts are
\* those of the reads in flight, however subscriptions and reads overlap.
THEOREM CountsBalance == Spec => []CountsAgree
BY AlwaysIInv, PTL DEF IInv

\* noMorePendingCaches, cacheReady and inputReady: no listener of a signal
\* without pending reads is left with nothing scheduled for it.
THEOREM WakeupsAreKept == Spec => []NoLostWakeup
BY AlwaysIInv, PTL DEF IInv

\* scheduleImmediateAndTimeoutWithCleanup: cacheReady resolves only after all
\* that the reads of the signal have woken in React has run.
THEOREM ReadyIsSettled == Spec => ReadyMeansSettled
PROOF
<1> DEFINE Step == \A s \in Renders : rendering'[s] = "ready" /\ rendering[s] # "ready" =>
                    \A j \in Jobs : Awaits(s, j) => job[j] = "none"
<1>1. IInv /\ [Next]_vars => [Step]_vars
  BY ReadyStep
<1> QED BY <1>1, AlwaysIInv, PTL DEF Spec, ReadyMeansSettled

\* trackPendingModules: no prerender is told that its caches are ready while
\* an import or a chunk load is in flight.
THEOREM ImportsAreAwaited == Spec => ImportsExtendPrerenders
PROOF
<1>1. IInv /\ [Next]_vars => [NoImportMissed(Prerenders)]_vars
  BY ReadyStep DEF NoImportMissed, Renders
<1> QED BY <1>1, AlwaysIInv, PTL DEF Spec, ImportsExtendPrerenders
=============================================================================
