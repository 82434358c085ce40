------------------------- MODULE ActionQueueProofs -------------------------
(* Theorems about ActionQueue, for any sets of nodes.                      *)
EXTENDS ActionQueue, TLAPS

\* The nodes the queue can still reach by running what is pending.
Live(x) == x = pending \/ phase[x] = "queued"

\* What dispatchAction and runRemainingActions keep of the linked list: what
\* is behind a live node has not run; no two live nodes share a successor, so
\* nothing is started twice; the node that last refers to has nothing behind
\* it; and a node not yet allocated is linked to nothing.
BehindIsQueued ==
  \A x \in Nodes : (Live(x) /\ next[x] # NoAction) => phase[next[x]] = "queued"
NoSharedSuccessor ==
  \A x, y \in Nodes :
    (Live(x) /\ Live(y) /\ x # y /\ next[x] # NoAction) => next[x] # next[y]
LastIsTail ==
  /\ last # NoAction => (phase[last] # "free" /\ next[last] = NoAction)
  /\ pending # NoAction => last # NoAction
FreeIsUnlinked ==
  \A x \in Nodes : phase[x] = "free" =>
    (next[x] = NoAction /\ \A y \in Nodes : next[y] # x)
QueueShape == BehindIsQueued /\ NoSharedSuccessor /\ LastIsTail /\ FreeIsUnlinked

\* An action reaches a router state only by settling, and a discarded one
\* was started and is no longer pending.
StateOrigin ==
  /\ \A a \in Nodes : phase[a] # "settled" =>
       /\ a \notin state
       /\ \A b \in Nodes : a \notin base[b]
       /\ promise[a] = "pending"
  /\ \A a \in Nodes : discarded[a] =>
       (a # pending /\ phase[a] \in {"running", "settled"})

IInv == TypeOK /\ QueueShape /\ StateOrigin /\ DiscardedNeverApplied
        /\ RefreshOwed /\ SerialUnlessInterrupted

\* What every settling of a reducer's promise has in common: st is the new
\* router state and owes whether a refresh is owed.
SettleStep(a, st, owes) ==
  /\ phase[a] = "running"
  /\ RunRemainingActions(a, st, owes)
  /\ UNCHANGED <<next, discarded>>
  /\ state' = st
  /\ \/ st = state
     \/ ~discarded[a] /\ st = base[a] \cup {a}
  /\ owes \in BOOLEAN
  /\ owes => (needsRefresh \/ discarded[a])
  /\ promise' \in [Nodes -> {"pending", "resolved", "rejected"}]
  /\ \A b \in Nodes \ {a} : promise'[b] = promise[b]
  /\ promise'[a] = "resolved" => (promise[a] = "resolved" \/ st = base[a] \cup {a})
  /\ canonical' \in Nodes \cup {NoAction}
-----------------------------------------------------------------------------
LEMMA NullIsNoNode == NoAction \notin Nodes
BY NodeAssumption DEF Nodes

\* Starting the successor of the pending action keeps the invariant.
LEMMA StartNextInv ==
  ASSUME NEW a \in Nodes, NEW st, NEW owes, IInv, SettleStep(a, st, owes),
         StartNext(a, st, owes)
  PROVE  IInv'
PROOF
<1> DEFINE n == next[pending]
<1> USE NullIsNoNode DEF IInv
<1>0. /\ pending \in Nodes /\ n \in Nodes /\ phase[n] = "queued"
      /\ n # a /\ n # pending
  BY DEF StartNext, TypeOK, QueueShape, BehindIsQueued, Live, SettleStep
<1>1. /\ phase' = [phase EXCEPT ![a] = "settled", ![n] = "running"]
      /\ base' = [base EXCEPT ![n] = st]
      /\ pending' = n
      /\ needsRefresh' = owes
      /\ UNCHANGED <<kind, last, next, discarded>>
      /\ state' = st
      /\ phase[a] = "running"
      /\ st \in SUBSET Nodes
  BY DEF StartNext, RunAfter, SettleStep, TypeOK
<1>2. TypeOK'
  BY <1>0, <1>1 DEF TypeOK, SettleStep
<1>3. QueueShape'
  <2> USE <1>0, <1>1 DEF QueueShape, TypeOK, Live
  <2>1. BehindIsQueued'
    BY DEF BehindIsQueued, NoSharedSuccessor, FreeIsUnlinked
  <2>2. NoSharedSuccessor'
    BY DEF NoSharedSuccessor, FreeIsUnlinked, BehindIsQueued, LastIsTail
  <2>3. LastIsTail'
    BY DEF LastIsTail, FreeIsUnlinked
  <2>4. FreeIsUnlinked'
    BY DEF FreeIsUnlinked, LastIsTail, BehindIsQueued
  <2> QED BY <2>1, <2>2, <2>3, <2>4
<1>4. StateOrigin' /\ DiscardedNeverApplied'
  BY <1>0, <1>1 DEF StateOrigin, DiscardedNeverApplied, TypeOK, SettleStep
<1>5. RefreshOwed'
  BY <1>0, <1>1 DEF RefreshOwed, Running, StateOrigin, TypeOK, SettleStep
<1>6. SerialUnlessInterrupted'
  BY <1>0, <1>1 DEF SerialUnlessInterrupted, Interrupted, Running, TypeOK, SettleStep
<1> QED BY <1>2, <1>3, <1>4, <1>5, <1>6

\* Nothing is left in the queue: pending becomes null.
LEMMA QueueDrainedInv ==
  ASSUME NEW a \in Nodes, NEW st, NEW owes, IInv, SettleStep(a, st, owes),
         QueueDrained(a, owes)
  PROVE  IInv'
PROOF
<1> USE NullIsNoNode DEF IInv
<1>1. /\ phase' = [phase EXCEPT ![a] = "settled"]
      /\ pending' = NoAction
      /\ needsRefresh' = owes
      /\ UNCHANGED <<kind, base, last, next, discarded>>
      /\ state' = st
      /\ phase[a] = "running"
      /\ pending \in Nodes
      /\ st \in SUBSET Nodes
  BY DEF QueueDrained, SettleStep, TypeOK
<1>2. TypeOK'
  BY <1>1 DEF TypeOK, SettleStep
<1>3. QueueShape'
  <2> USE <1>1 DEF QueueShape, TypeOK, Live
  <2>1. BehindIsQueued'
    BY DEF BehindIsQueued, NoSharedSuccessor, FreeIsUnlinked
  <2>2. NoSharedSuccessor'
    BY DEF NoSharedSuccessor, FreeIsUnlinked, BehindIsQueued, LastIsTail
  <2>3. LastIsTail'
    BY DEF LastIsTail, FreeIsUnlinked
  <2>4. FreeIsUnlinked'
    BY DEF FreeIsUnlinked, LastIsTail, BehindIsQueued
  <2> QED BY <2>1, <2>2, <2>3, <2>4
<1>4. StateOrigin' /\ DiscardedNeverApplied'
  BY <1>1 DEF StateOrigin, DiscardedNeverApplied, TypeOK, SettleStep
<1>5. RefreshOwed'
  BY <1>1 DEF RefreshOwed, Running, StateOrigin, TypeOK, SettleStep
<1>6. SerialUnlessInterrupted'
  BY <1>1 DEF SerialUnlessInterrupted, Interrupted, Running, TypeOK, SettleStep
<1> QED BY <1>2, <1>3, <1>4, <1>5, <1>6

\* The queue was already empty and no refresh is owed.
LEMMA NothingOwedInv ==
  ASSUME NEW a \in Nodes, NEW st, NEW owes, IInv, SettleStep(a, st, owes),
         NothingOwed(a, owes)
  PROVE  IInv'
PROOF
<1> USE NullIsNoNode DEF IInv
<1>1. /\ phase' = [phase EXCEPT ![a] = "settled"]
      /\ pending = NoAction /\ pending' = NoAction
      /\ ~owes /\ needsRefresh' = owes
      /\ UNCHANGED <<kind, base, last, next, discarded>>
      /\ state' = st
      /\ phase[a] = "running"
      /\ st \in SUBSET Nodes
  BY DEF NothingOwed, SettleStep, TypeOK
<1>2. TypeOK'
  BY <1>1 DEF TypeOK, SettleStep
<1>3. QueueShape'
  <2> USE <1>1 DEF QueueShape, TypeOK, Live
  <2>1. BehindIsQueued'
    BY DEF BehindIsQueued, NoSharedSuccessor, FreeIsUnlinked
  <2>2. NoSharedSuccessor'
    BY DEF NoSharedSuccessor, FreeIsUnlinked, BehindIsQueued, LastIsTail
  <2>3. LastIsTail'
    BY DEF LastIsTail, FreeIsUnlinked
  <2>4. FreeIsUnlinked'
    BY DEF FreeIsUnlinked, LastIsTail, BehindIsQueued
  <2> QED BY <2>1, <2>2, <2>3, <2>4
<1>4. StateOrigin' /\ DiscardedNeverApplied'
  BY <1>1 DEF StateOrigin, DiscardedNeverApplied, TypeOK, SettleStep
<1>5. RefreshOwed'
  BY <1>1 DEF RefreshOwed
<1>6. SerialUnlessInterrupted'
  BY <1>1 DEF SerialUnlessInterrupted, Interrupted, Running, TypeOK, SettleStep
<1> QED BY <1>2, <1>3, <1>4, <1>5, <1>6

\* The queue was already empty and dispatches the refresh it owes.
LEMMA DispatchOwedRefreshInv ==
  ASSUME NEW a \in Nodes, NEW st, NEW owes, IInv, SettleStep(a, st, owes),
         DispatchOwedRefresh(a, st, owes)
  PROVE  IInv'
PROOF
<1> USE NullIsNoNode DEF IInv
<1>1. PICK r \in Fresh(Refreshes) :
        /\ kind' = [kind EXCEPT ![r] = "refresh"]
        /\ RunAfter(a, r, st)
        /\ last' = r
  BY DEF DispatchOwedRefresh
<1>2. /\ r \in Nodes /\ phase[r] = "free" /\ r # a
  BY DEF Fresh, Nodes, SettleStep
<1>3. /\ phase' = [phase EXCEPT ![a] = "settled", ![r] = "running"]
      /\ base' = [base EXCEPT ![r] = st]
      /\ pending = NoAction /\ pending' = r
      /\ needsRefresh' = FALSE
      /\ UNCHANGED <<next, discarded>>
      /\ state' = st
      /\ phase[a] = "running"
      /\ owes
      /\ st \in SUBSET Nodes
  BY <1>1 DEF DispatchOwedRefresh, RunAfter, SettleStep, TypeOK
<1>4. TypeOK'
  BY <1>1, <1>2, <1>3 DEF TypeOK, SettleStep, Kinds
<1>5. QueueShape'
  <2> USE <1>1, <1>2, <1>3 DEF QueueShape, TypeOK, Live
  <2>1. BehindIsQueued'
    BY DEF BehindIsQueued, NoSharedSuccessor, FreeIsUnlinked
  <2>2. NoSharedSuccessor'
    BY DEF NoSharedSuccessor, FreeIsUnlinked, BehindIsQueued, LastIsTail
  <2>3. LastIsTail'
    BY DEF LastIsTail, FreeIsUnlinked
  <2>4. FreeIsUnlinked'
    BY DEF FreeIsUnlinked, LastIsTail, BehindIsQueued
  <2> QED BY <2>1, <2>2, <2>3, <2>4
<1>6. StateOrigin' /\ DiscardedNeverApplied'
  BY <1>1, <1>2, <1>3 DEF StateOrigin, DiscardedNeverApplied, TypeOK, SettleStep
<1>7. RefreshOwed'
  BY <1>3 DEF RefreshOwed
<1>8. Interrupted'
  \* Without an interruption nothing runs besides pending, so nothing is owed.
  <2>1. CASE discarded[a]
    BY <2>1, <1>3 DEF Interrupted
  <2>2. CASE needsRefresh
    BY <2>2, <1>3 DEF Interrupted, RefreshOwed, SerialUnlessInterrupted
  <2> QED BY <1>3, <2>1, <2>2 DEF SettleStep
<1> QED BY <1>4, <1>5, <1>6, <1>7, <1>8 DEF SerialUnlessInterrupted

\* The settling of a reducer's promise, whatever runRemainingActions does.
LEMMA SettleStepInv ==
  ASSUME NEW a \in Nodes, NEW st, NEW owes, IInv, SettleStep(a, st, owes)
  PROVE  IInv'
BY StartNextInv, QueueDrainedInv, NothingOwedInv, DispatchOwedRefreshInv
   DEF SettleStep, RunRemainingActions

\* React is always handed an existing action or nothing.
LEMMA HandedAfterType ==
  ASSUME NEW a \in Nodes, NEW res \in BOOLEAN, NEW st, NEW owes, TypeOK,
         RunRemainingActions(a, st, owes)
  PROVE  HandedAfter(a, res) \in Nodes \cup {NoAction}
BY DEF HandedAfter, TypeOK, RunRemainingActions, StartNext, QueueDrained,
       NothingOwed, DispatchOwedRefresh, Fresh, Nodes

\* Every settling is a SettleStep.
LEMMA SettleInv ==
  ASSUME NEW a \in Nodes, IInv, Settle(a)
  PROVE  IInv'
PROOF
<1>1. CASE Fulfil(a)
  <2>1. SettleStep(a, base[a] \cup {a}, needsRefresh)
    BY <1>1, HandedAfterType DEF Fulfil, Dropped, SettleStep, IInv, TypeOK
  <2> QED BY <2>1, SettleStepInv
<1>2. ASSUME NEW d \in BOOLEAN, FulfilDiscarded(a, d) PROVE IInv'
  <2>1. SettleStep(a, state, needsRefresh \/ d)
    BY <1>2, HandedAfterType DEF FulfilDiscarded, Dropped, SettleStep, IInv, TypeOK
  <2> QED BY <2>1, SettleStepInv
<1>3. CASE Reject(a)
  <2>1. SettleStep(a, state, needsRefresh)
    BY <1>3, HandedAfterType DEF Reject, SettleStep, IInv, TypeOK
  <2> QED BY <2>1, SettleStepInv
<1> QED BY <1>1, <1>2, <1>3 DEF Settle

-----------------------------------------------------------------------------
\* Dispatching into an empty queue.
LEMMA DispatchIdleInv ==
  ASSUME NEW a \in Nodes, phase[a] = "free", NEW k \in Kinds, IInv,
         DispatchIdle(a, k)
  PROVE  IInv'
PROOF
<1> USE NullIsNoNode DEF IInv, DispatchIdle
<1>1. TypeOK'
  BY DEF TypeOK, Handed, Kinds
<1>2. QueueShape'
  <2> USE DEF QueueShape, TypeOK, Live
  <2>1. BehindIsQueued'
    BY DEF BehindIsQueued, NoSharedSuccessor, FreeIsUnlinked
  <2>2. NoSharedSuccessor'
    BY DEF NoSharedSuccessor, FreeIsUnlinked, BehindIsQueued, LastIsTail
  <2>3. LastIsTail'
    BY DEF LastIsTail, FreeIsUnlinked
  <2>4. FreeIsUnlinked'
    BY DEF FreeIsUnlinked, LastIsTail, BehindIsQueued
  <2> QED BY <2>1, <2>2, <2>3, <2>4
<1>3. StateOrigin' /\ DiscardedNeverApplied'
  BY DEF StateOrigin, DiscardedNeverApplied, TypeOK
<1>4. RefreshOwed'
  BY DEF RefreshOwed, Running, TypeOK
<1>5. SerialUnlessInterrupted'
  BY DEF SerialUnlessInterrupted, Interrupted, Running, TypeOK
<1> QED BY <1>1, <1>2, <1>3, <1>4, <1>5

\* A navigation overtaking the pending action.
LEMMA DispatchInterruptInv ==
  ASSUME NEW a \in Nodes, phase[a] = "free", NEW k \in Kinds, IInv,
         DispatchInterrupt(a, k)
  PROVE  IInv'
PROOF
<1> USE NullIsNoNode DEF IInv, DispatchInterrupt, InheritedQueue
<1>1. TypeOK'
  BY DEF TypeOK, Handed, Kinds
<1>2. QueueShape'
  <2> USE DEF QueueShape, TypeOK, Live
  <2>1. BehindIsQueued'
    BY DEF BehindIsQueued, NoSharedSuccessor, FreeIsUnlinked
  <2>2. NoSharedSuccessor'
    BY DEF NoSharedSuccessor, FreeIsUnlinked, BehindIsQueued, LastIsTail
  <2>3. LastIsTail'
    BY DEF LastIsTail, FreeIsUnlinked
  <2>4. FreeIsUnlinked'
    BY DEF FreeIsUnlinked, LastIsTail, BehindIsQueued
  <2> QED BY <2>1, <2>2, <2>3, <2>4
<1>3. StateOrigin' /\ DiscardedNeverApplied'
  BY DEF StateOrigin, DiscardedNeverApplied, TypeOK
<1>4. RefreshOwed'
  BY DEF RefreshOwed, Running, TypeOK
<1>5. Interrupted'
  BY DEF Interrupted, TypeOK
<1> QED BY <1>1, <1>2, <1>3, <1>4, <1>5 DEF SerialUnlessInterrupted

\* Queueing an action behind actionQueue.last.
LEMMA DispatchAppendInv ==
  ASSUME NEW a \in Nodes, phase[a] = "free", NEW k \in Kinds, IInv,
         DispatchAppend(a, k)
  PROVE  IInv'
PROOF
<1> USE NullIsNoNode DEF IInv, DispatchAppend
<1>1. TypeOK'
  BY DEF TypeOK, Kinds
<1>2. QueueShape'
  <2> USE DEF QueueShape, TypeOK, Live
  <2>1. BehindIsQueued'
    BY DEF BehindIsQueued, NoSharedSuccessor, FreeIsUnlinked
  <2>2. NoSharedSuccessor'
    BY DEF NoSharedSuccessor, FreeIsUnlinked, BehindIsQueued, LastIsTail
  <2>3. LastIsTail'
    BY DEF LastIsTail, FreeIsUnlinked
  <2>4. FreeIsUnlinked'
    BY DEF FreeIsUnlinked, LastIsTail, BehindIsQueued
  <2> QED BY <2>1, <2>2, <2>3, <2>4
<1>3. StateOrigin' /\ DiscardedNeverApplied'
  BY DEF StateOrigin, DiscardedNeverApplied, TypeOK
<1>4. RefreshOwed'
  BY DEF RefreshOwed, Running, TypeOK
<1>5. SerialUnlessInterrupted'
  BY DEF SerialUnlessInterrupted, Interrupted, Running, TypeOK
<1> QED BY <1>1, <1>2, <1>3, <1>4, <1>5

LEMMA NextInv == IInv /\ [Next]_vars => IInv'
PROOF
<1> SUFFICES ASSUME IInv, [Next]_vars PROVE IInv'
  OBVIOUS
<1>1. ASSUME NEW a \in Fresh(Requests), NEW k \in Kinds, Dispatch(a, k)
      PROVE  IInv'
  <2>1. a \in Nodes /\ phase[a] = "free"
    BY DEF Fresh, Nodes
  <2> QED BY <1>1, <2>1, DispatchIdleInv, DispatchInterruptInv, DispatchAppendInv
          DEF Dispatch
<1>2. ASSUME NEW a \in Nodes, Settle(a) PROVE IInv'
  BY <1>2, SettleInv
<1>3. CASE UNCHANGED vars
  BY <1>3 DEF IInv, TypeOK, QueueShape, BehindIsQueued, NoSharedSuccessor,
     LastIsTail, FreeIsUnlinked, StateOrigin, DiscardedNeverApplied,
     RefreshOwed, SerialUnlessInterrupted, Live, Running, Interrupted,
     vars, nodeVars, queueVars
<1> QED BY <1>1, <1>2, <1>3 DEF Next

LEMMA InitInv == Init => IInv
PROOF
<1> SUFFICES ASSUME Init PROVE IInv
  OBVIOUS
<1> USE NullIsNoNode DEF Init
<1>2. TypeOK
  BY DEF TypeOK, Kinds
<1>3. QueueShape
  BY DEF QueueShape, BehindIsQueued, NoSharedSuccessor, LastIsTail,
     FreeIsUnlinked, Live
<1>4. StateOrigin /\ DiscardedNeverApplied
  BY DEF StateOrigin, DiscardedNeverApplied
<1>5. RefreshOwed /\ SerialUnlessInterrupted
  BY DEF RefreshOwed, SerialUnlessInterrupted, Running
<1> QED BY <1>2, <1>3, <1>4, <1>5 DEF IInv

LEMMA AlwaysIInv == Spec => []IInv
BY InitInv, NextInv, PTL DEF Spec

\* Type correctness of the queue: in particular actionQueue.pending is null
\* or an action whose reducer is running.
THEOREM TypeCorrect == Spec => []TypeOK
BY AlwaysIInv, PTL DEF IInv

\* handleResult: the result of a discarded action never enters the router
\* state, nor the prevState of any reducer.
THEOREM DiscardedStaysOut == Spec => []DiscardedNeverApplied
BY AlwaysIInv, PTL DEF IInv

\* runRemainingActions: an owed refresh always has a reducer other than the
\* pending one still to settle, whose completion will look at it.
THEOREM OwedRefreshIsBacked == Spec => []RefreshOwed
BY AlwaysIInv, PTL DEF IInv

\* dispatchAction: without an overtaking navigation actions run one at a
\* time, each on the state its predecessor left, and no update is lost.
THEOREM SerialExecution == Spec => []SerialUnlessInterrupted
BY AlwaysIInv, PTL DEF IInv

\* runAction: a settled action never runs again, and while its reducer runs
\* neither its phase nor its prevState is touched by anything else.
THEOREM EachActionRunsOnce == Spec => RunsOnce
PROOF
<1> DEFINE Step == \A a \in Nodes :
       /\ phase[a] = "settled" => phase'[a] = "settled"
       /\ phase[a] = "running" => phase'[a] # "queued"
       /\ phase[a] = "running" => base'[a] = base[a]
<1> USE NullIsNoNode DEF IInv
<1>1. ASSUME IInv, [Next]_vars PROVE Step
  <2>1. ASSUME NEW a \in Fresh(Requests), NEW k \in Kinds, Dispatch(a, k)
        PROVE  Step
    <3>1. a \in Nodes /\ phase[a] = "free"
      BY DEF Fresh, Nodes
    <3> QED BY <1>1, <2>1, <3>1 DEF Dispatch, DispatchIdle, DispatchInterrupt,
              DispatchAppend, TypeOK
  <2>2. ASSUME NEW a \in Nodes, NEW st, NEW owes, phase[a] = "running",
               RunRemainingActions(a, st, owes)
        PROVE  Step
    <3>1. CASE StartNext(a, st, owes)
      <4>1. next[pending] \in Nodes /\ phase[next[pending]] = "queued"
        BY <1>1, <3>1 DEF StartNext, TypeOK, QueueShape, BehindIsQueued, Live
      <4> QED BY <1>1, <2>2, <3>1, <4>1 DEF StartNext, RunAfter, TypeOK
    <3>2. CASE QueueDrained(a, owes) \/ NothingOwed(a, owes)
      BY <1>1, <2>2, <3>2 DEF QueueDrained, NothingOwed, TypeOK
    <3>3. CASE DispatchOwedRefresh(a, st, owes)
      <4>1. PICK r \in Fresh(Refreshes) : RunAfter(a, r, st)
        BY <3>3 DEF DispatchOwedRefresh
      <4>2. r \in Nodes /\ phase[r] = "free"
        BY DEF Fresh, Nodes
      <4> QED BY <1>1, <2>2, <4>1, <4>2 DEF RunAfter, TypeOK
    <3> QED BY <2>2, <3>1, <3>2, <3>3 DEF RunRemainingActions
  <2>3. ASSUME NEW a \in Nodes, Settle(a) PROVE Step
    BY <2>2, <2>3 DEF Settle, Fulfil, FulfilDiscarded, Reject
  <2>4. CASE UNCHANGED vars
    BY <2>4 DEF vars, nodeVars
  <2> QED BY <1>1, <2>1, <2>3, <2>4 DEF Next
<1>2. IInv /\ [Next]_vars => [Step]_vars
  BY <1>1
<1> QED BY <1>2, AlwaysIInv, PTL DEF Spec, RunsOnce
-----------------------------------------------------------------------------
(* What React shows.  dispatchAction hands React every action but a restore *)
(* at once, so while one of them runs React holds the one dispatched last;  *)
(* a restore reaches React when it settles.                                 *)
NothingBehindRestore == \A a \in Nodes : kind[a] = "restore" => next[a] = NoAction
QueuedIsNoRestore == \A x \in Nodes : phase[x] = "queued" => kind[x] # "restore"

\* Without an interruption only actionQueue.last has nothing behind it, and
\* it has settled when the queue is idle.
OnlyLastIsTail ==
  ~Interrupted =>
    /\ \A x \in Nodes : (Live(x) /\ next[x] = NoAction) => x = last
    /\ (pending = NoAction /\ last # NoAction) => phase[last] = "settled"

ShownToReact ==
  (~Interrupted /\ NothingBehindRestore) =>
    IF pending # NoAction /\ kind[pending] # "restore"
    THEN canonical = last
    ELSE canonical # NoAction =>
           /\ phase[canonical] = "settled"
           /\ promise[canonical] = "resolved" => state = base[canonical] \cup {canonical}

AgreeInv == QueuedIsNoRestore /\ OnlyLastIsTail /\ ShownToReact

LEMMA DispatchAgrees ==
  ASSUME NEW a \in Nodes, phase[a] = "free", NEW k \in Kinds, IInv, AgreeInv,
         Dispatch(a, k)
  PROVE  AgreeInv'
PROOF
<1> USE NullIsNoNode DEF IInv, AgreeInv
<1>1. CASE DispatchIdle(a, k)
  <2> USE <1>1 DEF DispatchIdle
  <2>1. QueuedIsNoRestore'
    BY DEF QueuedIsNoRestore, TypeOK
  <2>2. OnlyLastIsTail'
    BY DEF OnlyLastIsTail, Interrupted, Live, TypeOK, QueueShape, LastIsTail,
       SerialUnlessInterrupted, Running
  <2>3. ShownToReact'
    BY DEF ShownToReact, Interrupted, NothingBehindRestore, Handed, TypeOK,
       QueueShape, FreeIsUnlinked
  <2> QED BY <2>1, <2>2, <2>3
<1>2. CASE DispatchInterrupt(a, k)
  <2> USE <1>2 DEF DispatchInterrupt
  <2>1. Interrupted'
    BY DEF Interrupted, TypeOK
  <2>2. QueuedIsNoRestore'
    BY DEF QueuedIsNoRestore, TypeOK
  <2> QED BY <2>1, <2>2 DEF OnlyLastIsTail, ShownToReact
<1>3. CASE DispatchAppend(a, k)
  <2> USE <1>3 DEF DispatchAppend
  <2>1. QueuedIsNoRestore'
    BY DEF QueuedIsNoRestore, TypeOK, IsNavigation
  <2>2. OnlyLastIsTail'
    BY DEF OnlyLastIsTail, Interrupted, Live, TypeOK, QueueShape, LastIsTail,
       FreeIsUnlinked
  \* A restore that is pending is last, and would now have a successor.
  <2>3. CASE kind[pending] = "restore" /\ ~Interrupted
    <3>1. next[pending] = NoAction => pending = last
      BY <2>3 DEF OnlyLastIsTail, Live, TypeOK
    <3>2. ~NothingBehindRestore'
      BY <2>3, <3>1 DEF NothingBehindRestore, TypeOK, QueueShape, LastIsTail
    <3> QED BY <2>1, <2>2, <3>2 DEF ShownToReact
  <2>4. CASE ~(kind[pending] = "restore" /\ ~Interrupted)
    <3>1. ShownToReact'
      BY <2>4 DEF ShownToReact, Interrupted, TypeOK
    <3> QED BY <2>1, <2>2, <3>1
  <2> QED BY <2>3, <2>4
<1> QED BY <1>1, <1>2, <1>3 DEF Dispatch

\* The settling of a reducer's promise.  Without an interruption it is that
\* of the pending action.
LEMMA SettleAgrees ==
  ASSUME NEW a \in Nodes, NEW st, NEW owes, NEW res \in BOOLEAN, IInv, AgreeInv,
         SettleStep(a, st, owes), canonical' = HandedAfter(a, res),
         (promise'[a] = "resolved" /\ ~discarded[a]) =>
            (res /\ st = base[a] \cup {a}),
         res => promise'[a] = "resolved", ~res => st = state
  PROVE  AgreeInv'
PROOF
<1> USE NullIsNoNode DEF IInv, AgreeInv
<1>0. /\ phase[a] = "running" /\ state' = st
      /\ UNCHANGED <<next, discarded>>
      /\ \A b \in Nodes \ {a} : promise'[b] = promise[b]
  BY DEF SettleStep
<1>1. CASE StartNext(a, st, owes)
  <2> DEFINE n == next[pending]
  <2>1. /\ pending \in Nodes /\ n \in Nodes /\ phase[n] = "queued"
        /\ n # pending /\ n # a
    BY <1>0, <1>1 DEF StartNext, TypeOK, QueueShape, BehindIsQueued, Live
  <2>2. /\ phase' = [phase EXCEPT ![a] = "settled", ![n] = "running"]
        /\ pending' = n /\ UNCHANGED <<kind, last>>
    BY <1>1 DEF StartNext, RunAfter
  <2>3. QueuedIsNoRestore'
    BY <2>1, <2>2 DEF QueuedIsNoRestore, TypeOK
  <2>4. OnlyLastIsTail'
    BY <1>0, <2>1, <2>2 DEF OnlyLastIsTail, Interrupted, Live, TypeOK
  <2>5. ShownToReact'
    <3> SUFFICES ASSUME ~Interrupted, NothingBehindRestore PROVE canonical' = last'
      BY <1>0, <2>1, <2>2 DEF ShownToReact, Interrupted, NothingBehindRestore,
         QueuedIsNoRestore
    <3>1. a = pending /\ kind[a] # "restore"
      BY <1>0, <2>1 DEF SerialUnlessInterrupted, Running, NothingBehindRestore
    <3> QED BY <2>1, <2>2, <3>1 DEF ShownToReact, HandedAfter
  <2> QED BY <2>3, <2>4, <2>5
<1>2. CASE QueueDrained(a, owes)
  <2>1. /\ phase' = [phase EXCEPT ![a] = "settled"]
        /\ pending \in Nodes /\ next[pending] = NoAction /\ pending' = NoAction
        /\ UNCHANGED <<kind, base, last>>
    BY <1>2 DEF QueueDrained, TypeOK
  <2>2. QueuedIsNoRestore'
    BY <2>1 DEF QueuedIsNoRestore, TypeOK
  <2>3. OnlyLastIsTail'
    BY <1>0, <2>1 DEF OnlyLastIsTail, Interrupted, Live, TypeOK,
       SerialUnlessInterrupted, Running
  <2>4. ShownToReact'
    <3> SUFFICES ASSUME ~Interrupted, NothingBehindRestore, canonical' # NoAction
                 PROVE  /\ phase'[canonical'] = "settled"
                        /\ promise'[canonical'] = "resolved" =>
                              state' = base'[canonical'] \cup {canonical'}
      BY <1>0, <2>1 DEF ShownToReact, Interrupted, NothingBehindRestore
    <3>1. a = pending /\ a = last
      BY <1>0, <2>1 DEF SerialUnlessInterrupted, Running, OnlyLastIsTail, Live
    <3>2. ~discarded[a]
      BY DEF Interrupted
    <3>3. CASE kind[a] # "restore" \/ res
      <4>1. canonical' = a
        BY <2>1, <3>1, <3>3 DEF HandedAfter, ShownToReact
      <4> QED BY <1>0, <2>1, <3>2, <4>1 DEF TypeOK
    <3>4. CASE kind[a] = "restore" /\ ~res
      <4>1. canonical' = canonical /\ st = state /\ canonical \in Nodes
        BY <2>1, <3>4 DEF HandedAfter, TypeOK
      <4>2. phase[canonical] = "settled" /\ canonical # a
        BY <1>0, <2>1, <3>1, <3>4, <4>1 DEF ShownToReact
      <4> QED BY <1>0, <2>1, <3>1, <3>4, <4>1, <4>2 DEF ShownToReact, TypeOK
    <3> QED BY <3>3, <3>4
  <2> QED BY <2>2, <2>3, <2>4
<1>3. CASE NothingOwed(a, owes)
  <2>1. Interrupted /\ Interrupted'
    BY <1>0, <1>3 DEF NothingOwed, SerialUnlessInterrupted, Running, Interrupted
  <2>2. QueuedIsNoRestore'
    BY <1>3 DEF NothingOwed, QueuedIsNoRestore, TypeOK
  <2> QED BY <2>1, <2>2 DEF OnlyLastIsTail, ShownToReact
<1>4. CASE DispatchOwedRefresh(a, st, owes)
  <2>1. Interrupted /\ Interrupted'
    BY <1>0, <1>4 DEF DispatchOwedRefresh, SerialUnlessInterrupted, Running, Interrupted
  <2>2. PICK r \in Fresh(Refreshes) : /\ kind' = [kind EXCEPT ![r] = "refresh"]
                                      /\ RunAfter(a, r, st)
    BY <1>4 DEF DispatchOwedRefresh
  <2>3. QueuedIsNoRestore'
    BY <2>2 DEF QueuedIsNoRestore, RunAfter, TypeOK, Fresh, Nodes
  <2> QED BY <2>1, <2>3 DEF OnlyLastIsTail, ShownToReact
<1> QED BY <1>1, <1>2, <1>3, <1>4 DEF SettleStep, RunRemainingActions

LEMMA NextAgrees == IInv /\ AgreeInv /\ [Next]_vars => AgreeInv'
PROOF
<1> SUFFICES ASSUME IInv, AgreeInv, [Next]_vars PROVE AgreeInv'
  OBVIOUS
<1>1. ASSUME NEW a \in Fresh(Requests), NEW k \in Kinds, Dispatch(a, k)
      PROVE  AgreeInv'
  <2>1. a \in Nodes /\ phase[a] = "free"
    BY DEF Fresh, Nodes
  <2> QED BY <1>1, <2>1, DispatchAgrees
<1>2. ASSUME NEW a \in Nodes, Fulfil(a) PROVE AgreeInv'
  <2>1. SettleStep(a, base[a] \cup {a}, needsRefresh)
    BY <1>2, HandedAfterType DEF Fulfil, Dropped, SettleStep, IInv, TypeOK
  <2> QED BY <1>2, <2>1, SettleAgrees DEF Fulfil, IInv, TypeOK
<1>3. ASSUME NEW a \in Nodes, NEW d \in BOOLEAN, FulfilDiscarded(a, d) PROVE AgreeInv'
  <2>1. SettleStep(a, state, needsRefresh \/ d)
    BY <1>3, HandedAfterType DEF FulfilDiscarded, Dropped, SettleStep, IInv, TypeOK
  <2> QED BY <1>3, <2>1, SettleAgrees DEF FulfilDiscarded, Dropped
<1>4. ASSUME NEW a \in Nodes, Reject(a) PROVE AgreeInv'
  <2>1. SettleStep(a, state, needsRefresh)
    BY <1>4, HandedAfterType DEF Reject, SettleStep, IInv, TypeOK
  <2>2. promise[a] = "pending"
    BY <1>4 DEF Reject, IInv, StateOrigin
  <2>3. promise'[a] # "resolved"
    BY <1>4, <2>2 DEF Reject, IInv, TypeOK
  <2> QED BY <1>4, <2>1, <2>3, SettleAgrees DEF Reject
<1>5. CASE UNCHANGED vars
  BY <1>5 DEF AgreeInv, QueuedIsNoRestore, OnlyLastIsTail, ShownToReact,
     NothingBehindRestore, Live, Interrupted, vars, nodeVars, queueVars
<1> QED BY <1>1, <1>2, <1>3, <1>4, <1>5 DEF Next, Settle

\* handleResult and dispatchAction: once nothing runs, and if no navigation
\* overtook another and nothing was queued behind a restore, the action React
\* was handed last has settled and, unless it failed, React shows the state
\* of the queue.
THEOREM ReactAgrees == Spec => []ReactAgreesWhenIdle
PROOF
<1>1. Init => AgreeInv
  BY NullIsNoNode DEF Init, AgreeInv, QueuedIsNoRestore, OnlyLastIsTail, ShownToReact, Live
<1>2. IInv /\ AgreeInv => ReactAgreesWhenIdle
  <2> SUFFICES ASSUME IInv, ShownToReact, ~Interrupted, Running = {},
                      canonical # NoAction, NothingBehindRestore
               PROVE  /\ phase[canonical] = "settled"
                      /\ promise[canonical] = "resolved" =>
                            state = base[canonical] \cup {canonical}
    BY DEF ReactAgreesWhenIdle, AgreeInv, NothingBehindRestore
  <2>1. pending = NoAction
    BY DEF IInv, TypeOK, Running
  <2> QED BY <2>1 DEF ShownToReact
<1> QED BY <1>1, <1>2, AlwaysIInv, NextAgrees, PTL DEF Spec
=============================================================================
