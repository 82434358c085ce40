---------------------------- MODULE ActionQueue ----------------------------
(***************************************************************************)
(* The App Router's action queue: router actions (navigations, traversals, *)
(* server actions, refreshes) are dispatched at any time, and the router   *)
(* state is what their reducers make of it, one after the other.           *)
(* A node is one ActionQueueNode.  A router state is the set of the        *)
(* actions whose effect it includes, so a reducer run from prevState gives *)
(* prevState \cup {a}; a lost update is an action missing from that set.   *)
(***************************************************************************)
EXTENDS Integers, FiniteSets

CONSTANTS
  Requests,   \* nodes for the actions the application dispatches
  Refreshes,  \* nodes for the refreshes the queue dispatches to itself
  NoAction    \* JavaScript's null

ASSUME NodeAssumption ==
  /\ Requests \subseteq Nat /\ Refreshes \subseteq Nat
  /\ Requests \cap Refreshes = {}
  /\ NoAction \notin Requests \cup Refreshes

Nodes == Requests \cup Refreshes
Kinds == {"navigate", "restore", "server-action", "refresh"}

\* dispatchAction lets these two overtake whatever is pending.
IsNavigation(k) == k \in {"navigate", "restore"}

VARIABLES
  kind,         \* payload.type, "none" before the node exists
  next,         \* node.next
  discarded,    \* node.discarded
  phase,        \* free, queued, running (its reducer was called), settled
  base,         \* the prevState its reducer was called with
  promise,      \* the promise React was given: pending, resolved, rejected
  state,        \* actionQueue.state
  pending,      \* actionQueue.pending
  last,         \* actionQueue.last
  needsRefresh, \* actionQueue.needsRefresh
  canonical     \* the action whose promise or state React was handed last

nodeVars == <<kind, next, discarded, phase, base, promise>>
queueVars == <<state, pending, last, needsRefresh, canonical>>
vars == <<nodeVars, queueVars>>

TypeOK ==
  /\ kind \in [Nodes -> Kinds \cup {"none"}]
  /\ next \in [Nodes -> Nodes \cup {NoAction}]
  /\ discarded \in [Nodes -> BOOLEAN]
  /\ phase \in [Nodes -> {"free", "queued", "running", "settled"}]
  /\ base \in [Nodes -> SUBSET Nodes]
  /\ promise \in [Nodes -> {"pending", "resolved", "rejected"}]
  /\ state \in SUBSET Nodes
  /\ pending \in Nodes \cup {NoAction}
  /\ last \in Nodes \cup {NoAction}
  /\ needsRefresh \in BOOLEAN
  /\ canonical \in Nodes \cup {NoAction}
  \* Only a running action is ever actionQueue.pending.
  /\ pending # NoAction => phase[pending] = "running"
  /\ \A a \in Nodes : phase[a] = "free" <=> kind[a] = "none"

Init ==
  /\ kind = [a \in Nodes |-> "none"]
  /\ next = [a \in Nodes |-> NoAction]
  /\ discarded = [a \in Nodes |-> FALSE]
  /\ phase = [a \in Nodes |-> "free"]
  /\ base = [a \in Nodes |-> {}]
  /\ promise = [a \in Nodes |-> "pending"]
  /\ state = {} /\ pending = NoAction /\ last = NoAction
  /\ needsRefresh = FALSE /\ canonical = NoAction

Running == {a \in Nodes : phase[a] = "running"}

\* Nodes are allocated in increasing order: their names carry no meaning.
Fresh(S) ==
  {a \in S : phase[a] = "free" /\ \A b \in S : b < a => phase[b] # "free"}

-----------------------------------------------------------------------------
(* dispatchAction.  React is handed the new promise at once, except for a  *)
(* restore, which hands React its state when it resolves.                  *)
Handed(a, k) == IF k = "restore" THEN canonical ELSE a

\* The queue is empty: the action becomes last and runs.
DispatchIdle(a, k) ==
  /\ pending = NoAction
  /\ kind' = [kind EXCEPT ![a] = k]
  /\ phase' = [phase EXCEPT ![a] = "running"]
  /\ base' = [base EXCEPT ![a] = state]
  /\ pending' = a /\ last' = a
  /\ canonical' = Handed(a, k)
  /\ UNCHANGED <<next, discarded, promise, state, needsRefresh>>

InheritedQueue_Relinked == pending
InheritedQueue == next[pending]

\* A navigation discards the pending action, inherits the rest of the queue
\* and runs; actionQueue.last is not touched.
DispatchInterrupt(a, k) ==
  /\ pending # NoAction /\ IsNavigation(k)
  /\ kind' = [kind EXCEPT ![a] = k]
  /\ discarded' = [discarded EXCEPT ![pending] = TRUE]
  /\ next' = [next EXCEPT ![a] = InheritedQueue]
  /\ phase' = [phase EXCEPT ![a] = "running"]
  /\ base' = [base EXCEPT ![a] = state]
  /\ pending' = a
  /\ canonical' = Handed(a, k)
  /\ UNCHANGED <<promise, state, last, needsRefresh>>

\* Anything else goes behind actionQueue.last.
DispatchAppend(a, k) ==
  /\ pending # NoAction /\ ~IsNavigation(k)
  /\ kind' = [kind EXCEPT ![a] = k]
  /\ next' = IF last = NoAction THEN next ELSE [next EXCEPT ![last] = a]
  /\ phase' = [phase EXCEPT ![a] = "queued"]
  /\ last' = a
  /\ canonical' = a
  /\ UNCHANGED <<discarded, base, promise, state, pending, needsRefresh>>

Dispatch(a, k) ==
  DispatchIdle(a, k) \/ DispatchInterrupt(a, k) \/ DispatchAppend(a, k)

-----------------------------------------------------------------------------
(* The callback of runAction's promise and runRemainingActions, one step   *)
(* with no suspension point: st is actionQueue.state and owes is           *)
(* actionQueue.needsRefresh when runRemainingActions is called.            *)
RunAfter_StalePrevState(a, n, st) ==
  /\ phase' = [phase EXCEPT ![a] = "settled", ![n] = "running"]
  /\ base' = [base EXCEPT ![n] = state]
  /\ pending' = n

\* runAction for n, from the callback of a.
RunAfter(a, n, st) ==
  /\ phase' = [phase EXCEPT ![a] = "settled", ![n] = "running"]
  /\ base' = [base EXCEPT ![n] = st]
  /\ pending' = n

StartNext(a, st, owes) ==
  /\ pending # NoAction /\ next[pending] # NoAction
  /\ RunAfter(a, next[pending], st)
  /\ needsRefresh' = owes
  /\ UNCHANGED <<kind, last>>

QueueDrained_KeepsPending(a, owes) ==
  /\ pending # NoAction /\ next[pending] = NoAction
  /\ phase' = [phase EXCEPT ![a] = "settled"]
  /\ needsRefresh' = owes
  /\ UNCHANGED <<kind, base, pending, last>>

QueueDrained(a, owes) ==
  /\ pending # NoAction /\ next[pending] = NoAction
  /\ phase' = [phase EXCEPT ![a] = "settled"]
  /\ pending' = NoAction
  /\ needsRefresh' = owes
  /\ UNCHANGED <<kind, base, last>>

NothingOwed_Unchecked(a, owes) ==
  /\ pending = NoAction
  /\ phase' = [phase EXCEPT ![a] = "settled"]
  /\ needsRefresh' = owes
  /\ UNCHANGED <<kind, base, pending, last>>

NothingOwed(a, owes) ==
  /\ pending = NoAction /\ ~owes
  /\ phase' = [phase EXCEPT ![a] = "settled"]
  /\ needsRefresh' = owes
  /\ UNCHANGED <<kind, base, pending, last>>

DispatchOwedRefresh(a, st, owes) ==
  /\ pending = NoAction /\ owes
  /\ \E r \in Fresh(Refreshes) :
       /\ kind' = [kind EXCEPT ![r] = "refresh"]
       /\ RunAfter(a, r, st)
       /\ last' = r
  /\ needsRefresh' = FALSE

RunRemainingActions(a, st, owes) ==
  \/ StartNext(a, st, owes)
  \/ QueueDrained(a, owes)
  \/ NothingOwed(a, owes)
  \/ DispatchOwedRefresh(a, st, owes)

\* What React holds afterwards: a restore's setState comes after the
\* promise of a refresh dispatched by runRemainingActions.
HandedAfter_ForgetsRestore(a, resolves) ==
  IF pending = NoAction /\ last' # last THEN last' ELSE canonical

HandedAfter(a, resolves) ==
  IF resolves /\ kind[a] = "restore" THEN a
  ELSE IF pending = NoAction /\ last' # last THEN last' ELSE canonical

Dropped_Never(a) == FALSE
Dropped(a) == discarded[a]

\* handleResult for an action that was not discarded.
Fulfil(a) ==
  /\ phase[a] = "running" /\ ~Dropped(a)
  /\ state' = base[a] \cup {a}
  /\ RunRemainingActions(a, state', needsRefresh)
  /\ promise' = [promise EXCEPT ![a] = "resolved"]
  /\ canonical' = HandedAfter(a, TRUE)
  /\ UNCHANGED <<next, discarded>>

FulfilDiscarded_SkipsQueue(a, didRevalidate) ==
  /\ phase[a] = "running" /\ discarded[a]
  /\ didRevalidate => kind[a] = "server-action"
  /\ phase' = [phase EXCEPT ![a] = "settled"]
  /\ needsRefresh' = (needsRefresh \/ didRevalidate)
  /\ UNCHANGED <<kind, base, next, discarded, promise, state, pending, last, canonical>>

\* handleResult for a discarded action: its state is dropped, a server
\* action that revalidated data owes a refresh, its promise stays pending.
FulfilDiscarded(a, didRevalidate) ==
  /\ phase[a] = "running" /\ Dropped(a)
  /\ didRevalidate => kind[a] = "server-action"
  /\ RunRemainingActions(a, state, needsRefresh \/ didRevalidate)
  /\ canonical' = HandedAfter(a, FALSE)
  /\ UNCHANGED <<state, promise, next, discarded>>

\* The reducer's promise rejects (a restore's reject does nothing).
Reject(a) ==
  /\ phase[a] = "running"
  /\ RunRemainingActions(a, state, needsRefresh)
  /\ promise' = IF kind[a] = "restore" THEN promise
                ELSE [promise EXCEPT ![a] = "rejected"]
  /\ canonical' = HandedAfter(a, FALSE)
  /\ UNCHANGED <<state, next, discarded>>

Settle(a) ==
  \/ Fulfil(a)
  \/ \E d \in BOOLEAN : FulfilDiscarded(a, d)
  \/ Reject(a)

Next ==
  \/ \E a \in Fresh(Requests), k \in Kinds : Dispatch(a, k)
  \/ \E a \in Nodes : Settle(a)

Spec == Init /\ [][Next]_vars

\* Every reducer's promise settles: the requests behind it end or fail.
FairSpec == Spec /\ \A a \in Nodes : WF_vars(Settle(a))

-----------------------------------------------------------------------------
(* Properties.                                                             *)

\* "If we discarded this action, the state should also be discarded"
\* (handleResult): no router state, applied or handed to a reducer as its
\* prevState, ever includes an action a navigation has discarded.
DiscardedNeverApplied ==
  \A a \in Nodes : discarded[a] =>
    /\ a \notin state
    /\ \A b \in Nodes : a \notin base[b]

\* A reducer is called at most once per action and a settled action stays
\* settled, however navigations re-link the nodes they inherit.
RunsOnce ==
  [][\A a \in Nodes :
       /\ phase[a] = "settled" => phase'[a] = "settled"
       /\ phase[a] = "running" => phase'[a] # "queued"
       /\ phase[a] = "running" => base'[a] = base[a]]_vars

\* An owed refresh is never stranded: whenever needsRefresh is set, a
\* reducer other than the pending one is still running, and only the last
\* such completion finds pending already null and dispatches the refresh.
RefreshOwed == needsRefresh => Running \ {pending} # {}

\* Until a navigation overtakes a pending action the queue is serial: at
\* most the pending action runs, it runs on the current state, and every
\* action whose promise resolved is part of the state.
Interrupted == \E a \in Nodes : discarded[a]
SerialUnlessInterrupted ==
  ~Interrupted =>
    /\ Running = {pending} \ {NoAction}
    /\ pending # NoAction => base[pending] = state
    /\ \A a \in Nodes : promise[a] = "resolved" => a \in state

\* Without an interruption, and with nothing queued behind a restore (whose
\* setState would then come after a later action's promise), an idle queue
\* and React agree: the action React was handed last has settled, and unless
\* it failed React shows the state of the queue.
ReactAgreesWhenIdle ==
  (/\ ~Interrupted /\ Running = {} /\ canonical # NoAction
   /\ \A a \in Nodes : kind[a] = "restore" => next[a] = NoAction) =>
    /\ phase[canonical] = "settled"
    /\ promise[canonical] = "resolved" => state = base[canonical] \cup {canonical}

\* A refresh that is owed is eventually dispatched.
RefreshDispatched == needsRefresh ~> ~needsRefresh

\* dispatchAction, lines 209-210: an action put at the end of the queue
\* "will be started by runRemainingActions after the previous action
\* finishes".
QueuedIsStarted ==
  \A a \in Nodes : (phase[a] = "queued") ~> (phase[a] # "queued")
=============================================================================
