---------------------------- MODULE MCDevRender ----------------------------
(***************************************************************************)
(* Two components, of the segments that can be prefetched at runtime, or   *)
(* of others, which start in the static stage and have runtime APIs that   *)
(* resolve later.                                                          *)
(***************************************************************************)
EXTENDS DevRender, TLC

CONSTANTS a, b, long, short

ReadOf(k) == [do |-> "read", key |-> k]
WaitFor(s) == [do |-> "wait", stage |-> s]
Do(what) == [do |-> what]

EarlyOps == {ReadOf(k) : k \in Keys} \cup {WaitFor(EarlyRuntime), WaitFor(Dynamic)}
              \cup {Do("syncIO"), Do("lazyInit"), Do("io")}
LateOps == (EarlyOps \ {WaitFor(EarlyRuntime)}) \cup {WaitFor(Runtime)}

Early(n) == UNION {[1 .. m -> EarlyOps] : m \in 1 .. n}
Late(n) == {<<WaitFor(Static)>> \o ops : ops \in UNION {[1 .. m -> LateOps] : m \in 1 .. n}}

MCTasks == {a, b}
MCKeys == {long, short}
MCLife == long :> "long" @@ short :> "short"
MCPrograms ==
  {a :> p @@ b :> q : p \in Early(2), q \in Early(1) \cup Late(1)}
    \cup {a :> p @@ b :> q : p \in Early(1), q \in Late(2)}

\* Two elements of one component that calls a cached function.
MCStaleLife == long :> "long" @@ short :> "shortStale"
MCTwoElements == {a :> <<ReadOf(k)>> @@ b :> <<ReadOf(k)>> : k \in Keys}
=============================================================================
