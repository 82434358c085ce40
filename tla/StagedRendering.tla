-------------------------- MODULE StagedRendering --------------------------
(***************************************************************************)
(* StagedRenderingController: a render goes through stages, and what must  *)
(* not be part of an earlier one waits for the promise of its stage.       *)
(*                                                                         *)
(* The controller is a value, its methods are operators from controllers   *)
(* to controllers, for the modules that model the renders it controls.     *)
(* The data signal is aborted only with a render that is discarded: the    *)
(* rejection of its promises is left out.                                  *)
(***************************************************************************)
EXTENDS Integers

Before == 1
EarlyStatic == 2     \* segments that can be prefetched at runtime
Static == 3          \* all segments
EarlyRuntime == 4
Runtime == 5
Dynamic == 6
Abandoned == 7

Stages == Before .. Abandoned
Advanceable == Static .. Dynamic      \* those that have a promise

Controllers ==
  [stage : Stages, open : SUBSET Advanceable,   \* the resolved promises
   interrupted : BOOLEAN,                       \* is there a syncInterruptReason?
   abortable : BOOLEAN, abandonable : BOOLEAN,
   abandonAborted : BOOLEAN]                    \* abandonController.signal.aborted

Controller(abortable, abandonable) ==
  [stage |-> Before, open |-> {}, interrupted |-> FALSE,
   abortable |-> abortable, abandonable |-> abandonable, abandonAborted |-> FALSE]

\* The promises of the stages from the current one to the last are resolved.
OpenTo(c, last) == c.open \cup {s \in Advanceable : c.stage < s /\ s <= last}

AdvanceStage(c, s) ==
  IF s <= c.stage THEN c ELSE [c EXCEPT !.stage = s, !.open = OpenTo(c, s)]

\* An abandoned render goes on as far as the runtime stage, to fill the caches
\* it finds there.
AbandonRender_ToDynamic(c) ==
  IF c.stage \in EarlyStatic .. Runtime
  THEN [c EXCEPT !.stage = Abandoned, !.open = OpenTo(c, Dynamic)] ELSE c
AbandonRender_InPlace(c) ==
  IF c.stage \in EarlyStatic .. Runtime THEN [c EXCEPT !.stage = Abandoned] ELSE c
AbandonRender_NextOnly(c) ==
  IF c.stage \in EarlyStatic .. Runtime
  THEN [c EXCEPT !.stage = Abandoned, !.open = OpenTo(c, c.stage + 1)] ELSE c
AbandonRender(c) ==
  IF c.stage \in EarlyStatic .. Runtime
  THEN [c EXCEPT !.stage = Abandoned, !.open = OpenTo(c, Runtime)] ELSE c

\* abandonController.abort(): its listener is called once.
Abandon(c) ==
  IF c.abandonAborted THEN c ELSE AbandonRender([c EXCEPT !.abandonAborted = TRUE])

ShouldTrackSyncInterrupt(c) == c.stage \in EarlyStatic .. EarlyRuntime

\* Sync IO: an abandonable render is rendered again, another one goes on to the
\* dynamic stage, and reports it.
Interrupted(c) ==
  IF c.stage \in EarlyStatic .. EarlyRuntime
  THEN AdvanceStage([c EXCEPT !.interrupted = TRUE], Dynamic) ELSE c
SyncInterrupt_AtOnce(c) == IF c.stage \in {Before, Abandoned} THEN c ELSE Interrupted(c)
SyncInterrupt(c) ==
  IF c.stage \in {Before, Abandoned} THEN c
  ELSE IF c.abandonable THEN Abandon(c)
  ELSE IF c.abortable THEN [c EXCEPT !.interrupted = TRUE, !.stage = Abandoned]
  ELSE Interrupted(c)

\* Where the runtime APIs and the short-lived caches wait, that are reached in
\* this stage.
GetRuntimeStage(c) == IF c.stage \in {EarlyStatic, EarlyRuntime} THEN EarlyRuntime ELSE Runtime
=============================================================================
