\* Four dispatched actions and as many refreshes as they can owe.
CONSTANTS
  Requests = {1, 2, 3, 4}
  Refreshes = {11, 12, 13}
  NoAction = NoAction
SPECIFICATION FairSpec
INVARIANTS TypeOK DiscardedNeverApplied RefreshOwed SerialUnlessInterrupted ReactAgreesWhenIdle
PROPERTIES RunsOnce RefreshDispatched
\* The application may stop dispatching.
CHECK_DEADLOCK FALSE
