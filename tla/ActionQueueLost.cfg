\* A navigation overtakes the only pending action and something is queued
\* behind it: three dispatched actions are enough.
CONSTANTS
  Requests = {1, 2, 3}
  Refreshes = {11, 12, 13}
  NoAction = NoAction
SPECIFICATION FairSpec
PROPERTIES QueuedIsStarted
CHECK_DEADLOCK FALSE
