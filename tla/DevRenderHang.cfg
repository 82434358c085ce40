SPECIFICATION FairSpec
CONSTANTS
  a = a
  b = b
  long = long
  short = short
  Tasks <- MCTasks
  Keys <- MCKeys
  Life <- MCStaleLife
  Programs <- MCTwoElements
  HandlerHas = {"absent", "fresh"}
PROPERTY
  EveryRequestServed
\* The request never ends.
CHECK_DEADLOCK FALSE
