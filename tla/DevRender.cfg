SPECIFICATION FairSpec
CONSTANTS
  a = a
  b = b
  long = long
  short = short
  Tasks <- MCTasks
  Keys <- MCKeys
  Life <- MCLife
  Programs <- MCPrograms
  HandlerHas = {"absent", "fresh"}
INVARIANTS
  TypeOK
  CountsAgree
  StagedAsPrerendered
  FinalRenderIsWarm
  AbandonedStopsAtDynamic
  SyncIOReported
PROPERTY
  EveryRequestServed
