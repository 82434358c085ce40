\* A prerender and a render in dev that share the imports, and two reads: one
\* each, one that wakes the other, or an import and a cache read.
CONSTANTS
  Prerenders = {p}
  DevRenders = {d}
  Modules = modules
  Reads = {1, 2}
  NoSignal = NoSignal
SPECIFICATION FairSpec
INVARIANTS TypeOK CountsAgree NoLostWakeup
PROPERTIES ReadyMeansSettled ImportsExtendPrerenders CacheReadyResolves
