SPECIFICATION FairSpec
CONSTANTS
  Requests = {r1, r2}
  Kinds = {"get", "prefetch", "onDemand"}
  Revalidate = 0
  RetryAfter = 0
  MaxVersion = 1
  MaxTime = 1
INVARIANTS
  TypeOK
  CachedIsNotAwaited
  AnswersAreCurrent
PROPERTIES
  StoredIsNewer
  EveryRequestSettles
