SPECIFICATION Spec
CONSTANTS
  Requests = {r1}
  Kinds = {"get", "prefetch", "onDemand"}
  Revalidate = 0
  RetryAfter = 0
  MaxVersion = 1
  MaxTime = 1
PROPERTY StoredIsFresh
