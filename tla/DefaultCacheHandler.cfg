CONSTANTS
  tag = tag
  Keys = {k1}
  Data <- MCData
  SizeOf <- MCSizeOf
  MaxSize = 1
  Tags = {tag}
  Sets = {s1, s2}
  Gets = {g1}
  ExpireIn = 3
  TicksPerMs = 3
  MaxTime = 7
  MaxUpdates = 2
  NoCall = NoCall
  NoEntry = NoEntry
SPECIFICATION FairSpec
INVARIANTS TypeOK
PROPERTIES ExpiredNotServed GetWaitsForSoleSet GetIsAnswered
CHECK_DEADLOCK FALSE
