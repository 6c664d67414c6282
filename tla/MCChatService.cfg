SPECIFICATION FairSpec
CONSTANTS
  s1 = s1
  s2 = s2
  s3 = s3
  t1 = t1
  t2 = t2
  p = p
  q = q
  Sessions = {s1, s2, s3}
  Turns = {t1, t2}
  Streams = {t2}
  PrincipalOf <- MCPrincipalOf
  Owner <- MCOwner
  Known = {s1, s2}
  NoSession = NoSession
  NoHistory = NoHistory
  MaxMessages = 5
  MaxSessions = 1
  RequestLimit = 2
  TokenLimit = 2
  ToolCallLimit = 1
  Costs = {1, 2}
  MaxEvents = 3
INVARIANT TurnsAreKept
INVARIANT HistoryWellFormed
INVARIANT StoreWithinLimits
INVARIANT SessionsAreOwned
INVARIANT StopsAreAudited
INVARIANT CompletedMeansSaved
 
INVARIANT NoOrphanProducer
PROPERTY StreamEnds
CHECK_DEADLOCK FALSE
