CONSTANTS
  r1 = r1
  r2 = r2
  w1 = w1
  w2 = w2
  c1 = c1
  c2 = c2
  q = q
  Ingests = {w1, w2}
  Chunks = {c1, c2}
  Batch <- MCBatch
  Requests = {r1, r2}
  Deployments <- MCDeployments
  MaxDocuments = 1
  NoOrdinal = NoOrdinal
  NoVectors = NoVectors
  MaxRetries <- MCMaxRetries
  InitialK = 1
  WidenedK = 2
  MaxAttempts = 2
  NoAnswer = NoAnswer
  Question <- MCQuestion
  CacheSize = 1
  NoKey = NoKey
  NoRequest = NoRequest
SPECIFICATION Spec
INVARIANTS
  TypeOK
  ReadsAckedIngests
  OneRunPerKey
  AwaitedFutureHasLeader
  CacheBounded
  IdsNameChunks
  VectorsMatchDocuments
  AnswersAreGrounded
SYMMETRY Symmetry
CHECK_DEADLOCK FALSE
