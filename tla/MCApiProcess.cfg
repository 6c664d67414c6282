SPECIFICATION Spec
SYMMETRY Identical
CONSTANTS
  c1 = c1
  c2 = c2
  p1 = p1
  p2 = p2
  junk = junk
  Requests = {r1, r2, r3}
  Clients = {c1}
  Addresses <- MCAddresses
  Paths <- MCPaths
  Forgeries <- MCForgeries
  RawSettings <- MCRawSettings
  NoRequest = NoRequest
  Dawn <- MCDawn
  Window = 2
  MaxClock = 2
  MaxChanges = 1
INVARIANT NothingLeftOpen
INVARIANT CleanupHasItsStore
INVARIANT LoadedSettingsSuffice
INVARIANT LlmAdmissionsBounded
PROPERTY AnswersAreRecent
PROPERTY ProbesAreSpaced
CHECK_DEADLOCK FALSE
