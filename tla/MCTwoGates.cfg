CONSTANTS
  a = a
  b = b
  c = c
  z = z
  e1 = e1
  bad = bad
  r1 = r1
  r2 = r2
  StepIds = {a, b}
  Plan <- TwoGates
  Edits = {e1, bad}
  BadEdits = {bad}
  NoEdit = NoEdit
  NoStep = NoStep
  Requests = {r1, r2}
  NoRequest = NoRequest
  Bodies <- TwoGateBodies
  TokenBudget = 1
  Retries = 1
  Usages = {1, 2}
  NoUsage = NoUsage
  GatedSteps = {a, b}
  GatedKinds = {}
  GateConfigured = TRUE
  VerifyDocuments = FALSE
SPECIFICATION FairSpec
INVARIANTS
  OneStepAtATime
  RefusedNeverResumes
  SpendIsExact
PROPERTIES
  JobTerminates
CHECK_DEADLOCK FALSE
