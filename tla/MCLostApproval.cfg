CONSTANTS
  a = a
  b = b
  c = c
  z = z
  e1 = e1
  bad = bad
  r1 = r1
  r2 = r2
  StepIds = {a, b}
  Plan <- ResearchThenWrite
  Edits = {e1, bad}
  BadEdits = {bad}
  NoEdit = NoEdit
  NoStep = NoStep
  Requests = {r1}
  NoRequest = NoRequest
  Bodies <- ApproveOnly
  TokenBudget = 2
  Retries = 0
  Usages = {1}
  NoUsage = NoUsage
  GatedSteps = {b}
  GatedKinds = {}
  GateConfigured = TRUE
  VerifyDocuments = TRUE
SPECIFICATION Spec
PROPERTIES
  ApprovalReachesWait
CHECK_DEADLOCK FALSE
