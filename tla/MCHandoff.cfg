CONSTANTS
  a = a
  b = b
  c = c
  z = z
  e1 = e1
  bad = bad
  r1 = r1
  r2 = r2
  StepIds = {a, b, c, z}
  Plan <- Handoffs
  Edits = {e1, bad}
  BadEdits = {bad}
  NoEdit = NoEdit
  NoStep = NoStep
  Requests = {r1}
  NoRequest = NoRequest
  Bodies <- ApproveOnly
  TokenBudget = 2
  Retries = 1
  Usages = {}
  NoUsage = NoUsage
  GatedSteps = {z}
  GatedKinds = {}
  GateConfigured = FALSE
  VerifyDocuments = TRUE
SPECIFICATION Spec
INVARIANTS
  HandoffExact
CHECK_DEADLOCK FALSE
