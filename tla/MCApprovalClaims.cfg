CONSTANTS
  a = a
  b = b
  c = c
  r1 = r1
  r2 = r2
  StepIds = {a, b, c}
  Plan <- ThreeSteps
  Edits = {}
  BadEdits = {}
  NoEdit = NoEdit
  NoStep = NoStep
  Requests = {r1, r2}
  NoRequest = NoRequest
  Bodies <- OverlappingSets
  TokenBudget = 2
  Usages = {1, 2}
SPECIFICATION Spec
SYMMETRY RequestSymmetry
INVARIANTS
  ClaimIsAllOrNothing
  EventsMatchClaims
