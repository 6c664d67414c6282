CONSTANTS
  a = a
  b = b
  StepIds = {a}
  Plan <- OneStep
  Edits = {}
  BadEdits = {}
  NoEdit = NoEdit
  NoStep = NoStep
  Retries = 1
  Usages = {}
  NoUsage = NoUsage
  GatedSteps = {a}
  GatedKinds = {}
  GateConfigured = TRUE
  VerifyDocuments = FALSE
  Browsers = {p1}
  MaxFaults = 1
SPECIFICATION FairSpec
INVARIANTS
  ClosedMeansDone
  HistoryFirst
PROPERTIES
  EndIsSeen
CHECK_DEADLOCK FALSE
