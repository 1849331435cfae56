SPECIFICATION Spec
CONSTANTS
  n1 = n1
  n2 = n2
  None = None
  Calls = {1, 2}
  Builds = {1, 2, 3}
  Nodes = {n1, n2}
  ProcessEnv <- LiveEnv
  Inputs <- Bodies
  ReportSets <- ReportChoices
  Healths <- NodeStates
  Injected = FALSE
  TTL = 2
  MaxDisturbances = 2
INVARIANTS CacheHolds AnswerIsFresh AnswerIsWhole
