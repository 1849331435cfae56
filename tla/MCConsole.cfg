SPECIFICATION Spec
CONSTANTS
  s1 = s1
  s2 = s2
  s3 = s3
  x = x
  k1 = k1
  None = None
  MaxCalls = 2
  Sessions = {s1, s2, s3}
  Resources = {x}
  Secrets = {k1}
  FlowLimit = 2
  MaxChallenges = 2
  MaxRuntimes = 2
  MaxDisturbances = 2
  Me = s1
SYMMETRY Symmetry
INVARIANTS FlowTellsTheTruth SequentialFlowIsCoherent SessionsApart BusyKeepsRequestsApart PhaseIsEarned
CHECK_DEADLOCK FALSE
