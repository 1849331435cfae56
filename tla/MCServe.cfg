SPECIFICATION Spec
CONSTANTS
  None = None
  Missing = Missing
  Configs <- SomeConfigs
  OptionSets <- SomeOptions
  NodeStates <- SomeNodes
  MaxChanges = 1
  Payments = {p1}
  Backups = {b1}
  MaxLosses = 1
  Clients = {c1, c2}
  Observed = c1
  Requests = {r1}
  Second = 2
  Window = 3
  Max = 2
  Grace = 2
INVARIANTS AdmissionBound RedeemedOncePerLoss
PROPERTIES RetryIsAdmitted DoctorAgrees BackupIsComplete ShutdownEnds
CHECK_DEADLOCK FALSE
