CONSTANTS
  s1 = s1
  s2 = s2
  s3 = s3
  ann = ann
  i1 = i1
  i2 = i2
  t1 = t1
  t2 = t2
  r1 = r1
  NoOwner = NoOwner
  NoSession = NoSession
  Sessions = {s1}
  Owners = {}
  Kind <- Namespaces
  Instances = {i1, i2}
  Tasks = {t1, r1}
  Host <- TwoProcesses
  Reaper <- SecondSweeps
  MaxOccupying = 1
  DeploymentLimit = 0
  PlanLimit <- NoPlan
  MaxStamp = 3
  MaxActivity = 0
  Mortal = {}
  MaxFaults = 2
SPECIFICATION OperationSpec
INVARIANTS ClosedOnce
PROPERTIES FollowsLifecycle OperationSettles
