CONSTANTS
  s1 = s1
  s2 = s2
  x1 = x1
  a1 = a1
  a2 = a2
  a3 = a3
  i1 = i1
  i2 = i2
  c1 = c1
  c2 = c2
  w1 = w1
  w2 = w2
  NoSession = NoSession
  NoAttempt = NoAttempt
  NoSubject = NoSubject
  Sessions = {s1}
  Subjects = {x1}
  Subject <- OneSubject
  Attempts = {a1, a2, a3}
  Calls = {c1, c2}
  Instances = {i1, i2}
  Host <- TwoProcesses
  Sweepers = {}
  MaxStamp = 3
  MaxFaults = 1
SPECIFICATION Spec
SYMMETRY AttemptSymmetry
CHECK_DEADLOCK FALSE
INVARIANTS TypeOK VerdictOfOneSandbox ProgressAgrees
