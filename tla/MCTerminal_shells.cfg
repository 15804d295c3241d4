CONSTANTS
  k1 = k1
  k2 = k2
  d1 = d1
  d2 = d2
  w1 = w1
  w2 = w2
  w3 = w3
  r1 = r1
  r2 = r2
  None = None
  Sids = {k1, d1, d2}
  Sockets = {w1, w2}
  Reattaches = {r1}
  Conns = {w1, w2, r1}
  Containers = {d1, d2}
  Workspaces = {k1}
  MaxSessions = 1
  BrokerMax = 1
SPECIFICATION Spec
CHECK_DEADLOCK FALSE
SYMMETRY Symmetry
VIEW ClaimedView
INVARIANTS TypeOK ShellsReachable EndedStaysClosed AttachedIsOwned CredentialsFollowShell GatewayWithinCapacity BrokerWithinCapacity OneWaits
