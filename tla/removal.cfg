CONSTANTS
  a1 = a1
  a2 = a2
  u1 = u1
  u2 = u2
  ns1 = ns1
  ns2 = ns2
  Apps = {a1, a2}
  Requests = {r1}
  Users = {u1}
  Namespaces = {ns1}
  Owner <- OneOwner
  NamespaceOf <- OneNamespace
  MaxReplicas = 1
  MaxRequested = 0
  ReplicaInputs = {1}
  None = None
  Absent = Absent
  Idle = Idle
  Handlers <- AllHandlers
  Crashes = TRUE
  LostReplies = FALSE
  Overlap = FALSE
SPECIFICATION RemovalSpec
INVARIANTS
  RemovedUserOwnsNothing
PROPERTIES
  RowsGoLast
CHECK_DEADLOCK FALSE
