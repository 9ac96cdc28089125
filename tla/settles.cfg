CONSTANTS
  Apps = {a1}
  Requests = {r1}
  u1 = u1
  ns1 = ns1
  Users = {u1}
  Namespaces = {ns1}
  Owner <- MCOwner
  NamespaceOf <- MCNamespaceOf
  MaxReplicas = 1
  MaxRequested = 1
  ReplicaInputs <- FewerInputs
  None = None
  Absent = Absent
  Idle = Idle
  Handlers <- AllHandlers
  Crashes = FALSE
  LostReplies = FALSE
SPECIFICATION FairSpec
PROPERTIES
  Settles
CHECK_DEADLOCK FALSE
