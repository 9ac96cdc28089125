CONSTANTS
  Apps = {a1}
  Requests = {r1}
  u1 = u1
  ns1 = ns1
  Users = {u1}
  Namespaces = {ns1}
  Owner <- MCOwner
  NamespaceOf <- MCNamespaceOf
  MaxReplicas = 2
  MaxRequested = 1
  ReplicaInputs <- MCInputs
  None = None
  Absent = Absent
  Idle = Idle
  Handlers <- AllHandlers
  Crashes = TRUE
  LostReplies = TRUE
SPECIFICATION Spec
INVARIANTS
  TypeOK
  AtMostOneUnnamed
PROPERTIES
  ImplementsLifecycle
CHECK_DEADLOCK FALSE
