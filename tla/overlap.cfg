CONSTANTS
  Apps = {a1}
  Requests = {r1, r2}
  u1 = u1
  ns1 = ns1
  Users = {u1}
  Namespaces = {ns1}
  Owner <- MCOwner
  NamespaceOf <- MCNamespaceOf
  MaxReplicas = 1
  MaxRequested = 0
  ReplicaInputs = {0, 1}
  None = None
  Absent = Absent
  Idle = Idle
  Handlers <- AllButRequestScale
  Crashes = FALSE
  LostReplies = FALSE
SPECIFICATION Spec
SYMMETRY Symmetry
VIEW WithoutRunning
INVARIANTS
  RowsConsistent
PROPERTIES
  NoResurrection
CHECK_DEADLOCK FALSE
