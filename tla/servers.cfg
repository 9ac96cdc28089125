CONSTANTS
  Servers = {i1, i2}
  Sessions = {s1}
  Requests = {r1}
  Hosts = {h1}
  Ports = {22, 23}
  Handlers <- AllHandlers
  None = None
  Absent = Absent
  Idle = Idle
SPECIFICATION Spec
INVARIANTS
  TypeOK
  ConnectedIsEnabled
PROPERTIES
  ImplementsConnection
CHECK_DEADLOCK FALSE
