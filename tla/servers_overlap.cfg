CONSTANTS
  Servers = {i1, i2}
  Sessions = {s1}
  Requests = {r1, r2}
  Hosts = {h1}
  Ports = {22, 23}
  Handlers <- Locking
  None = None
  Absent = Absent
  Idle = Idle
SPECIFICATION Spec
PROPERTIES
  NoResurrection
  LockedUpdatesKept
SYMMETRY ThreadSymmetry
CHECK_DEADLOCK FALSE
