SPECIFICATION Spec
CONSTANTS
  a = a
  b = b
  k1 = k1
  k2 = k2
  k3 = k3
  None = None
  Clients = {a, b}
  MaxEdits = 2
  Conns = {k1, k2}
  LaneCap = 1
  Scenarios <- Mixed
  Limited = {"update", "sync"}
PROPERTIES
  EditsBecomeDurable
  Converges
CHECK_DEADLOCK FALSE
