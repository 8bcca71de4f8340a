CONSTANTS
  Procs = {p1, p2, p3}
  Keys = {k1, k2}
  Gates = {g1, g2, g3, g4}
  None = None
SPECIFICATION Spec
INVARIANTS
  MutualExclusion
  EntriesAreOwned
PROPERTY
  WaiterServed
