CONSTANTS
  o1 = o1
  o2 = o2
  o3 = o3
  u1 = u1
  u2 = u2
  u12 = u12
  r1 = r1
  i1 = i1
  i2 = i2
  i3 = i3
  i4 = i4
  Ops <- MCOps
  Deps <- MCDeps
  Updates <- MCUpdates
  OpsOf <- MCOpsOf
  Ids <- MCIds
  IdOf <- MCIdOf
  Replacements = {r1}
  Invalid = {}
  Seed = {}
  Workers = {w1, w2}
  Actors = {a1, a2, a3}
  None = None
  SnapshotThreshold = 2
  MaxHistory = 4
SPECIFICATION Spec
INVARIANTS
  AckedSurvives
  OneCurrentActor
  LogIsGapless
PROPERTY
  ImplementsPromise
SYMMETRY Symmetry
