\* A ban decided on a count made before a revocation.
CONSTANTS
  None = None
  u1 = u1
  u2 = u2
  k1 = k1
  k2 = k2
  k3 = k3
  c1 = c1
  Users = {u1}
  Strikes = {k1, k2, k3}
  Contents = {c1}
  Procs = {p1, p2}
  Target <- MCTarget
  Ref <- MCRef
  Threshold = 2
  Moderated = {}
  MaxEdits = 0
  MaxFaults = 0
SPECIFICATION Spec
INVARIANTS
  UnbannedBelowThreshold
SYMMETRY ProcSymmetry
