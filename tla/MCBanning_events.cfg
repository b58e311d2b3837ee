\* Requests and handlers that interleave, with edits and a fault.
CONSTANTS
  None = None
  u1 = u1
  u2 = u2
  k1 = k1
  k2 = k2
  k3 = k3
  c1 = c1
  Users = {u1}
  Strikes = {k1, k2}
  Contents = {c1}
  Procs = {p1, p2}
  Target <- MCTarget
  Ref <- MCRef
  Threshold = 2
  Moderated = {u1}
  MaxEdits = 1
  MaxFaults = 1
SPECIFICATION Spec
INVARIANTS
  BanNeedsStrikes
PROPERTIES
  AdminBanHolds
