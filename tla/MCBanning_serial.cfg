\* One handler at a time: events in any order settle on the right ban.
CONSTANTS
  None = None
  u1 = u1
  u2 = u2
  k1 = k1
  k2 = k2
  k3 = k3
  c1 = c1
  Users = {u1, u2}
  Strikes = {k1, k2}
  Contents = {c1}
  Procs = {p1}
  Target <- MCTarget
  Ref <- MCRef
  Threshold = 1
  Moderated = {u2}
  MaxEdits = 0
  MaxFaults = 0
SPECIFICATION FairSpec
INVARIANTS
  BanMatchesStrikes
PROPERTIES
  ThresholdBans
  RevokedContentShown
  BannedLoggedOut
