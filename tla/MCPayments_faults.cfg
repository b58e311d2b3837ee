\* Tips, purchases and deposits while one handler or event is lost; targets change.
CONSTANTS
  None = None
  u1 = u1
  u2 = u2
  g1 = g1
  g2 = g2
  s1 = s1
  c1 = c1
  Users = {u1, u2}
  Goals = {g1}
  Streams = {s1}
  Contents = {c1}
  Procs = {p1, p2}
  GoalOwner <- MCGoalOwner
  StreamOf <- MCStreamOf
  Price <- MCPrice
  Targets = {1, 2}
  TipSums = {2}
  DepositSums = {1}
  InitBalance = 2
  MaxCalls = 2
  MaxFaults = 1
SPECIFICATION Spec
INVARIANTS
  NoOverdraft
  EffectsBacked
  LedgerReconciles
CHECK_DEADLOCK FALSE
