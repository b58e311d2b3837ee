\* Every payment is processed and every expired tip given back.
CONSTANTS
  None = None
  u1 = u1
  u2 = u2
  g1 = g1
  g2 = g2
  s1 = s1
  c1 = c1
  Users = {u1, u2}
  Goals = {g1}
  Streams = {s1}
  Contents = {c1}
  Procs = {p1, p2}
  GoalOwner <- MCGoalOwner
  StreamOf <- MCStreamOf
  Price <- MCPrice
  Targets = {2}
  TipSums = {1}
  DepositSums = {}
  InitBalance = 2
  MaxCalls = 2
  MaxFaults = 0
SPECIFICATION FairSpec
PROPERTIES
  PaymentsProcessed
  TipsOfExpiredGoalRefunded
CHECK_DEADLOCK FALSE
