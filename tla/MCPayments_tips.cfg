\* Three tips of two users to one goal, its stream may stop at any time.
CONSTANTS
  None = None
  u1 = u1
  u2 = u2
  g1 = g1
  g2 = g2
  s1 = s1
  c1 = c1
  Users = {u1, u2}
  Goals = {g1}
  Streams = {s1}
  Contents = {}
  Procs = {p1, p2}
  GoalOwner <- MCGoalOwner
  StreamOf <- MCStreamOf
  Price <- MCPrice
  Targets = {2}
  TipSums = {1, 2}
  DepositSums = {}
  InitBalance = 2
  MaxCalls = 3
  MaxFaults = 0
SPECIFICATION Spec
INVARIANTS
  TypeOK
  RefundedOnce
  RefundMatchesTip
  PayoutsWithinFunding
SYMMETRY ProcSymmetry
CHECK_DEADLOCK FALSE
