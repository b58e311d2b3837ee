\* A stream with two goals; the requests of its owner come one at a
\* time, beside ticks of the cron job, tips and events.
CONSTANTS
  s1 = s1
  g1 = g1
  g2 = g2
  p1 = p1
  p2 = p2
  p3 = p3
  n1 = n1
  None = None
  Streams = {s1}
  Goals = {g1, g2}
  StreamOf <- MCStreamOf
  Procs = {p1, p2, p3}
  Nodes = {n1}
  Overlap = FALSE
  MaxClock = 2
  MaxFaults = 1
SPECIFICATION FairSpec
INVARIANTS
  OneActiveGoal
  SubscribersToldRight
PROPERTIES
  DueAnnounced
  CompletedGoalsExpire
\* Owners may send no more requests.
CHECK_DEADLOCK FALSE
