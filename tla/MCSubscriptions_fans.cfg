\* Webhooks of two fans of one creator interleave; one call is cut short.
CONSTANTS
  f1 = f1
  f2 = f2
  c1 = c1
  sale1 = sale1
  sale2 = sale2
  sale3 = sale3
  p1 = p1
  p2 = p2
  Users = {f1, f2, c1}
  Sales = {sale1, sale2, sale3}
  Fan <- MCFan
  Creator <- MCCreator
  Procs = {p1, p2}
  Serves <- ByFan
  MaxDeliveries = 6
  MaxFaults = 1
SPECIFICATION FairSpec

  
PROPERTIES
  SaleSubscribes
\* ccBill may send nothing more.
CHECK_DEADLOCK FALSE
