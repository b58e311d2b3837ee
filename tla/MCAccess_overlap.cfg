\* Every resource, two users and two requests, an admin flag that changes; or
\* overlapping requests of two users with two applications, and a
\* crash; or a select, with three events around it.
CONSTANTS
  u1 = u1
  u2 = u2
  r1 = r1
  r2 = r2
  web = web
  phone = phone
  Users = {u1, u2}
  Nobody = Nobody
  Requests = {r1, r2}
  MaxRoles = 1
  Holders = {u1, u2}
  Clients = {web, phone}
  Procs = {r1, r2}
  MaxTokens = 2
  MaxCalls = 4
  MaxCuts = 1
  Viewers = {u1, u2}
  Makers = {u1, u2}
  Folders = {f1, f2}
  Views = {v1}
  MaxEvents = 3
SPECIFICATION Spec
SYMMETRY Symmetry
INVARIANTS
  OwnersOnly
  PrivateKept
  TokensServeOnce
  LogoutEndsSessions
  BanShutsOut
  

  
\* The bounds end all runs.
CHECK_DEADLOCK FALSE
