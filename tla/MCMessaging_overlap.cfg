\* Two overlapping requests about chats; notifications while users come and go.
CONSTANTS
  u1 = u1
  u2 = u2
  c1 = c1
  c2 = c2
  c3 = c3
  m1 = m1
  m2 = m2
  r1 = r1
  r2 = r2
  s1 = s1
  Everyone = Everyone
  Users = {u1, u2}
  Chats = {c1, c2, c3}
  Messages = {m1, m2}
  Clients = {r1, r2}
  MaxCuts = 1
  Recipients = {u1, u2}
  Senders = {s1}
  MaxNotes = 2
  MaxMoods = 1
SPECIFICATION Spec
SYMMETRY Symmetry
INVARIANTS
  
  GoneWithChat
  FewChats
  Delivered
CHECK_DEADLOCK FALSE
