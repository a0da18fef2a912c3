SPECIFICATION FairSpec
CONSTANTS
  a1 = a1
  a2 = a2
  w1 = w1
  w2 = w2
  s1 = s1
  s2 = s2
  j1 = j1
  j2 = j2
  None = None
  Account = {a1, a2}
  Password = {w1, w2}
  Session = {s1}
  Job = {j1, j2}
  Slots = 1
  MaxCost = 1
  MaxResets = 1
INVARIANTS
  TypeOK
  OneAccount
  ResetClosesSessions
  ResetSticks
PROPERTIES
  RequestsEnd
