SPECIFICATION Spec
CONSTANTS
  a1 = a1
  a2 = a2
  d1 = d1
  d2 = d2
  i1 = i1
  i2 = i2
  e1 = e1
  e2 = e2
  r1 = r1
  r2 = r2
  l1 = l1
  Free = Free
  Account = {a1, a2}
  Device = {d1, d2}
  BatchId = {i1, i2}
  Entity = {e1, e2}
  AccountOf <- Accounts
  Content <- Batches
  Window = 1
  Request = {r1, r2}
  LockKey = {l1}
  LockKeyOf <- OneLock
  SentUntil <- Tries
  MaxRevoked <- Revocations
  Cursors = {2}
  MaxSeq <- Bounds
  MaxLog = 2
  MaxClock = 2
SYMMETRY Symmetry
INVARIANTS
  TypeOK
  NoConcurrentWrite
  WritesOnce
  AnswersAreTrue
PROPERTIES
  OncePerWindow
  Implements
