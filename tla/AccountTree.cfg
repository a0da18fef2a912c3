SPECIFICATION Spec
CONSTANTS
  d1 = d1
  d2 = d2
  n1 = n1
  n2 = n2
  s1 = s1
  p1 = p1
  none = none
  NoEntity = none
  Entity = {n1, n2, s1, p1}
  KindOf <- TreeKinds
  Device = {d1, d2}
  Pusher = {d1}
  Puller = {d2}
  Batch <- TreeBatches
  PageLimit = 2
  MaxSeq = 4
INVARIANTS
  TypeOK
  RetiredIdsNotStored
  DeliveredUpTo
  PurgesReachHolders
  NoOrphan
  SequenceAtomic
  PageWithinLimit
  HasMoreAdvances
