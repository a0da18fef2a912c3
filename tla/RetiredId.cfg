SPECIFICATION Spec
CONSTANTS
  d1 = d1
  d2 = d2
  n1 = n1
  n2 = n2
  s1 = s1
  p1 = p1
  none = none
  NoEntity = none
  Entity = {n1, n2}
  KindOf <- EraseKinds
  Device = {d1}
  Pusher = {d1}
  Puller = {d1}
  Batch <- EraseBatches
  PageLimit = 1
  MaxSeq = 5
INVARIANTS
  RetiredForever
