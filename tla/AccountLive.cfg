SPECIFICATION FairSpec
CONSTANTS
  d1 = d1
  d2 = d2
  n1 = n1
  n2 = n2
  s1 = s1
  p1 = p1
  none = none
  NoEntity = none
  Entity = {n1, s1}
  KindOf <- SmallKinds
  Device = {d1}
  Pusher = {d1}
  Puller = {d1}
  Batch <- SmallBatches
  PageLimit = 1
  MaxSeq = 3
PROPERTIES
  EventuallyCaughtUp
  ShelfKeepsOnlyCopy
