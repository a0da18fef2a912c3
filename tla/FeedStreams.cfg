SPECIFICATION FairSpec
CONSTANTS
  d1 = d1
  d2 = d2
  s1 = s1
  s2 = s2
  h1 = h1
  h2 = h2
  None = None
  Device = {d1}
  Stream = {s1}
  Handler = {h1, h2}
  MaxSeq = 2
  MaxToken = 2
  UnreportedCommits = TRUE
INVARIANTS
  TypeOK
  NoLostWakeup
  StreamsEndWithTheirToken
PROPERTIES
  EventuallyStreamed
  StaleStreamsEnd
