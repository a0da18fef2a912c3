SPECIFICATION Spec
CONSTANTS
  d1 = d1
  d2 = d2
  s1 = s1
  s2 = s2
  h1 = h1
  h2 = h2
  None = None
  Device = {d1}
  Stream = {s1}
  Handler = {h1, h2}
  MaxSeq = 0
  MaxToken = 2
  UnreportedCommits = FALSE
SYMMETRY Symmetry
INVARIANTS
  RevokedTokensAreGone
