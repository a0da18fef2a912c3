SPECIFICATION Spec
CONSTANTS
  a1 = a1
  a2 = a2
  x1 = x1
  x2 = x2
  p1 = p1
  p2 = p2
  b1 = b1
  b2 = b2
  u1 = u1
  u2 = u2
  s1 = s1
  s2 = s2
  None = None
  Account = {a1, a2}
  Digest = {x1}
  Page = {}
  Body = {}
  OwnerOf <- FirstOwns
  Upload = {u1, u2}
  Sweeper = {s1, s2}
  LateCommits = FALSE
  CutPublishes = FALSE
SYMMETRY Symmetry
INVARIANTS
  RowHasFile
