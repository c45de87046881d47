CONSTANTS
  p1 = p1  p2 = p2  i1 = i1  i2 = i2  i3 = i3
  Proc = {p1, p2}
  Id = {i1, i2, i3}
  Rem <- MCRem
  None = None
  Keys <- KeysPartitioned
SPECIFICATION RepoSpec
INVARIANT RepoTypeOK OneDocPerId CheckStillHolds
PROPERTY ImplementsStore
