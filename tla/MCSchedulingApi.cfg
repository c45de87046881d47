CONSTANTS
  c1 = c1  c2 = c2  c3 = c3  i1 = i1  i2 = i2
  Call = {c1, c2, c3}
  Id = {i1}
  None = None
CHECK_DEADLOCK FALSE
SPECIFICATION Spec
SYMMETRY Symmetry
INVARIANT TypeOK AcceptedIsPublished HandledInClientOrder
