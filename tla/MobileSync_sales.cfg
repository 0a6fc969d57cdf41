SPECIFICATION Spec
CONSTANTS
  i1 = i1
  i2 = i2
  c1 = c1
  c2 = c2
  c3 = c3
  s1 = s1
  s2 = s2
  s3 = s3
  w1 = w1
  w2 = w2
  None = None
  Items = {i1, i2}
  Sales = {s1, s2, s3}
  Changes = {c1, c2, c3}
  Workers = {w1}
  Edit <- MCEdit
  Lines <- MCLines
  Underpaid = {s3}
  InitialStock <- MCStock
INVARIANT TypeOK
PROPERTY ImplementsShelf
