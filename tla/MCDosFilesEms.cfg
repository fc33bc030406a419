CONSTANTS
  Name = {dat}
  Spelling = {"bare", "full"}
  Chunk = {new}
  Hole = hole
  First = 5
  MaxFh = 7
  EmsFh = 6
  MaxSize = 2
  File = {s1, s2, s3}
  Null = null
SPECIFICATION Spec
INVARIANT EmsHandleIsNoFile
SYMMETRY Symmetry
