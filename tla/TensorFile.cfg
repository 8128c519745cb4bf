CONSTANTS
  A = A
  B = B
  x = x
  y = y
  Names = {A, B}
  Size <- MCSize
  Values = {x, y}
  MaxEntries = 2
  MaxOps = 3
  MaxCrashes = 1
SPECIFICATION Spec
SYMMETRY MCSymmetry
INVARIANTS
  FileTypeOK
  ReadBack
