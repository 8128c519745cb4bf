SPECIFICATION Spec
CONSTANTS
  NumNodes = 4
  Tensors = {t1}
  Params = {p1}
  Cells = {c1, c2}
  Whole = Whole
  MaxAccesses = 4
SYMMETRY CellSymmetry
INVARIANTS
  TypeOK
  LevelsOrderConflicts
  EdgesAreConflicts
  KahnKeepsProgramOrder
  NoRace
  SeesProgramOrder
  LeavesProgramOrder
