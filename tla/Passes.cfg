CONSTANTS
  A = A
  B = B
  C = C
  P = P
  S = S
  T = T
  Z = Z
  User = {A, B, C}
  Eager = {P, S}
  Deferred = {T, Z}
  Zeroed = {Z}
  Prime = 31
  Initial <- MCInitial
  Menu <- MCMenu
  MaxNodes = 4
  Pipeline <- MCPipeline
  Assumed = {"written", "permutes", "sources", "producers", "operands"}
SPECIFICATION Spec
INVARIANTS
  PassTypeOK
  ResultsPreserved
  StorageOrdered
CHECK_DEADLOCK FALSE
