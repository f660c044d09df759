SPECIFICATION BagSpec
CONSTANTS
  NumStacks = 3
  Data = {d1, d2, d3, d4}
  ChunkSize = 2
  Nil = Nil
SYMMETRY DataSymmetry
CHECK_DEADLOCK FALSE
INVARIANTS NoLocksAtBatch
