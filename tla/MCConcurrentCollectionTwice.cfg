SPECIFICATION Spec
CONSTANTS
  a = a
  b = b
  c = c
  n = n
  f = f
  Mutators = {m1, m2}
  Old = {a, b, c}
  Fresh = {n}
  Fields = {f}
  ChunkOf <- OwnChunks
  Shapes <- List
  Held <- Start
  Nil = Nil
  MaxCollections = 2
  MaxWrites = 1
INVARIANT ReachableIsKept
