SPECIFICATION AllSpec
CONSTANTS
  a = a
  b = b
  c = c
  n = n
  f = f
  g = g
  Mutators = {m1, m2}
  Old = {a, b, c}
  Fresh = {n}
  Fields = {f}
  ChunkOf <- OwnChunks
  Shapes <- Several
  Held <- Start
  Nil = Nil
  MaxCollections = 1
  MaxWrites = 2
  shared = shared
  Shared = shared
  Stack = Stack
  Mutable <- MutableOnes
  Large = {n}
  FieldNames <- TwoSlots
  Programs <- SomePrograms
  NULL = NULL
  LocalObjects = {a, b, c, n}
  LocalFields = {f, g}
  MaxLocalCollections = 2
  Program = "all"
  t1 = t1
  t2 = t2
  t3 = t3
  Items = {o1, o2}
  Threads = {t1, t2, t3}
  RootThread = t1
  TreeDepth = 2
  DagDepth = 6
  Bogus = Bogus
SYMMETRY MutatorSymmetry
INVARIANTS AllTypeOK ReachableIsKept MarksAreSnapshot HeldIsKept HeapIsWhole HeldIsRemembered LocalNeverDies OrderedIsBefore LcaIsShared
