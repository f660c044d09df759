SPECIFICATION AllSpec
CONSTANTS
  p1 = p1
  p2 = p2
  p3 = p3
  e1 = e1
  e2 = e2
  e3 = e3
  e4 = e4
  Procs = {p1, p2, p3}
  Elems = {e1, e2, e3, e4}
  Owner <- MCOwner
  Null = Null
  MaxAllocs = 3
  NumStacks = 3
  Data = {d1, d2, d3}
  ChunkSize = 2
  Nil = Nil
  s1 = s1
  Storers = {s1, s2}
  Entries = {1, 2, 3}
  NumChunks = 5
  EntriesPerChunk = 2
  MaxPasses = 1
  BlockProcs = {q1, q2}
  Allocating = {q1}
  SuperBlocks = {1, 2}
  MegaBlocks = {1, 2}
  RequestSets = {{1, 2}, {3, 4, 5, 9}}
  MaxAllocations = 5
  MaxHeld = 4
  superblockThreshold = 2
  megablockThreshold = 4
  emptinessPercent = 30
  BlockNil = BlockNil
INVARIANTS TypeOK ListsAndCounts NothingLost StoredIsKept QuietPassVisitsAll BlocksAreWhole
PROPERTIES ImplementsPool PassEnds MapsOnlyWhenFull
