SPECIFICATION AllSpec
CONSTANTS
  Workers = {w1, w2}
  First = w1
  Forks = {f1, f2, f3}
  Root = root
  Capacity = 4
  MaxCCDepth = 2
  Nil = Nil
  N = 2
  Objects = {o1}
  Collectors <- OneCollector
  MaxEpoch = 4
  BufferSize = 1
  numberOfProcs = 3
  Relayers = {2}
  CCProcs = {1}
  Loops = {}
  Invalid = Invalid
INVARIANTS
  TypeOK
  NeverDies
  RunsOnce
  DequeMatchesForks
  CollectionsAreKept
  BothTypeOK
  FreedOnceAndUnused
  SignalledIsAlive
PROPERTIES
  ImplementsForkJoin
  ProgramsEnd
  Reclaimed
  HaltReturns
