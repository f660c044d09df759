\* Heaps: two threads, depths up to 4, see Some for how often what happens.
\* Heartbeats: three threads, two sporks, beats of three tokens, an exception.
SPECIFICATION AllSpec
CONSTANTS
  t1 = t1
  t2 = t2
  HeapThreads = {t1, t2}
  HeapRoot = t1
  HeapsPerThread = 9
  ChunksPerThread = 9
  HeapDepth = 4
  Entangled = FALSE
  Nil = Nil
  Threads = {main, u1, u2}
  Root = main
  None = None
  HeartbeatTokens = 3
  MaxDepth = 3
  MaxFrames = 3
  MaxNest = 2
  MaxSporks = 2
  MaxBeats = 2
  MaxRaises = 1
INVARIANTS
  ListsAreRight
  FindsHeaps
  TokensAreKept
  PromotesOldest
PROPERTIES
  NothingPointsInto
