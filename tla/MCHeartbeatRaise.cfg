SPECIFICATION Spec
CONSTANTS
  Threads = {main, t1, t2, t3}
  Root = main
  None = None
  HeartbeatTokens = 3
  MaxDepth = 3
  MaxRaises = 2
  MaxFrames = 3
  MaxNest = 2
  MaxSporks = 3
  MaxBeats = 3
INVARIANTS
  PromoStackFindsOldest
