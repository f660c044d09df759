\* Two thieves, three tasks, four new tags, one move per task.
CONSTANTS
  Task = {t1, t2, t3}
  Owner = owner
  Thieves = {w1, w2}
  Capacity = 3
  TagMod = 16
  SetDepthTagMod = 8
  MaxResets = 2
  MaxMoves = 1
  NONE = NONE
  Nil = Nil
SYMMETRY Symmetry
SPECIFICATION Spec
INVARIANTS
  TypeOK
  NeverDies
  ExactlyOnce
  WinnerIsCurrent
PROPERTIES
  ImplementsWorkDeque
CHECK_DEADLOCK FALSE
