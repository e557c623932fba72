SPECIFICATION FairSpec
CONSTANTS
  Workers = {w1, w2}
  Signals = {s1}
  Tasks = {t1, t2}
  First = t1
  HasDe = {t1, t2}
  PipeCap = 2
  MaxWakes = 2
  Oom = TRUE
  None = None
INVARIANTS OneOwner OwnedOrDestroyed
PROPERTIES StopEnds EventuallyRun
CHECK_DEADLOCK FALSE
