SPECIFICATION FairSpec
CONSTANTS
  Producers = {p1, p2}
  Consumers = {w1, w2}
  Stoppers = {s1}
  Vals = {v1, v2}
  Oom = TRUE
  Null = Null
INVARIANTS WorkIsSeen HandedOnce
PROPERTIES ImplementsStack NobodyForgotten
CHECK_DEADLOCK FALSE
