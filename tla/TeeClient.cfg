\* Two clients, operations from a file or random, fewer workers than connections.
CONSTANTS
  Warmer = {w1, w2}
  Runner = {r1, r2}
  Feeder = {f1, f2}
  LINES = 3
  WARMUP = 1
  WORKERS = 3
SPECIFICATION Spec
INVARIANTS ExactlyOnce LatenciesExact WarmupBounded
PROPERTIES ClientEnds
