\* Two callers of one task each, up to two workers, two operations of the owner.
CONSTANTS
  Caller = {c1, c2}
  PARTS = 1
  HW_THREADS = 2
  MAX_THREADS = 2
  HARDWARE_CONCURRENCY = 0
  OWNER_OPS = 2
  SIZE_T = 8
SPECIFICATION Spec
INVARIANTS OnceEach TotalAccounted
PROPERTIES WaitMeansDone CallsEnd WaitEnds JoinEnds
