\* The benchmark: two threads with a connection each, one loaded key and one that is
\* not; the process saves and ends once, at any moment, and is started again.
CONSTANTS
  short1 = short1  long = long
  Size <- MCSize
  VALUE_SIZE = 3
  SERVER_NUM_THREADS = 2
  InitialValue = short1
  NoValue = NoValue  Empty = Empty  Garbled = Garbled
  Thread = {t1, t2}
  Key = {k1, k2}
  NumberedKey = {k1, k2}
  Preloaded = {k1}
  Value = {short1}
  PER_REQUEST_CONN = FALSE
  REQUESTS = 2
  MAX_QUITS = 0
  MAX_RESTARTS = 0
  MAX_STOPS = 1
SYMMETRY Symmetry
SPECIFICATION SaveSpec
INVARIANTS SavedOpens RipOnlyExposed
