\* An empty store, one key of the numbered range and one outside it; the server may
\* be quit, or exit by itself, and is restarted once.
CONSTANTS
  short1 = short1  long = long  huge = huge
  Size <- MCSize
  VALUE_SIZE = 3
  SERVER_NUM_THREADS = 2
  InitialValue = short1
  NoValue = NoValue  Empty = Empty  Garbled = Garbled
  Thread = {t1, t2}
  Key = {k1, other}
  NumberedKey = {k1}
  Preloaded = {}
  Value = {short1, long, huge}
  PER_REQUEST_CONN = TRUE
  REQUESTS = 2
  MAX_QUITS = 1
  MAX_RESTARTS = 1
SPECIFICATION Spec
INVARIANTS LockExclusion LockAccounted AnswersAreCurrent BlockIsCurrent
PROPERTIES ImplementsKV RequestsEnd
