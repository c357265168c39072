\* One client of the proxy: it puts a new key and gets it.
CONSTANTS
  short1 = short1  long = long  huge = huge
  Size <- MCSize
  VALUE_SIZE = 3
  SERVER_NUM_THREADS = 2
  InitialValue = short1
  NoValue = NoValue  Empty = Empty  Garbled = Garbled
  Thread = {t1}
  Key = {k1}
  NumberedKey = {k1}
  Preloaded = {}
  Value = {short1}
  PER_REQUEST_CONN = TRUE
  REQUESTS = 2
  MAX_QUITS = 0
  MAX_RESTARTS = 0
SPECIFICATION Spec
INVARIANTS ServerSurvives
