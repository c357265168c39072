\* Three sessions of any of the programs, two keys and the empty key; the server is quit
\* and restarted once.  Of a block of three bytes it carries two: the value the benchmark
\* puts comes back garbled.
CONSTANTS
  v1 = v1  empty = empty  spaces = spaces  huge = huge
  Size <- MCSize
  VALUE_SIZE = 3
  SERVER_NUM_THREADS = 2
  Key = {k1, k2, nokey}
  NoKey = nokey
  Value = {v1, empty, spaces, huge}
  EmptyValue = empty
  Spaces = spaces
  SESSIONS = 3
  COMMANDS = 3
  MAX_QUITS = 1
  MAX_RESTARTS = 1
  NoValue = NoValue  Garbled = Garbled
SPECIFICATION Spec
INVARIANTS KeysSurvive PrintsCurrent
PROPERTIES RipExplained WaitEnds
