\* Two clients on one key: does a GET leave its value alone?
CONSTANTS
  v1 = v1  v2 = v2  w = w
  Client = {c1, c2}
  Key = {k1}
  Value = {v1, v2}
  Blocks <- MCBlocks
  Loaded = {k1}
  InitialValue = v1
  BUFFER = 2
  DummyValue = v1
  REQUESTS = 1
  NoValue = NoValue  Torn = Torn  Garbage = Garbage
SPECIFICATION Spec
PROPERTIES GetKeepsValue
