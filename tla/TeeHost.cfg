\* Two clients; a key that was not loaded; a PUT may shrink the loaded value, then grow it.
CONSTANTS
  v1 = v1  v2 = v2  w = w
  Client = {c1, c2}
  Key = {k1, k2}
  Value = {v1, w}
  Blocks <- MCBlocks
  Loaded = {k1}
  InitialValue = w
  BUFFER = 2
  DummyValue = v1
  REQUESTS = 2
  NoValue = NoValue  Torn = Torn  Garbage = Garbage
SPECIFICATION Spec
INVARIANTS DamageIsLocal AnswerWasCurrent
PROPERTIES EnclaveSurvives GetKeepsUnlessOverlap RequestsEnd
