\* As LblAccess.cfg: does a GET return what was put?
CONSTANTS
  Configuration <- MCConfiguration
  Value <- MCValue
  SelectorChoice <- MCSelectorChoice
  MAX_OPS = 3
SPECIFICATION Spec
PROPERTIES ReadBack
