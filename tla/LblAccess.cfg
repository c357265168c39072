\* Blocks of one to four bytes, one to three tasks on each side, three operations.
CONSTANTS
  Configuration <- MCConfiguration
  Value <- MCValue
  SelectorChoice <- MCSelectorChoice
  MAX_OPS = 3
SPECIFICATION Spec
INVARIANTS ProxyTasksExact ServerTasksPrefix OneBoxOpens BlockEncodesValue
PROPERTIES OverlapAgrees CarriedReadBack
