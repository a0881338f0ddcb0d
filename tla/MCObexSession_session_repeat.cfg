SPECIFICATION Spec
CONSTANTS
  UserPath <- MCUserPath
  SubList <- MCSubList
  Request <- MCRequest
  Val = {v1}
  Online = Online
  NoVal = NoVal
  Unknown = Unknown
  Callback = {k1}
  NoCb = NoCb
  Overlap = FALSE
  Repeat = TRUE
  MaxConns = 1
  MaxOps = 2
PROPERTIES EveryAnswer
CHECK_DEADLOCK FALSE
