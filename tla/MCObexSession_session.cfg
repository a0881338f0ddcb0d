SPECIFICATION Spec
CONSTANTS
  UserPath <- MCUserPath
  SubList <- MCSubList
  Request <- MCRequest
  Val = {v1}
  Online = Online
  NoVal = NoVal
  Unknown = Unknown
  Callback = {k1}
  NoCb = NoCb
  Overlap = FALSE
  Repeat = FALSE
  MaxConns = 2
  MaxOps = 4
INVARIANTS TypeOK AnswersOwn OrderKept
PROPERTIES SyncComplete AnswersCurrent EveryAnswer
CHECK_DEADLOCK FALSE
