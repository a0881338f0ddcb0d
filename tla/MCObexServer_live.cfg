SPECIFICATION FairSpec
CONSTANTS
  s1 = s1
  s2 = s2
  v1 = v1
  v2 = v2
  Session = {s1, s2}
  Path <- MCPath
  UserPath <- MCUserPath
  SessionPath <- MCSessionPath
  CbPath <- AllOnly
  Val = {v1}
  Online = Online
  NoVal = NoVal
  NoSession = NoSession
  DodOpt = {TRUE}
  Xact <- Xacts
  EqualPuts = TRUE
  Threshold = 0
  MaxOps = 4
INVARIANTS SnapshotConsistent PresenceAccurate IInv
PROPERTIES HandlerEnds EventuallyInSync
CHECK_DEADLOCK FALSE
