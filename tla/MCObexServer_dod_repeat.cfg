SPECIFICATION Spec
CONSTANTS
  s1 = s1
  s2 = s2
  v1 = v1
  v2 = v2
  Session = {s1, s2}
  Path <- MCPath
  UserPath <- UserA
  SessionPath <- MCSessionPath
  CbPath <- HwOnly
  Val = {v1}
  Online = Online
  NoVal = NoVal
  NoSession = NoSession
  DodOpt = {TRUE, FALSE}
  Xact <- NoXact
  EqualPuts = TRUE
  Threshold = 0
  MaxOps = 4
INVARIANTS NoOrphanDod
SYMMETRY Symmetry
CHECK_DEADLOCK FALSE
