SPECIFICATION Spec
CONSTANTS
  s1 = s1
  s2 = s2
  v1 = v1
  v2 = v2
  Session = {s1, s2}
  Path <- MCPath
  UserPath <- MCUserPath
  SessionPath <- MCSessionPath
  CbPath <- NodeOrHw
  Val = {v1, v2}
  Online = Online
  NoVal = NoVal
  NoSession = NoSession
  DodOpt = {FALSE, TRUE}
  Xact <- NoXact
  EqualPuts = FALSE
  Threshold = 0
  MaxOps = 5
INVARIANTS TypeOK Convergence NoOrphanDod
PROPERTIES MonotoneReplica DodOnlyOwn
SYMMETRY Symmetry
CHECK_DEADLOCK FALSE
