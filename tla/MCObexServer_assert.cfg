SPECIFICATION Spec
CONSTANTS
  s1 = s1
  s2 = s2
  v1 = v1
  v2 = v2
  Session = {s1, s2}
  Path <- MCPath
  UserPath <- UserA
  SessionPath <- MCSessionPath
  CbPath <- NodeA
  Val = {v1, v2}
  Online = Online
  NoVal = NoVal
  NoSession = NoSession
  DodOpt = {}
  Xact <- DodThenPlain
  EqualPuts = FALSE
  Threshold = 0
  MaxOps = 6
INVARIANTS NoAssertFailure
SYMMETRY SessionSymmetry
CHECK_DEADLOCK FALSE
