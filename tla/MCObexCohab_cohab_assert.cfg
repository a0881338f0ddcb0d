SPECIFICATION CohabSpec
CONSTANTS
  a1 = a1
  u1 = u1
  u2 = u2
  v1 = v1
  Path <- MCPath
  CbPath <- MCCbPath
  Cb = {Session, a1}
  Val = {v1}
  NoVal = NoVal
  NoCb = NoCb
  Reaction <- Elsewhere
  Reuse = FALSE
  MaxDepth = 2
  Session = Session
  User = {u1, u2}
  SubPath <- MCSubPath
  OtherPath <- MCOtherPath
  UserPath <- MCUserPath
  Longer <- MCLonger
  SyncDeletes = TRUE
  MaxSync = 1
INVARIANTS NoDanglingNode
SYMMETRY Symmetry
