SPECIFICATION FairSpec
CONSTANTS
  s1 = s1
  s2 = s2
  t1 = t1
  t2 = t2
  rt = rt
  Fd = {0}
  AcceptorFd = 0
  Acceptor = Acceptor
  Session = {}
  NoObj = NoObj
  Timer = {t1, t2, rt}
  RunTimer = rt
  Delay = {1, 2}
  MaxTime = 3
INVARIANTS TimersInOrder
PROPERTIES TimersFire RunEnds
CHECK_DEADLOCK FALSE
