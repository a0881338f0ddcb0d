SPECIFICATION FairSpec
CONSTANTS
  s1 = s1
  s2 = s2
  t1 = t1
  t2 = t2
  rt = rt
  Fd = {0, 1, 2}
  AcceptorFd = 1
  Acceptor = Acceptor
  Session = {s1, s2}
  NoObj = NoObj
  Timer = {t1, rt}
  RunTimer = rt
  Delay = {1}
  MaxTime = 1
INVARIANTS TypeOK Agreement
PROPERTIES Served
CHECK_DEADLOCK FALSE
