SPECIFICATION FairSpec
CONSTANTS
  RemoteKey = {r1, r2}
  CohabKey = {c1}
  Retry <- Retries
  Session = {s1, s2, s3}
  NoSession = NoSession
  AtOnce = FALSE
  KeepOld = FALSE
INVARIANTS TypeOK Truthful Answered StaysConnected ProcAccurate
PROPERTIES GivesUp Outcome
