SPECIFICATION Spec
CONSTANTS
  RemoteKey = {r1, r2}
  CohabKey = {c1}
  Retry <- Retries
  Session = {s1, s2, s3}
  NoSession = NoSession
  AtOnce = TRUE
  KeepOld = FALSE
INVARIANTS Answered
