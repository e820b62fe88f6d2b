SPECIFICATION FairSpec
CONSTANTS
  w1 = w1
  w2 = w2
  Main = main
  Workers = {w1, w2}
  MaxJobs = 1
  Setups <- SetupsDef
  SseType = "C"
  SseKeys = 1
  Retries = 2
  Size = 2
  Lifetime = 1
  Margin = 1
  MaxTime = 1
  Codes = {400, 404, 503}
INVARIANT ReqTypeOK
INVARIANT SameRequestAgain
INVARIANT SuccessMeansDone
INVARIANT KeysOfOneSource
PROPERTY RequestsEnd
CHECK_DEADLOCK FALSE
