SPECIFICATION FairMount
CONSTANTS
  w1 = w1
  w2 = w2
  Main = main
  Workers = {w1, w2}
  MaxJobs = 1
  Setups <- HomeSetup
  SseType = "C"
  SseKeys = 1
  Retries = 2
  Size = 2
  Lifetime = 1
  Margin = 1
  MaxTime = 1
  Codes = {404}
PROPERTY NotFoundEndsStartup
CHECK_DEADLOCK FALSE
