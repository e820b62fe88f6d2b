\* The process may end with the worker gone and the queue empty, or not be unmounted at all.
SPECIFICATION FairSpec
CHECK_DEADLOCK FALSE
CONSTANTS
  a1 = a1  a2 = a2  a3 = a3  s1 = s1  tmp = tmp  file = file  NoEvent = NoEvent
  AsyncEvents = {a1, a2, a3}
  SyncEvents = {s1}
  Path <- EventPath
  exclude_paths <- Excluded
  max_retries = 1
  MaxFailures = 3
INVARIANTS SentInOrder ShutdownDrains
PROPERTIES QueuedEventHandledUnlessMissed ShutdownTerminates
