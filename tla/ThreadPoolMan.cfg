\* Two workers, two AwaitInstruct and two Instruct calls, a worker may die.
\* A pool torn down under load may hang: StopThreads holds the lock of the list.
SPECIFICATION FairSpec
CHECK_DEADLOCK FALSE
CONSTANTS
  w1 = w1  w2 = w2  a1 = a1  a2 = a2  i1 = i1  i2 = i2  NoJob = NoJob
  Workers <- TwoWorkers
  Jobs <- FourJobs
  AwaitJobs <- TwoAwaits
  MaxCurlErrors = 1
INVARIANTS InstructionConserved AwaitAfterRun
PROPERTIES AwaitReturns QuiescentStopTerminates
