\* Three checks, one, two or three at a time.
CONSTANTS
  N = 3
  NotFinite = NotFinite
  Configs <- MCConfigs
SPECIFICATION FairSpec
INVARIANT TypeOK
INVARIANT IsolationBarrier
INVARIANT DependsOnFinished
INVARIANT FailFastIsExact
INVARIANT Parallelism
PROPERTY EveryCheckIsReported
\* The run has answered and every process has ended: nothing remains to do.
CHECK_DEADLOCK FALSE
