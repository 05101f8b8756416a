\* Two runs of one or both of two checks.
CONSTANTS
  N = 2
  MaxRuns = 2
  Backlog = 1
  Absent = Absent
  Unknown = Unknown
SPECIFICATION FairLoggedSpec
INVARIANT TypeOK
INVARIANT VerdictIsFaithful
INVARIANT PhasesNeverOverlap
INVARIANT LogsTellTheRun
PROPERTY RunsAndFlushesEnd
\* The last run has answered and its logs are written: nothing remains to do.
CHECK_DEADLOCK FALSE
