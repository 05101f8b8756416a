\* Two checks, so that one is queued, active or settled while the other ends.
CONSTANTS
  c1 = c1
  c2 = c2
  Checks = {c1, c2}
  Descendants <- MCGroupMembers
SPECIFICATION FairSpec
INVARIANT TypeOK
INVARIANT NothingArmedAfterSettle
INVARIANT GraceIsBounded
INVARIANT HostLeavesNothingAlive
INVARIANT OwnKillsAreOwned
PROPERTY CancelledChecksSettle
\* The host has gone, or every check has settled: nothing remains to do.
CHECK_DEADLOCK FALSE
