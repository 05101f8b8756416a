\* One check is enough.
CONSTANTS
  c1 = c1
  Checks = {c1}
  Descendants <- MCGroupMembers
SPECIFICATION Spec
INVARIANT WholeTreeKilled
\* The host has gone, or every check has settled: nothing remains to do.
CHECK_DEADLOCK FALSE
