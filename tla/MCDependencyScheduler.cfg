\* Four items; limits 0 (clamped to 1), 2, 3 and a non-finite one (taken as 1).
CONSTANTS
  N = 4
  NotFinite = NotFinite
  Graphs <- MCGraphs
  Concurrencies = {0, 2, 3, NotFinite}
SPECIFICATION FairSpec
INVARIANT TypeOK
INVARIANT NoIdleSlot
INVARIANT NoOvertaking
INVARIANT StallMeansCycle
PROPERTY ImplementsRunOrder
PROPERTY EveryRunAnswers
\* The promise has answered and no worker is left: nothing remains to do.
CHECK_DEADLOCK FALSE
