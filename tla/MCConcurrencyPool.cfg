\* Five items; limits below one, at, and above the number of items, and a non-finite one.
CONSTANTS
  N = 5
  NotFinite = NotFinite
  Concurrencies = {0, 2, 3, 7, NotFinite}
SPECIFICATION FairSpec
INVARIANT AnswersOnlyWhenQuiet
PROPERTY ImplementsRunOrder
PROPERTY EveryRunAnswers
\* The promise has answered and no worker is left: nothing remains to do.
CHECK_DEADLOCK FALSE
