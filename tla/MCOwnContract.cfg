SPECIFICATION Spec
CONSTANTS
    Scenes <- MCScenes
    Trees <- MCTrees
    Facts <- MCFacts
    MaxRuns = 2
INVARIANTS
    TypeOK
    PassMeansExamined
CHECK_DEADLOCK FALSE
