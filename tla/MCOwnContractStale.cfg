SPECIFICATION Spec
CONSTANTS
    Scenes <- MCMutation
    Trees <- MCTrees
    Facts <- MCFacts
    MaxRuns = 2
INVARIANT MutationEvidenceIsFresh
CHECK_DEADLOCK FALSE
