CONSTANTS
    Scenarios <- MCScenarios
    Dirs <- MCDirs
    Trees <- MCTrees
    Args <- MCArgs
    NameOrder <- MCNameOrder
SPECIFICATION Spec
INVARIANT TypeOK RowsReadBack
CHECK_DEADLOCK FALSE
