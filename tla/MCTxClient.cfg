CONSTANTS
    c1 = c1  c2 = c2  c3 = c3  c4 = c4  c5 = c5  badHash = badHash
    Clients = {c1, c2, c3, c4, c5}
    FormValid <- MCFormValid
    KeyValid <- MCKeyValid
    TxSize <- MCTxSize
    MaxTxSize = 1
    NoWait <- MCNoWait
    TxStatusPolls = 3
    MaxBlocks = 2
    Faults = {"Http", "Io", "Db"}
    MaxFaults = 1
    TxInfoBatches <- MCTxInfoBatches
    BadHash = badHash
SPECIFICATION Spec
INVARIANT TypeOK ResultReflectsNode DefiniteErrorsDidNothing
          TxInfoAnswersNode
PROPERTY EveryCallReturns
CHECK_DEADLOCK FALSE
