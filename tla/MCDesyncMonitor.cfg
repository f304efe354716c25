CONSTANTS
    n1 = n1  n2 = n2  n3 = n3  g = g  a = a  b = b
    Nodes = {n1, n2, n3}
    ConfNodesList <- MCConfNodesList
    NoFlag = NoFlag
    Vals <- MCVals
    InitChains <- MCInitChains
    MaxHeight = 4
    MaxProduced = 1
    MaxInt64 = 1000
    NodesListFlag <- MCNodesListFlag
    ConfDaemonMode = FALSE
    DaemonModeFlag = TRUE
    Faults = {"MaxBlockIDs", "BlockInfo", "Smtp"}
    MaxFaults = 2
SPECIFICATION Spec
INVARIANT TypeOK MinElementIsMin
PROPERTY ForkAlerted
