CONSTANTS
    g = g  a = a  b = b  h1 = h1  h2 = h2
    t1 = t1  t2 = t2
    Hosts = {h1, h2}
    Triggers = {t1, t2}
    Vals <- MCVals
    Genesis = g
    PeerChain <- MCPeerChain
    LocalInits <- MCLocalInits
    BlocksPerRequest = 2
    RbBlocks = 3
    MaxHeight = 5
    MaxOwnBlocks = 0
    MaxPeerBlocks = 1
    Faults = {"NodesUnavailable", "StreamError", "WindowTruncate", "PlayError", "LoadError", "Crash", "ForkTruncate"}
    MaxFaults = 2
    NoHolder = NoHolder
    None = None
SPECIFICATION Spec
PROPERTY EventuallySynced
