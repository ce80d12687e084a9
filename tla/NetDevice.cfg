CONSTANTS
    eth = eth
    dummy = dummy
    bond = bond
    bridge = bridge
    ip = ip
    r1 = r1
    c1 = c1
    c2 = c2
    Dev <- FourDevices
    Masters <- Bond
    LinkMayFail = TRUE
    Mortal <- Eth
    Toggled <- EthAndDummy
    Notifiers <- Ip
    Readers <- OneReader
    CPU <- TwoCpus
    MaxCount = 1
SPECIFICATION FairSpec
INVARIANTS
    RefsCountPaths
    FreedOnlyWhenUnreferenced
    NotifierViewIsCurrent
PROPERTIES
    FailedLinkLeavesNoTrace
    UnregisterCompletes
