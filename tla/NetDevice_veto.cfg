CONSTANTS
    eth = eth
    dummy = dummy
    bond = bond
    bridge = bridge
    ip = ip
    r1 = r1
    c1 = c1
    c2 = c2
    Dev <- EthAndDummy
    Masters = {}
    LinkMayFail = FALSE
    Mortal <- Eth
    Toggled <- EthAndDummy
    Notifiers <- Ip
    Readers <- OneReader
    CPU <- TwoCpus
    MaxCount = 1
SPECIFICATION Spec
INVARIANT NeverFreedReferenced
