CONSTANTS
    d1 = d1
    d2 = d2
    d3 = d3
    d4 = d4
    d5 = d5
    Dev <- FiveDevices
    Masters = {}
    LinkMayFail = FALSE
SYMMETRY Permuted
SPECIFICATION AdjSpec
INVARIANT EntryIsThere
