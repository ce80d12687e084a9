\* Two CPUs, a ring of two packets and a weight of two: a poll may be short or full.
CONSTANTS
    cpu0 = cpu0
    cpu1 = cpu1
    NoCpu = NoCpu
    Cpu <- TwoCpus
    MaxRing = 2
    Weight = 2
SPECIFICATION FairSpec
INVARIANTS
    OneOwner
    HeldIsWatched
    DisabledIsQuiet
PROPERTIES
    DisableReturns
