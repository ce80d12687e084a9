\* Two CPUs, four packets of which the first goes out in two segments, a ring of two and
\* a qdisc of two.  Everything may be sent and the CPUs idle: no deadlock check.
CONSTANTS
    cpu0 = cpu0
    cpu1 = cpu1
    NoCpu = NoCpu
    Cpu <- TwoCpus
    MaxPackets = 4
    SegmentsOf <- FirstInTwo
    MaxQueue = 2
    MaxRing = 2
    MaxDetach = 1
    MaxDown = 1
SPECIFICATION FairSpec
INVARIANTS
    ListedOnce
    QueueIsRun
    SentInOrder
PROPERTIES
    QueueDrains
    DeactivateReturns
CHECK_DEADLOCK FALSE
