\* Two CPUs, one of which goes off and comes back; the second packet is of the device
\* that goes away.  The behaviour ends when all packets have arrived and are gone: no
\* deadlock check.
CONSTANTS
    cpu0 = cpu0
    cpu1 = cpu1
    NoCpu = NoCpu
    Hotplug = Hotplug
    Cpu <- TwoCpus
    MaxPackets = 3
    OfGone <- Second
    MaxBacklog = 1
    Weights <- OneOrTwo
    MaxHotplug = 1
SPECIFICATION FairSpec
INVARIANTS
    SchedHasOneOwner
    QueueIsScheduled
    GoneDeviceLeavesNothing
PROPERTIES
    ImplementsQueue
    QueuesDrain
CHECK_DEADLOCK FALSE
