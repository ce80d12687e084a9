\* Who clears NAPI_STATE_SCHED.
CONSTANTS
    cpu0 = cpu0
    cpu1 = cpu1
    NoCpu = NoCpu
    Hotplug = Hotplug
    Cpu <- TwoCpus
    MaxPackets = 3
    OfGone <- Second
    MaxBacklog = 1
    Weights <- OneOrTwo
    MaxHotplug = 1
SPECIFICATION Spec
PROPERTIES
    OnlyOwnerClears
CHECK_DEADLOCK FALSE
