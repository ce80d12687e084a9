CONSTANTS
    t1 = t1
    t2 = t2
    t3 = t3
    port1 = port1
    port2 = port2
    d1 = d1
    d2 = d2
    c1 = c1
    c2 = c2
    f1 = f1
    f2 = f2
    f3 = f3
    r1 = r1
    r2 = r2
    NoPort = NoPort
    NoPt = NoPt
    NoDev = NoDev
    NoName = NoName
    NoQueue = NoQueue
    NoEntry = NoEntry
    NoCpu = NoCpu
    Thread <- Threads
    Port <- Ports
    Addr <- Addrs
    TextPort = {"69", "15360"}
    Device <- Devices
    MaxRules = 2
    LowerDev = "eth0"
    UpperDev = "bond0"
    Pt <- PacketTypes
    HeadOf <- Heads
    MaxChanges = 5
    NamedDev = {d1, d2}
    Ns = {1, 2}
    HomeNs = 1
    Piece = {"eth", "%d", "0", "1"}
    Request <- Requests
    Preset = {0, 2}
    Room = 1
    MaxUnits = 3
    MaxIndex = 3
    MaxNameOps = 5
    Cpu = {c1, c2}
    Online = {c1}
    Tc = {0, 1}
    Prio = {0, 1}
    NumQueues = 3
    MaxConfig = 2
    CountWidth = 4
    UnicastFlt = FALSE
    MaxHolders = 4
    MergeFlow = {f1, f2, f3}
    Ids = 3
    MaxSkbs = 2
    MaxArrivals = 3
    StackDev <- StackedDevices
    Under <- LowerOf
    Lltx = {"tun0", "tun1"}
    StackHas <- Offloads
    HasForVlan <- OffloadsForVlan
    RecursionLimit = 2
    Segments = 2
    Entry <- Entries
    Boot <- BootArray
    Type = {"dgram", "raw"}
    Protocol = {0, 1, 17, 136}
    MaxLoads = 2
    Receiver = {r1, r2}
    Callback = r2
    TailWidth = 4
    MaxBacklog = 0
    BitsDev <- BitsDevices
    BelowPairs <- LinkablePairs
    BitsHas <- Announced
    Hw <- Changeable
    BitsToggled = {"sg", "ip", "lro"}
    MaxOps = 4
    Task = {t1}
    Worker = t2
    HomeNet = 3
    Ending <- NamespacesThatEnd
    BeginsWith <- DevicesOf
    Kind <- KindOf
    Peer <- PeerOf
    User <- Threads
SPECIFICATION PartsSpec
INVARIANTS
    TextsAgree
    ReceiveIsSound
    NamesAreSound
    QueuesAreSound
    FlagsAreRight
    MergeIsSound
    StackIsSound
    ProtocolsAreSound
    StatesAgree
PROPERTIES
    PortStays
    ConnectTellsTruth
CHECK_DEADLOCK FALSE
