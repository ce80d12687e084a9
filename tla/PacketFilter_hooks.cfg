\* Both hooks: a softirq receives, a task sends on a stream that is connected to one of
\* two peers meanwhile.
CONSTANTS
    softirq0 = softirq0
    task0 = task0
    p1 = p1
    p2 = p2
    tcp = tcp
    Nobody = Nobody
    NoFlow = NoFlow
    Ctx <- Contexts
    Softirq <- Softirqs
    Peer <- TwoPeers
    Sock <- Streams
    Stream <- Streams
    Text <- Texts
    Admissible <- AdmissibleRules
    MaxRules = 1
    OrderedStores = TRUE
    ReloadDrop = FALSE
    AllocMayFail = FALSE
SYMMETRY PeersAlike
SPECIFICATION FilterSpec
INVARIANTS
    NoWildRead
    AnnouncedIsEnforced
    HooksAreSound
    SendsAreChecked
