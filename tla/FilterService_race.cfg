\* One rule, two receivers (a re-created service), one sender.
CONSTANTS
    r1 = r1
    rcv1 = rcv1
    rcv2 = rcv2
    snd1 = snd1
    NoRule = NoRule
    Rule <- OneRule
    Receiver <- TwoReceivers
    Sender <- OneSender
    MaxSock = 2
    QueueCap = 2
    MaxWaiting = 1
    FamilyIds = {27}
SPECIFICATION Spec
INVARIANTS
    RowsBoundedByThreads
    AddsAreRecorded
    NothingUnasked
