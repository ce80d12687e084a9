\* Fair threads.
CONSTANTS
    r1 = r1
    rcv1 = rcv1
    rcv2 = rcv2
    snd1 = snd1
    NoRule = NoRule
    Rule <- OneRule
    Receiver <- OneReceiver
    Sender <- OneSender
    MaxSock = 1
    QueueCap = 2
    MaxWaiting = 1
    FamilyIds = {27}
SPECIFICATION FairSpec
PROPERTIES
    RulesRestored
