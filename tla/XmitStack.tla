----------------------------- MODULE XmitStack -----------------------------
(***************************************************************************)
(* The way of a packet through stacked devices without a queue, as         *)
(* __dev_queue_xmit of src/dev.c takes it on one CPU: made fit for the     *)
(* device (validate_xmit_skb), given to its driver (dev_hard_start_xmit),  *)
(* which for a tunnel or a VLAN calls dev_queue_xmit for the device below, *)
(* all on one kernel stack.  Devices may lead to each other in a circle:   *)
(* only xmit_recursion and xmit_lock_owner end that.                       *)
(*                                                                         *)
(* A packet is a record of what the properties tell apart: "gso" (to be    *)
(* segmented), "partial" (CHECKSUM_PARTIAL), "frags" (not linear), "vlan"  *)
(* (a tag beside the data); a feature of a device has the same name.       *)
(*                                                                         *)
(* External: the drivers, the segmentation by the protocol, allocation     *)
(* failures.  Other CPUs only make HARD_TX_LOCK wait; devices with a queue *)
(* are in Transmit.                                                        *)
(***************************************************************************)
EXTENDS Naturals, Sequences, FiniteSets, SeqOps

CONSTANTS
    Dev,
    Under,          \* Under[d]: where the driver of d sends; {} of a real device
    Lltx,           \* NETIF_F_LLTX: no lock is taken
    Has,            \* Has[d]: dev->features
    HasForVlan,     \* dev->vlan_features
    RecursionLimit,
    Segments        \* bound: segments of a packet

Feature == {"gso", "partial", "frags", "vlan"}

\* What the values of the constants must satisfy
XmitStackAssumption == /\ Under \in [Dev -> SUBSET Dev] /\ Lltx \subseteq Dev
                       /\ Has \in [Dev -> SUBSET Feature]
                       /\ HasForVlan \in [Dev -> SUBSET Feature]
                       /\ RecursionLimit \in Nat /\ Segments \in Nat \ {0}

VARIABLES
    frames,     \* the calls of __dev_queue_xmit, the outermost first: [dev, list, in]
    recursion,  \* xmit_recursion of the CPU
    owned,      \* queues whose xmit_lock_owner is the CPU
    stopped     \* devices that are down or whose queue is stopped

stackVars == <<frames, recursion, owned, stopped>>

Packet == SUBSET Feature

Init == frames = <<>> /\ recursion = 0 /\ owned = {} /\ stopped = {}

Top == Last(frames)
Below == Front(frames)
-----------------------------------------------------------------------------
(* validate_xmit_skb: what a device gets for a packet, a list or nothing.  *)

\* netif_skb_features; unfit: too many segments, a protocol it cannot checksum, or
\* memory it cannot reach
Features(skb, d, unfit) ==
    (Has[d] \cap IF "vlan" \in skb THEN HasForVlan[d] \cup {"vlan"} ELSE Feature) \ unfit

\* validate_xmit_vlan
Untagged(skb, fs) == IF "vlan" \in skb \ fs THEN skb \ {"vlan"} ELSE skb

\* skb_gso_segment, where each segment is made for the features
Segmented(skb, fs) == [i \in 1 .. Segments |-> (skb \ {"gso"}) \ ({"partial", "frags"} \ fs)]

\* __skb_linearize and skb_checksum_help, which refuses a packet to be segmented
Fitted(skb, fs) ==
    LET linear == IF "frags" \in fs THEN skb ELSE skb \ {"frags"}
    IN IF "partial" \notin skb \ fs THEN <<linear>>
       ELSE IF "gso" \in skb THEN <<>>
       ELSE <<linear \ {"partial"}>>

\* validate_xmit_skb; each step may run out of memory
Validated(skb, d, unfit) ==
    LET fs == Features(skb, d, unfit)
        untagged == Untagged(skb, fs)
    IN {<<>>} \cup {IF "gso" \in skb /\ ("gso" \notin fs \/ "partial" \notin skb)
                    THEN Segmented(untagged, fs) ELSE Fitted(untagged, fs)}
-----------------------------------------------------------------------------
\* dev_queue_xmit, called by somebody or by a driver
Call(d, skb) == [dev |-> d, list |-> <<skb>>, in |-> "entry"]

Send(d, skb) == /\ frames = <<>>
                /\ frames' = <<Call(d, skb)>>
                /\ UNCHANGED <<recursion, owned, stopped>>

\* Mutant: only the lock is asked, which a tunnel does not have.
MayRecurseAlways == TRUE

MayRecurse == recursion <= RecursionLimit

\* The device is down, the CPU is inside its driver already, or too deep: dropped
Refuse == /\ frames # <<>> /\ Top.in = "entry"
          /\ Top.dev \in stopped \cup owned \/ ~MayRecurse
          /\ frames' = Below
          /\ UNCHANGED <<recursion, owned, stopped>>

\* ... or it is made fit, HARD_TX_LOCK is taken, and dev_hard_start_xmit begins
Enter == /\ frames # <<>> /\ Top.in = "entry"
         /\ Top.dev \notin stopped \cup owned /\ MayRecurse
         /\ \E unfit \in {{}, {"gso"}, {"partial"}, {"frags"}} :
              \E list \in Validated(Head(Top.list), Top.dev, unfit) :
                IF list = <<>>
                THEN frames' = Below /\ UNCHANGED <<recursion, owned>>
                ELSE /\ frames' = Append(Below, [Top EXCEPT !.list = list, !.in = "driver"])
                     /\ recursion' = recursion + 1
                     /\ owned' = IF Top.dev \in Lltx THEN owned ELSE owned \cup {Top.dev}
         /\ UNCHANGED stopped

InDriver == frames # <<>> /\ Top.in = "driver" /\ Top.list # <<>>

\* The driver of a device on top of another one sends the packet on.
Forward(d) == /\ InDriver
              /\ d \in Under[Top.dev]
              /\ frames' = Append(Append(Below, [Top EXCEPT !.list = Tail(@)]),
                                  Call(d, Head(Top.list)))
              /\ UNCHANGED <<recursion, owned, stopped>>

\* A driver takes the packet.  It may stop its queue by that.
Take(stops) == /\ InDriver
               /\ frames' = Append(Below, [Top EXCEPT !.list = Tail(@)])
               /\ stopped' = IF stops THEN stopped \cup {Top.dev} ELSE stopped
               /\ UNCHANGED <<recursion, owned>>

\* All packets are taken; or the driver is busy or has stopped, and the rest is dropped.
Leave == /\ frames # <<>> /\ Top.in = "driver"
         /\ frames' = Below
         /\ recursion' = recursion - 1
         /\ owned' = owned \ {Top.dev}
         /\ UNCHANGED stopped

\* netif_tx_wake_queue, dev_open
Start(d) == /\ d \in stopped
            /\ stopped' = stopped \ {d}
            /\ UNCHANGED <<frames, recursion, owned>>

Next == \/ \E d \in Dev : (\E skb \in Packet : Send(d, skb)) \/ Forward(d) \/ Start(d)
        \/ \E stops \in BOOLEAN : Take(stops)
        \/ Refuse \/ Enter \/ Leave

Spec == Init /\ [][Next]_stackVars
-----------------------------------------------------------------------------
Driven == {i \in 1 .. Len(frames) : frames[i].in = "driver"}

\* However the devices lead to each other, the kernel stack holds no more than the limit
\* allows, the counter is what the drivers on it make it, and back at 0 when the CPU has
\* left them all; the CPU never waits for a lock it has.
StackIsBounded ==
    /\ Cardinality(Driven) <= RecursionLimit + 1 /\ Len(frames) <= RecursionLimit + 2
    /\ recursion = Cardinality(Driven)
    /\ \A i, j \in Driven : frames[i].dev = frames[j].dev /\ i # j => frames[i].dev \in Lltx
    /\ owned = {frames[i].dev : i \in Driven} \ Lltx

\* A driver gets a packet only in a form its device can send.
DriverCanSend ==
    \A i \in Driven : \A k \in 1 .. Len(frames[i].list) :
        frames[i].list[k] \subseteq Has[frames[i].dev]

XmitIsSound == StackIsBounded /\ DriverCanSend
=============================================================================
