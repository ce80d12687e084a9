-------------------------------- MODULE Gro --------------------------------
(***************************************************************************)
(* Generic receive offload: dev_gro_receive, napi_gro_flush and            *)
(* napi_gro_complete of src/dev.c over inet_gro_receive, inet_gro_complete *)
(* and inet_gso_segment of src/af_inet.c.                                  *)
(*                                                                         *)
(* A NAPI context holds packets back, the youngest flow first, to merge    *)
(* those that follow with them.  All of that runs in one softirq: every    *)
(* call is one step.  A held packet is a record with the IP ids and the    *)
(* places in the arrival order of what was merged into it.  The IP id has  *)
(* Ids values.  A packet is                                                *)
(*   "good"    - may be merged,                                            *)
(*   "odd"     - its length or a fragment bit sets flush,                  *)
(*   "bypass"  - never looked at: GRO is off, csum_bad, already GSO, no    *)
(*               offload for the protocol, IP options, a bad checksum.     *)
(*                                                                         *)
(* External: gro_receive of the transport protocol, which may refuse to    *)
(* merge, or may end the merged packet; packet types of offloads that come *)
(* and go.                                                                 *)
(***************************************************************************)
EXTENDS Naturals, Sequences, FiniteSets, SeqOps

CONSTANTS
    Flow,
    Ids,            \* 2^16
    MaxSkbs,        \* MAX_GRO_SKBS
    MaxArrivals     \* bound: packets received

\* What the values of the constants must satisfy
GroAssumption == /\ Ids \in Nat \ {0} /\ MaxSkbs \in Nat \ {0, 1}
                 /\ MaxArrivals \in Nat

VARIABLES
    groList,    \* napi->gro_list
    groCount,   \* napi->gro_count
    jiffy,      \* a tick has gone by since the oldest packet: ages are told apart
    offload,    \* the offload of the protocol is registered
    arrivals,   \* history: packets that came, numbered from 1
    delivered   \* history: per flow, what netif_receive_skb_internal got, bypassed ones
                \* left out

groVars == <<groList, groCount, jiffy, offload, arrivals, delivered>>

Init == /\ groList = <<>> /\ groCount = 0 /\ jiffy = 0 /\ offload = TRUE
        /\ arrivals = 0 /\ delivered = [f \in Flow |-> <<>>]
-----------------------------------------------------------------------------
\* napi_gro_complete of held packets, the first one first.  Without the offload, what
\* was merged is freed.
Complete(del, skbs) ==
    FoldLeft(LAMBDA d, p : IF offload \/ Len(p.from) = 1
                           THEN [d EXCEPT ![p.flow] = @ \o p.from] ELSE d, del, skbs)

\* inet_gro_receive's flush_id: the id follows the last one, or is that of the first
\* and the packet may not be fragmented
IdFits(p, pkt) ==
    LET flushId == (pkt.id + Ids - p.id) % Ids
    IN (flushId # 0 \/ ~p.df) => flushId = Len(p.from)

\* gro_list_prepare, inet_gro_receive: neither flush nor flush_id is set for p
MayMerge(p, pkt) == pkt.kind = "good" /\ p.df = pkt.df /\ IdFits(p, pkt)

At(flow) == {i \in 1 .. Len(groList) : groList[i].flow = flow}

\* The packet is held: the oldest flow makes room for it.
Hold(list, count, del, pkt) ==
    LET new == [flow |-> pkt.flow, df |-> pkt.df, id |-> pkt.id, age |-> jiffy,
                ids |-> <<pkt.id>>, from |-> <<arrivals + 1>>]
    IN IF count >= MaxSkbs
       THEN /\ groList' = <<new>> \o Front(list)
            /\ groCount' = count
            /\ delivered' = Complete(del, <<Last(list)>>)
       ELSE /\ groList' = <<new>> \o list
            /\ groCount' = count + 1
            /\ delivered' = del

Normal(list, count, del, pkt) ==
    /\ groList' = list /\ groCount' = count
    /\ delivered' = [del EXCEPT ![pkt.flow] = Append(@, arrivals + 1)]

Arrives == arrivals < MaxArrivals /\ arrivals' = arrivals + 1
           /\ UNCHANGED <<jiffy, offload>>

\* dev_gro_receive, goto normal at once
Bypass == /\ Arrives
          /\ UNCHANGED <<groList, groCount, delivered>>

\* No packet of the flow is held.
ReceiveFirst(pkt) ==
    /\ Arrives
    /\ offload /\ At(pkt.flow) = {}
    /\ IF pkt.kind = "odd" THEN Normal(groList, groCount, delivered, pkt)
       ELSE Hold(groList, groCount, delivered, pkt)

\* The packet is merged with the one that is held, which may be complete by that.
ReceiveMerged(pkt, last) ==
    /\ Arrives
    /\ offload
    /\ \E i \in At(pkt.flow) :
         LET p == groList[i]
             merged == [p EXCEPT !.ids = Append(@, pkt.id),
                                 !.from = Append(@, arrivals + 1)]
         IN /\ MayMerge(p, pkt)
            /\ IF last THEN /\ groList' = RemoveAt(groList, i)
                            /\ groCount' = groCount - 1
                            /\ delivered' = Complete(delivered, <<merged>>)
               ELSE /\ groList' = [groList EXCEPT ![i] = merged]
                    /\ UNCHANGED <<groCount, delivered>>

\* Mutant: the packet that is not merged goes on before the held one.
ReceiveKeeping(pkt) ==
    /\ Arrives
    /\ offload
    /\ At(pkt.flow) # {}
    /\ Normal(groList, groCount, delivered, pkt)

\* It is not: *pp is cut out and completed, then the packet is held or goes on.
ReceiveFlushing(pkt) ==
    /\ Arrives
    /\ offload
    /\ \E i \in At(pkt.flow) :
         LET rest == RemoveAt(groList, i)
             del == Complete(delivered, <<groList[i]>>)
         IN IF pkt.kind = "odd" THEN Normal(rest, groCount - 1, del, pkt)
            ELSE Hold(rest, groCount - 1, del, pkt)

\* Without the offload every packet goes on.
ReceiveWithout(pkt) == /\ Arrives
                       /\ ~offload
                       /\ UNCHANGED <<groList, groCount, delivered>>

\* napi_gro_flush: from the oldest on, until one has the age of now
Flush(flushOld) ==
    LET young == {i \in 1 .. Len(groList) : flushOld /\ groList[i].age = jiffy}
        keep == IF young = {} THEN 0 ELSE Max(young)
        done == SubSeq(groList, keep + 1, Len(groList))
    IN /\ groList # <<>>
       /\ groList' = SubSeq(groList, 1, keep)
       /\ groCount' = groCount - Len(done)
       /\ delivered' = Complete(delivered, Reverse(done))
       /\ UNCHANGED <<jiffy, offload, arrivals>>

\* The clock; only whether an age is that of now matters.
Tick == /\ jiffy < MaxArrivals /\ groList # <<>> /\ Head(groList).age = jiffy
        /\ jiffy' = jiffy + 1
        /\ UNCHANGED <<groList, groCount, offload, arrivals, delivered>>

\* dev_remove_offload and dev_add_offload
ChangeOffload == /\ offload' = ~offload
                 /\ UNCHANGED <<groList, groCount, jiffy, arrivals, delivered>>

Packet == [flow : Flow, id : 0 .. Ids - 1, df : BOOLEAN, kind : {"good", "odd"}]

Next == \/ \E pkt \in Packet : \/ ReceiveFirst(pkt) \/ ReceiveFlushing(pkt)
                               \/ ReceiveWithout(pkt)
                               \/ \E last \in BOOLEAN : ReceiveMerged(pkt, last)
        \/ \E old \in BOOLEAN : Flush(old)
        \/ Bypass \/ Tick \/ ChangeOffload

Spec == Init /\ [][Next]_groVars
-----------------------------------------------------------------------------
\* inet_gso_segment: the ids of the segments of a merged packet
SegmentIds(p) == [k \in 1 .. Len(p.ids) |-> (p.id + k - 1) % Ids]

Held(flow) == {n \in 1 .. arrivals : \E i \in At(flow) : Contains(groList[i].from, n)}

\* gro_count is the length of the list, which the loop that takes the oldest off relies
\* on; the list is in the order of age; a flow is held once.
ListIsCounted == /\ groCount = Len(groList) /\ groCount <= MaxSkbs
                 /\ \A i, j \in 1 .. Len(groList) :
                        i < j => /\ groList[i].age >= groList[j].age
                                 /\ groList[i].flow # groList[j].flow

\* A flow's packets reach the protocols in the order they arrived, and what is held is
\* younger than all of them: but for packets that bypass GRO, which overtake.
FlowsInOrder ==
    \A f \in Flow : /\ \A i \in 2 .. Len(delivered[f]) :
                         delivered[f][i - 1] < delivered[f][i]
                    /\ \A n \in Held(f), m \in ToSet(delivered[f]) : m < n

\* Cutting a merged packet up gives the packets that came, the IP ids included; of a
\* packet with DF the ids may differ, which the comment in inet_gro_receive accepts.
SegmentsAreOriginals ==
    \A i \in 1 .. Len(groList) : ~groList[i].df => SegmentIds(groList[i]) = groList[i].ids

GroIsSound == ListIsCounted /\ FlowsInOrder /\ SegmentsAreOriginals
=============================================================================
