---------------------------- MODULE ReceivePath ----------------------------
(***************************************************************************)
(* __netif_receive_skb_core of src/dev.c: the way of a packet from its     *)
(* device past the taps, the ingress filters, the VLAN code and the        *)
(* receive handler of the device to the protocols, or of a packet that is  *)
(* sent past the taps (dev_queue_xmit_nit), while a task adds and removes  *)
(* packet types and a receive handler.                                     *)
(*                                                                         *)
(* The lists are read under RCU.  A handler function gets the packet one   *)
(* step late: the walk keeps the last packet type that matched in pt_prev, *)
(* gives it the packet, with a reference of its own, when another one      *)
(* matches, and gives the last one its own reference.  A list is walked in *)
(* one step here; between lists anything may happen.                       *)
(*                                                                         *)
(* The fragments of a packet may be the memory of a user's program; they   *)
(* are copied before the first packet type gets the packet                 *)
(* (skb_orphan_frags), which may fail each time it is tried and is over    *)
(* once it has succeeded.                                                  *)
(*                                                                         *)
(* External: what tc_classify, the netfilter hook, vlan_do_receive and the *)
(* receive handler answer; which packet type belongs to the socket that    *)
(* sends; skb_orphan_frags, and that skb_clone does it, too.               *)
(***************************************************************************)
EXTENDS Naturals, Sequences, FiniteSets, SeqOps

CONSTANTS
    Lower, Upper,   \* the device packets come in on, and the one a VLAN or master is
    Pt,             \* packet types
    NoPt,
    HeadOf,         \* HeadOf[pt]: <<"all">>, <<"base">>, <<"all", dev>> or <<"specific", dev>>
    MaxChanges      \* bound: additions and removals of packet types and of the handler

Dev == {Lower, Upper}

\* What the values of the constants must satisfy
ReceiveAssumption == /\ Lower # Upper /\ NoPt \notin Pt /\ MaxChanges \in Nat
                     /\ HeadOf \in [Pt -> {<<"all">>, <<"base">>}
                                            \cup ({"all", "specific"} \X Dev)]

VARIABLES
    list,       \* packet types that are linked, newest first
    freed,      \* packet types dev_remove_pack has returned for
    handler,    \* Lower's rx_handler is set
    data,       \* Lower's rx_handler_data is set
    writer,     \* the task: "idle", or which grace period it waits for
    waits,      \* the packet type that waits for its grace period
    changes,
    at,         \* where the CPU is in __netif_receive_skb_core or dev_queue_xmit_nit
    sender,     \* the packet type of the socket that sends
    dev,        \* skb->dev
    skb,        \* the packet: [tagged, pfmemalloc] BOOLEANs
    exact,      \* deliver_exact
    ptPrev,     \* pt_prev
    seen,       \* history: <<pt, dev>> that matched in a walk, in order
    userFrags,  \* the packet's fragments are still a user's memory
    denied,     \* history: <<pt, dev>> the packet could not be copied for, in order
    given,      \* history: <<pt, dev>> that got the packet, in order
    own         \* references to the packet this walk still has to give away

listVars == <<list, freed, handler, data, writer, waits, changes>>
walkVars == <<at, sender, dev, skb, exact, ptPrev, seen, userFrags, denied, given, own>>
offer == <<userFrags, denied, given>>
vars == <<listVars, walkVars>>

Reading == at # "idle"
-----------------------------------------------------------------------------
Init == /\ list = <<>> /\ freed = {} /\ handler = FALSE /\ data = FALSE
        /\ writer = "idle" /\ waits = NoPt /\ changes = 0
        /\ at = "idle" /\ sender = NoPt /\ dev = Lower
        /\ skb = [tagged |-> FALSE, pfmemalloc |-> FALSE]
        /\ exact = FALSE /\ ptPrev = NoPt
        /\ seen = <<>> /\ userFrags = FALSE /\ denied = <<>> /\ given = <<>> /\ own = 0
-----------------------------------------------------------------------------
(* The task, which holds what it must: rtnl_lock or ptype_lock.            *)

Change == writer = "idle" /\ changes < MaxChanges /\ changes' = changes + 1

\* dev_add_pack
DevAddPack(pt) == /\ Change
                  /\ pt \notin ToSet(list)
                  /\ list' = <<pt>> \o list
                  /\ freed' = freed \ {pt}
                  /\ UNCHANGED <<handler, data, writer, waits, walkVars>>

\* __dev_remove_pack
DevRemovePack(pt) == /\ Change
                     /\ pt \in ToSet(list)
                     /\ list' = Remove(list, pt)
                     /\ writer' = "remove" /\ waits' = pt
                     /\ UNCHANGED <<freed, handler, data, walkVars>>

\* Mutant: dev_remove_pack does not wait for the readers.
RemovedAtOnce == /\ writer = "remove"
                 /\ freed' = freed \cup {waits}
                 /\ writer' = "idle" /\ waits' = NoPt
                 /\ UNCHANGED <<list, handler, data, changes, walkVars>>

\* synchronize_net in dev_remove_pack; its caller frees the packet type.
Removed == /\ writer = "remove" /\ ~Reading
           /\ freed' = freed \cup {waits}
           /\ writer' = "idle" /\ waits' = NoPt
           /\ UNCHANGED <<list, handler, data, changes, walkVars>>

\* netdev_rx_handler_register: the data, then the handler.
RegisterData == /\ Change /\ ~handler
                /\ data' = TRUE
                /\ writer' = "register"
                /\ UNCHANGED <<list, freed, handler, waits, walkVars>>

RegisterHandler == /\ writer = "register"
                   /\ handler' = TRUE
                   /\ writer' = "idle"
                   /\ UNCHANGED <<list, freed, data, waits, changes, walkVars>>

\* netdev_rx_handler_unregister
UnregisterHandler == /\ Change /\ handler
                     /\ handler' = FALSE
                     /\ writer' = "unregister"
                     /\ UNCHANGED <<list, freed, data, waits, walkVars>>

\* synchronize_net, and then the data.
UnregisterData == /\ writer = "unregister" /\ ~Reading
                  /\ data' = FALSE
                  /\ writer' = "idle"
                  /\ UNCHANGED <<list, freed, handler, waits, changes, walkVars>>

Writer == \/ \E pt \in Pt : DevAddPack(pt) \/ DevRemovePack(pt)
          \/ Removed \/ RegisterData \/ RegisterHandler \/ UnregisterHandler \/ UnregisterData
-----------------------------------------------------------------------------
(* The receiving CPU.                                                      *)

\* skb_orphan_frags and what gets the packet, for one packet type after the other: the
\* first ones go without it as long as the fragments cannot be copied, all others get it.
Offer(pts) == \E k \in 0 .. IF userFrags THEN Len(pts) ELSE 0 :
                 /\ denied' = denied \o SubSeq(pts, 1, k)
                 /\ given' = given \o SubSeq(pts, k + 1, Len(pts))
                 /\ userFrags' = (userFrags /\ k = Len(pts))

\* deliver_skb to a packet type that is pending, if there is one: it gets a reference of
\* its own, unless the packet cannot be copied; nobody looks at the answer.
Deliver == Offer(IF ptPrev = NoPt THEN <<>> ELSE <<<<ptPrev, dev>>>>)

\* The walk of the lists of the heads hs: every match gives the packet to the one before.
\* skb_loop_sk: a packet never goes back to the socket it comes from.
Matching(hs) == Only(list, {pt \in Pt : HeadOf[pt] \in hs /\ pt # sender})

Walk(hs) ==
    LET m == Matching(hs)
        pending == (IF ptPrev = NoPt THEN <<>> ELSE <<ptPrev>>) \o m
    IN  IF m = <<>> THEN UNCHANGED <<ptPrev, seen, offer>>
        ELSE /\ ptPrev' = Last(pending)
             /\ Offer([i \in 1 .. Len(pending) - 1 |-> <<pending[i], dev>>])
             /\ seen' = seen \o [i \in 1 .. Len(m) |-> <<m[i], dev>>]

\* The end of the walk: the packet is consumed by whom it was given to, or freed.
Leave == own' = 0 /\ at' = "idle"

\* A packet comes in, with or without a VLAN tag; its memory may come from the reserves,
\* or its fragments from a user.  One that an action of tc has sent here again goes to
\* ncls.
Receive(tagged, pfmemalloc, frags, ncls) ==
    /\ at = "idle"
    /\ at' = IF ncls THEN "vlan" ELSE "taps"
    /\ dev' = Lower
    /\ skb' = [tagged |-> tagged, pfmemalloc |-> pfmemalloc]
    /\ exact' = FALSE /\ ptPrev' = NoPt
    /\ seen' = <<>> /\ userFrags' = frags /\ denied' = <<>> /\ given' = <<>> /\ own' = 1
    /\ UNCHANGED <<listVars, sender>>

\* another_round up to skip_taps: all packets go past the taps, those from the reserves
\* do not.
Taps == /\ at = "taps"
        /\ at' = "ingress"
        /\ IF skb.pfmemalloc THEN UNCHANGED <<ptPrev, seen, offer>>
                             ELSE Walk({<<"all">>, <<"all", dev>>})
        /\ UNCHANGED <<listVars, sender, dev, skb, exact, own>>

\* handle_ing and nf_ingress: no filter on this device; or one, before which the tap that
\* is pending gets the packet, and which may take the packet.
Ingress == /\ at = "ingress"
           /\ \/ at' = "vlan" /\ UNCHANGED <<ptPrev, offer, own>>
              \/ /\ Deliver /\ ptPrev' = NoPt
                 /\ \/ at' = "vlan" /\ UNCHANGED own
                    \/ Leave
           /\ UNCHANGED <<listVars, sender, dev, skb, exact, seen>>

\* ncls: a packet from the reserves of a protocol that does not know them is dropped; a
\* tagged one goes on as a packet of the VLAN device, where it may have another tag, or
\* of this one if it has no such VLAN, or is taken by vlan_do_receive.
Vlan == /\ at = "vlan"
        /\ \/ skb.pfmemalloc /\ Leave /\ UNCHANGED <<dev, skb, ptPrev, offer>>
           \/ ~skb.tagged /\ at' = "deref" /\ UNCHANGED <<dev, skb, ptPrev, offer, own>>
           \/ /\ skb.tagged
              /\ Deliver /\ ptPrev' = NoPt
              /\ \/ /\ dev = Lower /\ dev' = Upper
                    /\ \E inner \in BOOLEAN : skb' = [skb EXCEPT !.tagged = inner]
                    /\ at' = "taps" /\ UNCHANGED own
                 \/ at' = "deref" /\ UNCHANGED <<dev, skb, own>>
                 \/ Leave /\ UNCHANGED <<dev, skb>>
        /\ UNCHANGED <<listVars, sender, exact, seen>>

\* rcu_dereference(skb->dev->rx_handler)
Deref == /\ at = "deref"
         /\ at' = IF dev = Lower /\ handler THEN "handler" ELSE "untag"
         /\ UNCHANGED <<listVars, sender, dev, skb, exact, ptPrev, seen, offer, own>>

\* The receive handler, which reads rx_handler_data: RX_HANDLER_CONSUMED, _ANOTHER,
\* _EXACT or _PASS.
Handler ==
    /\ at = "handler"
    /\ Deliver /\ ptPrev' = NoPt
    /\ \/ Leave /\ UNCHANGED <<dev, exact>>
       \/ dev' = Upper /\ at' = "taps" /\ UNCHANGED <<exact, own>>
       \/ exact' \in {exact, TRUE} /\ at' = "untag" /\ UNCHANGED <<dev, own>>
    /\ UNCHANGED <<listVars, sender, skb, seen>>

\* The protocols: all of the type unless the match must be exact, those bound to the
\* device the packet came in on, and those bound to the one it has come to.
Protocols == /\ at = "untag"
             /\ Walk({<<"specific", Lower>>, <<"specific", dev>>}
                        \cup IF exact THEN {} ELSE {<<"base">>})
             /\ at' = "last"
             /\ UNCHANGED <<listVars, sender, dev, skb, exact, own>>

\* The last one gets the reference of the walk; a packet nobody wants is freed, as is one
\* that cannot be copied for the last one.
LastOne == /\ at = "last"
           /\ Deliver /\ ptPrev' = NoPt
           /\ Leave
           /\ UNCHANGED <<listVars, sender, dev, skb, exact, seen>>

(* The sending CPU.                                                        *)

\* Packet types the walk of dev_queue_xmit_nit can meet
Tap == {pt \in Pt : HeadOf[pt] \in {<<"all">>, <<"all", Lower>>}}

\* xmit_one: a packet goes out, sent by a packet socket or by another one.
XmitOne(pt) == /\ at = "idle"
               /\ at' = "nit"
               /\ dev' = Lower /\ sender' = pt
               /\ ptPrev' = NoPt /\ seen' = <<>> /\ own' = 0
               /\ userFrags' = FALSE /\ denied' = <<>> /\ given' = <<>>
               /\ skb' = [tagged |-> FALSE, pfmemalloc |-> FALSE] /\ exact' = FALSE
               /\ UNCHANGED listVars

\* The list of all devices, then the list of this one.
NitHead == IF at = "nit" THEN <<"all">> ELSE <<"all", dev>>
NitNext == IF at = "nit" THEN "nit dev" ELSE "nit last"

\* Mutant: what is pending from the first list is forgotten.
NitForgets == /\ at \in {"nit", "nit dev"}
              /\ IF at = "nit" THEN Walk({NitHead})
                 ELSE LET m == Matching({NitHead})
                      IN  /\ ptPrev' = IF m = <<>> THEN NoPt ELSE Last(m)
                          /\ given' = given \o [i \in 1 .. Len(m) - 1 |-> <<m[i], dev>>]
                          /\ seen' = seen \o [i \in 1 .. Len(m) |-> <<m[i], dev>>]
                          /\ UNCHANGED <<userFrags, denied>>
              /\ own' = IF Matching({NitHead}) = <<>> THEN own ELSE 1
              /\ at' = NitNext
              /\ UNCHANGED <<listVars, sender, dev, skb, exact>>

\* The packet is cloned once, for the first that matches; the clone's fragments are
\* the kernel's.
Nit == /\ at \in {"nit", "nit dev"}
       /\ Walk({NitHead})
       /\ own' = IF Matching({NitHead}) = <<>> THEN own ELSE 1
       /\ at' = NitNext
       /\ UNCHANGED <<listVars, sender, dev, skb, exact>>

\* skb_clone fails: nobody gets the packet.
NitFails == /\ at \in {"nit", "nit dev"}
            /\ ptPrev = NoPt /\ Matching({NitHead}) # <<>>
            /\ at' = "idle" /\ sender' = NoPt
            /\ UNCHANGED <<listVars, dev, skb, exact, ptPrev, seen, offer, own>>

\* The last one gets the clone.
NitLast == /\ at = "nit last"
           /\ Deliver /\ ptPrev' = NoPt
           /\ Leave /\ sender' = NoPt
           /\ UNCHANGED <<listVars, dev, skb, exact, seen>>

Reader == \/ \E t, p, f, n \in BOOLEAN : Receive(t, p, f, n)
          \/ Taps \/ Ingress \/ Vlan \/ Deref \/ Handler \/ Protocols \/ LastOne
          \/ \E pt \in Tap \cup {NoPt} : XmitOne(pt)
          \/ Nit \/ NitFails \/ NitLast

Next == Writer \/ Reader

Spec == Init /\ [][Next]_vars
-----------------------------------------------------------------------------
TypeOK == /\ ToSet(list) \subseteq Pt /\ freed \subseteq Pt
          /\ {handler, data, exact, userFrags} \subseteq BOOLEAN
          /\ writer \in {"idle", "remove", "register", "unregister"}
          /\ at \in {"idle", "taps", "ingress", "vlan", "deref", "handler", "untag", "last",
                    "nit", "nit dev", "nit last"}
          /\ sender \in Pt \cup {NoPt}
          /\ dev \in Dev /\ ptPrev \in Pt \cup {NoPt} /\ own \in {0, 1}

\* The walk uses nothing that has been freed: the packet type it holds is not one
\* dev_remove_pack has returned for, and a receive handler finds its data (src/dev.c:459,
\* 3848, 3872, 3996).
NothingFreedIsUsed == /\ ptPrev # NoPt => ptPrev \notin freed
                      /\ at = "handler" => data

Offered == denied \o given

\* Every packet type a walk has met is offered the packet, once for each device the
\* packet comes to, or is the one that is pending; but for a packet from the reserves,
\* which its protocols may not be ready for, and one that is sent and cannot be cloned.
\* The packet is given to all it is offered to but the first ones of a packet whose
\* fragments could not be copied for these: once one has it, all later ones get it
\* (src/dev.c:1835, 1839, 1935, 3773, 3986, 3998, 4044).
EveryMatchIsServed ==
    /\ seen = Offered \o (IF ptPrev = NoPt \/ at = "idle" THEN <<>> ELSE <<Last(seen)>>)
    /\ \A i, j \in 1 .. Len(Offered) : i # j => Offered[i] # Offered[j]
    /\ given # <<>> => ~userFrags
=============================================================================
