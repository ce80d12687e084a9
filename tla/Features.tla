------------------------------ MODULE Features ------------------------------
(***************************************************************************)
(* The feature bits of stacked devices in src/dev.c: what a device is to   *)
(* have (netdev_fix_features, netdev_sync_upper_features), how a device    *)
(* that turns a feature off turns it off below (__netdev_update_features,  *)
(* netdev_sync_lower_features), and dev_disable_lro.                       *)
(*                                                                         *)
(* The RTNL is held throughout; the functions call themselves for the      *)
(* devices below, which is the stack of frames here.  The one feature an   *)
(* upper device can forbid (NETIF_F_UPPER_DISABLES) is "lro".  No device   *)
(* has ndo_busy_poll.                                                      *)
(*                                                                         *)
(* External: what the user or the driver wants changed, and when; who      *)
(* links devices (a bridge turns LRO off on what it takes in); whether     *)
(* ndo_fix_features drops LRO, and whether ndo_set_features fails.         *)
(***************************************************************************)
EXTENDS Naturals, Sequences, FiniteSets

CONSTANTS
    Dev,
    Below,          \* pairs <<lower, upper>> that may be linked; no cycles
    Has,            \* Has[d]: the features the driver of d announces
    Hw,             \* Hw[d]: those of them that can be changed, hw_features
    Toggled,        \* bound: the features the user changes
    MaxOps          \* bound: operations

Bits == {"sg", "hw", "ip", "ip6", "tso", "tso6", "ecn", "gso", "ufo", "lro"}

\* A level for each device, lower ones below upper ones: __netdev_upper_dev_link makes no
\* cycles
Levels == {level \in [Dev -> 0 .. Cardinality(Dev)] : \A p \in Below : level[p[1]] < level[p[2]]}

\* What the values of the constants must satisfy
FeaturesAssumption == /\ Below \subseteq Dev \X Dev /\ Levels # {}
                      /\ \A d \in Dev : Has[d] \subseteq Bits /\ Hw[d] \subseteq Has[d]
                      /\ Toggled \subseteq Bits /\ MaxOps \in Nat

VARIABLES
    links,      \* the pairs that are linked
    features,   \* dev->features
    wanted,     \* dev->wanted_features
    frames,     \* the calls under way, innermost first: [pc, dev, to, todo]
    refused,    \* devices whose driver refused the last change
    changed     \* operations so far

featureVars == <<links, features, wanted, frames, refused, changed>>

Lowers(d) == {l \in Dev : <<l, d>> \in links}
Uppers(d) == {u \in Dev : <<d, u>> \in links}
-----------------------------------------------------------------------------
\* One line of netdev_fix_features: without what it needs a feature goes
Drop(f, ok, bits) == IF ok THEN f ELSE f \ bits

\* netdev_fix_features
Fix(f) ==
    LET csum == Drop(f, "hw" \notin f, {"ip", "ip6"})
        sg == Drop(csum, "sg" \in csum, {"tso", "tso6", "ecn"})
        tso == Drop(sg, "tso" \notin sg \/ sg \cap {"hw", "ip"} # {}, {"tso", "ecn"})
        tso6 == Drop(tso, tso \cap {"hw", "ip6"} # {}, {"tso6"})
        ecn == Drop(tso6, tso6 \cap {"tso", "tso6"} # {}, {"ecn"})
        gso == Drop(ecn, "sg" \in ecn, {"gso"})
    IN Drop(gso, "sg" \in gso /\ ("hw" \in gso \/ {"ip", "ip6"} \subseteq gso), {"ufo"})

\* netdev_get_wanted_features, ndo_fix_features, netdev_fix_features and
\* netdev_sync_upper_features for each device above
Targets(d) ==
    { LET f == Fix(((features[d] \ Hw[d]) \cup wanted[d]) \ dropped)
      IN IF \E u \in Uppers(d) : "lro" \notin wanted[u] THEN f \ {"lro"} ELSE f :
      dropped \in SUBSET {"lro"} }

\* register_netdevice: software offloads are on, and then the first update
Init == /\ links = {}
        /\ wanted = [d \in Dev |-> Hw[d] \cup {"gso"}]
        /\ features = [d \in Dev |-> Fix(Has[d] \cup {"gso"})]
        /\ frames = <<>> /\ refused = {} /\ changed = 0

Update(d) == [pc |-> "update", dev |-> d, to |-> {}, todo |-> {}]
Disable(d) == [pc |-> "disable", dev |-> d, to |-> {}, todo |-> {}]
At(pc) == frames # <<>> /\ frames[1].pc = pc
-----------------------------------------------------------------------------
\* Mutant: __netdev_update_features returns when nothing has changed.
UnchangedReturns ==
    /\ At("update")
    /\ features[frames[1].dev] \in Targets(frames[1].dev)
    /\ frames' = Tail(frames)
    /\ refused' = refused \ {frames[1].dev}
    /\ UNCHANGED <<links, features, wanted, changed>>

\* __netdev_update_features with nothing to change: the lower devices all the same
Unchanged ==
    LET d == frames[1].dev IN
    /\ At("update")
    /\ features[d] \in Targets(d)
    /\ frames' = <<[pc |-> "sync", dev |-> d, to |-> features[d], todo |-> Lowers(d)]>>
                 \o Tail(frames)
    /\ refused' = refused \ {d}
    /\ UNCHANGED <<links, features, wanted, changed>>

\* ... with a change the driver makes
SetFeatures ==
    LET d == frames[1].dev IN
    /\ At("update")
    /\ \E f \in Targets(d) \ {features[d]} :
        frames' = <<[pc |-> "sync", dev |-> d, to |-> f, todo |-> Lowers(d)]>> \o Tail(frames)
    /\ refused' = refused \ {d}
    /\ UNCHANGED <<links, features, wanted, changed>>

\* ... or refuses, which leaves the lower devices alone
SetFeaturesFails ==
    LET d == frames[1].dev IN
    /\ At("update")
    /\ Targets(d) # {features[d]}
    /\ frames' = Tail(frames)
    /\ refused' = refused \cup {d}
    /\ UNCHANGED <<links, features, wanted, changed>>

\* netdev_sync_lower_features: one lower device, which is updated in its turn
SyncLower ==
    /\ At("sync")
    /\ \E l \in frames[1].todo :
        LET rest == <<[frames[1] EXCEPT !.todo = @ \ {l}]>> \o Tail(frames)
        IN IF "lro" \notin frames[1].to /\ "lro" \in features[l]
           THEN /\ wanted' = [wanted EXCEPT ![l] = @ \ {"lro"}]
                /\ frames' = <<Update(l)>> \o rest
           ELSE frames' = rest /\ UNCHANGED wanted
    /\ UNCHANGED <<links, features, refused, changed>>

\* dev->features is written when the lower devices have been seen to
Updated == /\ At("sync") /\ frames[1].todo = {}
           /\ features' = [features EXCEPT ![frames[1].dev] = frames[1].to]
           /\ frames' = Tail(frames)
           /\ UNCHANGED <<links, wanted, refused, changed>>

\* dev_disable_lro, and again for each device below
DisableLro ==
    LET d == frames[1].dev IN
    /\ At("disable")
    /\ wanted' = [wanted EXCEPT ![d] = @ \ {"lro"}]
    /\ frames' = <<Update(d), [frames[1] EXCEPT !.pc = "below", !.todo = Lowers(d)]>>
                 \o Tail(frames)
    /\ UNCHANGED <<links, features, refused, changed>>

DisableBelow ==
    /\ At("below")
    /\ \/ /\ frames[1].todo = {} /\ frames' = Tail(frames)
       \/ \E l \in frames[1].todo :
            frames' = <<Disable(l), [frames[1] EXCEPT !.todo = @ \ {l}]>> \o Tail(frames)
    /\ UNCHANGED <<links, features, wanted, refused, changed>>
-----------------------------------------------------------------------------
Begin == frames = <<>> /\ changed < MaxOps /\ changed' = changed + 1

\* The user turns a feature on or off and has the device updated
Want(d, bit) == /\ Begin
                /\ bit \in Hw[d]
                /\ wanted' = [wanted EXCEPT ![d] = IF bit \in @ THEN @ \ {bit} ELSE @ \cup {bit}]
                /\ frames' = <<Update(d)>>
                /\ UNCHANGED <<links, features, refused>>

\* netdev_update_features, netdev_change_features: a driver has changed its mind
Recalculate(d) == /\ Begin
                  /\ frames' = <<Update(d)>>
                  /\ UNCHANGED <<links, features, wanted, refused>>

\* A bridge links a device, and turns LRO off on it
Link(l, u) == /\ Begin
              /\ <<l, u>> \in Below \ links
              /\ links' = links \cup {<<l, u>>}
              /\ frames' = <<Disable(l)>>
              /\ UNCHANGED <<features, wanted, refused>>

Unlink(l, u) == /\ Begin
                /\ <<l, u>> \in links
                /\ links' = links \ {<<l, u>>}
                /\ UNCHANGED <<features, wanted, frames, refused>>

Next == \/ Unchanged \/ SetFeatures \/ SetFeaturesFails
        \/ SyncLower \/ Updated \/ DisableLro \/ DisableBelow
        \/ \E d \in Dev : Recalculate(d) \/ \E bit \in Toggled : Want(d, bit)
        \/ \E l, u \in Dev : Link(l, u) \/ Unlink(l, u)

Spec == Init /\ [][Next]_featureVars
-----------------------------------------------------------------------------
\* Between two operations LRO is off below a device that does not want it, whatever was
\* linked, turned on and off and recalculated before, at either end; but for devices
\* whose driver has refused.
LroIsOffBelow ==
    frames = <<>> =>
        \A p \in links : "lro" \notin wanted[p[2]] /\ {p[1], p[2]} \cap refused = {}
                            => "lro" \notin features[p[1]]

\* No device has a feature without what it depends on.
FeaturesFit ==
    \A d \in Dev :
        LET f == features[d] IN
        /\ "hw" \in f => f \cap {"ip", "ip6"} = {}
        /\ f \cap {"tso", "tso6", "ecn", "gso", "ufo"} # {} => "sg" \in f
        /\ "tso" \in f => f \cap {"hw", "ip"} # {}
        /\ "tso6" \in f => f \cap {"hw", "ip6"} # {}
        /\ "ecn" \in f => f \cap {"tso", "tso6"} # {}
        /\ "ufo" \in f => "hw" \in f \/ {"ip", "ip6"} \subseteq f

FeaturesAreSound == LroIsOffBelow /\ FeaturesFit
=============================================================================
