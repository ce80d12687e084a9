---------------------------- MODULE DeviceNames ----------------------------
(***************************************************************************)
(* Names and indices of devices in src/dev.c: what name a request gets     *)
(* (dev_get_valid_name, __dev_alloc_name), what index (dev_new_index), and *)
(* the places that must agree on a name: dev->name, the hash table, the    *)
(* directory in sysfs and the links to it in a neighbour's directory.      *)
(*                                                                         *)
(* One task at a time holds the RTNL, which register_netdevice asserts; a  *)
(* reader (netdev_get_name) does not hold it.                              *)
(* A name is a sequence of pieces: a stem and digits, of which Room fit in *)
(* IFNAMSIZ; numbers are written in base 2, which makes two digits rare    *)
(* enough for a small instance.  "%d" is the format.  The hash is taken to *)
(* separate all names.  The devices are down, as dev_change_name demands.  *)
(*                                                                         *)
(* External: the neighbour, which stays in namespace Home; whether sysfs   *)
(* refuses a rename; what ndo_init and the notifiers answer; the index a   *)
(* device may come with, which is not negative.                            *)
(***************************************************************************)
EXTENDS Naturals, Sequences, FiniteSets, SeqOps

CONSTANTS
    Dev, NoDev,
    Ns, Home,
    Piece,          \* what names and formats are made of
    Request,        \* names and formats that are asked for
    Preset,         \* indices devices come with, 0 for none
    NoName,
    Room,           \* digits that fit behind the stem
    MaxUnits,       \* max_netdevices
    MaxIndex,       \* the largest int
    MaxOps          \* bound: operations under the RTNL

\* What the values of the constants must satisfy
NamesAssumption == /\ NoDev \notin Dev /\ Home \in Ns /\ IsFiniteSet(Dev)
                   /\ Room \in Nat \ {0} /\ MaxUnits \in 1 .. 3
                   /\ MaxIndex \in Nat /\ MaxIndex > Cardinality(Dev)
                   /\ MaxOps \in Nat
                   /\ {"0", "1"} \subseteq Piece
                   /\ \A r \in Request : r \in Seq(Piece) /\ r # <<>>
                   /\ Preset \subseteq 0 .. MaxIndex

VARIABLES
    names,      \* dev->name
    net,        \* dev_net(dev)
    listed,     \* devices on dev_base_head
    bucket,     \* the name under which a device is in dev_name_head
    sysfs,      \* the name of its directory
    index,      \* dev->ifindex, 0 before one is given
    lastIndex,  \* net->ifindex
    linked,     \* devices the neighbour has in its adjacency lists
    links,      \* links[n]: the device the neighbour's link for name n leads to
    task,       \* the holder of the RTNL: [pc, dev, old, asked, again, net]
    ops,
    reading,    \* the device whose name netdev_get_name copies
    copied,     \* the name as that copy began
    torn,       \* dev_change_net_namespace has written the name during the copy
    lost        \* devices that a failure or a move has left wrong; see AllPlacesAgree

nameVars == <<names, net, listed, bucket, sysfs, index, lastIndex, linked, links,
              task, ops, reading, copied, torn, lost>>

Format(asked) == asked[Len(asked)] = "%d"
Printed(unit) == << <<"0">>, <<"1">>, <<"1", "0">>, <<"1", "1">> >>[unit + 1]
Units == 0 .. MaxUnits - 1
Whole(fmt, unit) == SubSeq(fmt, 1, Len(fmt) - 1) \o Printed(unit)

\* snprintf(buf, IFNAMSIZ, name, i), which cuts off what does not fit
Named(fmt, unit) ==
    SubSeq(Whole(fmt, unit), 1, Min({Len(Whole(fmt, unit)), Len(fmt) - 1 + Room}))

\* __dev_get_by_name, __dev_get_by_index
ByName(n, ns) == {d \in listed : net[d] = ns /\ bucket[d] = n /\ names[d] = n}
ByIndex(i, ns) == {d \in listed : net[d] = ns /\ index[d] = i}

\* __dev_alloc_name's inuse: units that sscanf reads off a name which is also what
\* printing them gives
InUse(fmt, ns) ==
    {u \in Units : \E d \in listed : net[d] = ns /\ names[d] = Whole(fmt, u)}

\* find_first_zero_bit, then snprintf; max_netdevices when every bit is set
AllocName(fmt, ns) ==
    Named(fmt, Min({MaxUnits} \cup (Units \ InUse(fmt, ns))))

\* dev_get_valid_name: the name for dev, or NoName for -EEXIST and -ENFILE
ValidName(asked, ns) ==
    LET n == IF Format(asked) THEN AllocName(asked, ns) ELSE asked
    IN IF ByName(n, ns) = {} THEN n ELSE NoName

\* dev_new_index: the next free one after net->ifindex, which wraps to 1
NewIndex(ns) ==
    LET At(k) == ((lastIndex[ns] + k) % MaxIndex) + 1
    IN At(Min({k \in 0 .. MaxIndex - 1 : ByIndex(At(k), ns) = {}}))
-----------------------------------------------------------------------------
Idle == [pc |-> "idle", dev |-> NoDev, old |-> NoName, asked |-> NoName,
         again |-> FALSE, net |-> Home]

Init == /\ names = [d \in Dev |-> NoName] /\ net = [d \in Dev |-> Home]
        /\ listed = {} /\ bucket = [d \in Dev |-> NoName]
        /\ sysfs = [d \in Dev |-> NoName]
        /\ index = [d \in Dev |-> 0] /\ lastIndex = [ns \in Ns |-> 0]
        /\ linked = {} /\ links = [n \in {} |-> NoDev]
        /\ task = Idle /\ ops = 0
        /\ reading = NoDev /\ copied = NoName /\ torn = FALSE /\ lost = {}

Begin == task.pc = "idle" /\ ops < MaxOps /\ ops' = ops + 1

HasLink(n) == n \in DOMAIN links
WithLink(ls, n, d) == IF n \in DOMAIN ls THEN ls       \* sysfs_create_link: -EEXIST
                      ELSE [m \in DOMAIN ls \cup {n} |-> IF m = n THEN d ELSE ls[m]]
WithoutLink(ls, n) == [m \in DOMAIN ls \ {n} |-> ls[m]]

\* netdev_adjacent_is_neigh_list: devices of two namespaces have no links to each other
IsNeigh(d) == net[d] = Home

\* netdev_adjacent_add_links, netdev_adjacent_del_links, netdev_adjacent_rename_links
AddLinks(ls, d, ns) == IF d \in linked /\ ns = Home THEN WithLink(ls, names[d], d) ELSE ls
DelLinks(ls, d) == IF d \in linked /\ net[d] = Home THEN WithoutLink(ls, names[d]) ELSE ls
RenameLinks(ls, d, old) ==
    IF d \in linked /\ net[d] = Home THEN WithLink(WithoutLink(ls, old), names[d], d) ELSE ls

\* The new link is not made because the name's leads to a device left wrong before
Blocked(ls, d, ns) ==
    d \in linked /\ ns = Home /\ names[d] \in DOMAIN ls /\ ls[names[d]] \in lost

\* sysfs has no other device's directory of that name
DirFree(n, d, ns) == \A e \in listed \ {d} : net[e] = ns => sysfs[e] # n

\* register_netdevice: the name, ndo_init, then the index the device comes with, when it
\* is free, or a new one, then the list.  Before that NETDEV_POST_INIT and
\* netdev_register_kobject may refuse, as ndo_init may.
Register(d, asked, preset) ==
    /\ Begin
    /\ d \notin listed /\ d # reading      \* a device made anew, after a grace period
    /\ LET n == ValidName(asked, net[d])
           i == IF preset = 0 THEN NewIndex(net[d]) ELSE preset
       IN /\ n # NoName
          /\ names' = [names EXCEPT ![d] = n]
          /\ \/ /\ index' = [index EXCEPT ![d] = preset]    \* ndo_init, -EBUSY
                /\ UNCHANGED <<lastIndex, listed, bucket, sysfs>>
             \/ /\ preset # 0 => ByIndex(preset, net[d]) = {}
                /\ index' = [index EXCEPT ![d] = i]
                /\ lastIndex' = IF preset = 0 THEN [lastIndex EXCEPT ![net[d]] = i]
                                ELSE lastIndex
                /\ \/ /\ DirFree(n, d, net[d])
                      /\ listed' = listed \cup {d}
                      /\ bucket' = [bucket EXCEPT ![d] = n]
                      /\ sysfs' = [sysfs EXCEPT ![d] = n]
                   \/ UNCHANGED <<listed, bucket, sysfs>>
    /\ UNCHANGED <<net, linked, links, task, reading, copied, torn, lost>>

\* netdev_upper_dev_link and netdev_upper_dev_unlink with the neighbour: a link that
\* cannot be made fails the whole.
Link(d) == /\ Begin
           /\ d \in listed \ linked
           /\ IsNeigh(d) => ~HasLink(names[d])
           /\ linked' = linked \cup {d}
           /\ links' = IF IsNeigh(d) THEN WithLink(links, names[d], d) ELSE links
           /\ UNCHANGED <<names, net, listed, bucket, sysfs, index, lastIndex, task,
                          reading, copied, torn, lost>>

Unlink(d) == /\ Begin
             /\ d \in linked
             /\ linked' = linked \ {d}
             /\ links' = IF IsNeigh(d) THEN WithoutLink(links, names[d]) ELSE links
             /\ UNCHANGED <<names, net, listed, bucket, sysfs, index, lastIndex, task,
                            reading, copied, torn, lost>>

-----------------------------------------------------------------------------
(* dev_change_name.                                                        *)

\* It holds devnet_rename_sem for writing from here to Hashed.
RenameSem == task.pc = "rename"

NoReader == reading = NoDev

ChangeName(d, asked) ==
    /\ Begin
    /\ d \in listed /\ asked # names[d]
    /\ NoReader
    /\ LET n == ValidName(asked, net[d])
       IN /\ n # NoName
          /\ names' = [names EXCEPT ![d] = n]
          /\ task' = [Idle EXCEPT !.pc = "rename", !.dev = d, !.old = names[d],
                                  !.asked = asked]
    /\ UNCHANGED <<net, listed, bucket, sysfs, index, lastIndex, linked, links,
                   reading, copied, torn, lost>>

\* device_rename, up_write, netdev_adjacent_rename_links and hlist_del_rcu
Renamed ==
    LET d == task.dev IN
    /\ task.pc = "rename"
    /\ DirFree(names[d], d, net[d])
    /\ sysfs' = [sysfs EXCEPT ![d] = names[d]]
    /\ links' = RenameLinks(links, d, task.old)
    /\ lost' = IF Blocked(WithoutLink(links, task.old), d, net[d])
               THEN lost \cup {d} ELSE lost
    /\ bucket' = [bucket EXCEPT ![d] = NoName]
    /\ task' = [task EXCEPT !.pc = "unhashed"]
    /\ UNCHANGED <<names, net, listed, index, lastIndex, linked, ops, reading, copied, torn>>

\* device_rename failed: the old name comes back, which in a roll back is what was asked,
\* a format perhaps
RenameFails ==
    /\ task.pc = "rename"
    /\ names' = [names EXCEPT ![task.dev] = task.old]
    /\ lost' = IF task.again /\ Format(task.old) THEN lost \cup {task.dev} ELSE lost
    /\ task' = Idle
    /\ UNCHANGED <<net, listed, bucket, sysfs, index, lastIndex, linked, links, ops,
                   reading, copied, torn>>

\* Mutant: the hash table keeps the device under its old name.
HashedUnderOld == /\ task.pc = "unhashed"
                  /\ bucket' = [bucket EXCEPT ![task.dev] = task.old]
                  /\ task' = [task EXCEPT !.pc = "notify"]
                  /\ UNCHANGED <<names, net, listed, sysfs, index, lastIndex, linked, links,
                                 ops, reading, copied, torn, lost>>

\* synchronize_rcu and hlist_add_head_rcu
Hashed == /\ task.pc = "unhashed"
          /\ bucket' = [bucket EXCEPT ![task.dev] = names[task.dev]]
          /\ task' = [task EXCEPT !.pc = "notify"]
          /\ UNCHANGED <<names, net, listed, sysfs, index, lastIndex, linked, links, ops,
                         reading, copied, torn, lost>>

\* NETDEV_CHANGENAME, answered well
Notified == /\ task.pc = "notify"
            /\ task' = Idle
            /\ UNCHANGED <<names, net, listed, bucket, sysfs, index, lastIndex, linked, links,
                           ops, reading, copied, torn, lost>>

\* ... or with a veto: once, the old name is put back and all is done again, with what
\* was asked for, a format perhaps, in the place of the name that is now left behind
Vetoed ==
    /\ task.pc = "notify"
    /\ IF task.again
       THEN /\ task' = Idle /\ UNCHANGED names
       ELSE /\ NoReader
            /\ names' = [names EXCEPT ![task.dev] = task.old]
            /\ task' = [task EXCEPT !.pc = "rename", !.old = task.asked, !.again = TRUE]
    /\ lost' = IF /\ ~task.again /\ Format(task.asked)
                  /\ task.dev \in linked /\ IsNeigh(task.dev)
               THEN lost \cup {task.dev} ELSE lost
    /\ UNCHANGED <<net, listed, bucket, sysfs, index, lastIndex, linked, links, ops,
                   reading, copied, torn>>
-----------------------------------------------------------------------------
(* dev_change_net_namespace.                                               *)

\* The name that is free over there is dev->name at once, without devnet_rename_sem and
\* before the links under the old name are taken away
ChangeNet(d, ns, pat) ==
    /\ Begin
    /\ d \in listed /\ net[d] # ns
    /\ LET n == IF ByName(names[d], ns) = {} THEN names[d] ELSE ValidName(pat, ns)
       IN /\ n # NoName
          /\ names' = [names EXCEPT ![d] = n]
          /\ torn' = (torn \/ (n # names[d] /\ reading = d))
          /\ lost' = IF n # names[d] /\ d \in linked /\ IsNeigh(d)
                     THEN lost \cup {d} ELSE lost
    /\ task' = [Idle EXCEPT !.pc = "unlist", !.dev = d, !.net = ns]
    /\ UNCHANGED <<net, listed, bucket, sysfs, index, lastIndex, linked, links,
                   reading, copied>>

\* unlist_netdevice; the two notifications follow
Unlisted == /\ task.pc = "unlist"
            /\ listed' = listed \ {task.dev}
            /\ bucket' = [bucket EXCEPT ![task.dev] = NoName]
            /\ task' = [task EXCEPT !.pc = "move"]
            /\ UNCHANGED <<names, net, sysfs, index, lastIndex, linked, links, ops,
                           reading, copied, torn, lost>>

\* The device whose link netdev_adjacent_del_links takes away by the name that a device
\* left wrong now has
Robbed(d) == IF d \in lost /\ d \in linked /\ IsNeigh(d) /\ HasLink(names[d])
             THEN {links[names[d]]} ELSE {}

\* netdev_adjacent_del_links, dev_net_set, the index, netdev_adjacent_add_links,
\* device_rename and list_netdevice
Moved ==
    LET d == task.dev
        taken == ByIndex(index[d], task.net) # {}
        wrong == lost \cup Robbed(d)
                      \cup IF Blocked(DelLinks(links, d), d, task.net) THEN {d} ELSE {}
    IN /\ task.pc = "move"
       /\ net' = [net EXCEPT ![d] = task.net]
       /\ index' = IF taken THEN [index EXCEPT ![d] = NewIndex(task.net)] ELSE index
       /\ lastIndex' = IF taken THEN [lastIndex EXCEPT ![task.net] = NewIndex(task.net)]
                       ELSE lastIndex
       /\ links' = AddLinks(DelLinks(links, d), d, task.net)
       /\ \/ /\ DirFree(names[d], d, task.net)
             /\ sysfs' = [sysfs EXCEPT ![d] = names[d]] /\ lost' = wrong
          \/ UNCHANGED sysfs /\ lost' = wrong \cup {d}      \* WARN_ON(err)
       /\ listed' = listed \cup {d}
       /\ bucket' = [bucket EXCEPT ![d] = names[d]]
       /\ task' = Idle
       /\ UNCHANGED <<names, linked, ops, reading, copied, torn>>

\* unlist_netdevice in rollback_registered; the notifiers have taken the device out of
\* the neighbour's lists before that
Unregister(d) == /\ Begin
                 /\ d \in listed \ linked
                 /\ listed' = listed \ {d}
                 /\ bucket' = [bucket EXCEPT ![d] = NoName]
                 /\ UNCHANGED <<names, net, sysfs, index, lastIndex, linked, links, task,
                                reading, copied, torn, lost>>
-----------------------------------------------------------------------------
\* netdev_get_name: down_read(&devnet_rename_sem), the look-up, strcpy
GetName(d) == /\ ~RenameSem
              /\ reading = NoDev
              /\ d \in listed
              /\ reading' = d /\ copied' = names[d]
              /\ UNCHANGED <<names, net, listed, bucket, sysfs, index, lastIndex, linked,
                             links, task, ops, torn, lost>>

GotName == /\ reading # NoDev
           /\ reading' = NoDev /\ copied' = NoName /\ torn' = FALSE
           /\ UNCHANGED <<names, net, listed, bucket, sysfs, index, lastIndex, linked,
                          links, task, ops, lost>>

Next == \/ \E d \in Dev :
            \/ \E r \in Request : \/ ChangeName(d, r)
                                  \/ \E i \in Preset : Register(d, r, i)
            \/ \E ns \in Ns : \E r \in Request : ChangeNet(d, ns, r)
            \/ Link(d) \/ Unlink(d) \/ Unregister(d) \/ GetName(d)
        \/ Renamed \/ RenameFails \/ Hashed \/ Notified \/ Vetoed
        \/ Unlisted \/ Moved \/ GotName

Spec == Init /\ [][Next]_nameVars
-----------------------------------------------------------------------------
Settled == listed \ ({task.dev} \cup lost)

\* No device has the name of another one in its namespace, or the index, and the index of
\* a device is never 0: whatever was registered, renamed, moved or rolled back before.
\* Only of two devices that are both left wrong the names may be one.
NobodyIsTwice ==
    /\ \A d \in Settled : \A e \in listed \ {d, task.dev} :
           net[d] = net[e] => names[d] # names[e]
    /\ \A d, e \in listed : d # e /\ net[d] = net[e] => index[d] # index[e]
    /\ \A d \in listed : index[d] \in 1 .. MaxIndex

\* The hash table, sysfs and the links of the neighbour have each device under the name it
\* has once its operation is done: a rename that failed or was vetoed included.  Left out is
\* a device that one of these left wrong: a roll back to a format, a move that changed the
\* name or could not rename the directory, or another device's link of its name.
AllPlacesAgree ==
    \A d \in Settled :
        /\ bucket[d] = names[d] /\ sysfs[d] = names[d]
        /\ {n \in DOMAIN links : links[n] = d}
             = IF d \in linked /\ net[d] = Home THEN {names[d]} ELSE {}

\* The name netdev_get_name copies does not change under it.  Of a device that changes
\* its namespace and its name it may: ChangeNet does not take the semaphore.
NameHolds == reading # NoDev /\ ~torn => names[reading] = copied

NamesAreSound == NobodyIsTwice /\ AllPlacesAgree /\ NameHolds
=============================================================================
