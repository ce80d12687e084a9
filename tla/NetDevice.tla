----------------------------- MODULE NetDevice -----------------------------
(***************************************************************************)
(* The life of a network device in src/dev.c: register_netdevice,          *)
(* unregister_netdevice and what rtnl_unlock does after it                 *)
(* (netdev_run_todo), the references that keep a device in memory, the     *)
(* notifiers that are told what becomes of it, and its links to other      *)
(* devices (Adjacency).                                                    *)
(*                                                                         *)
(* Everything but look-ups runs under RTNL, a mutex: what happens while    *)
(* it is held is split only where a look-up, which runs under RCU, makes a *)
(* difference.  A reference is counted on the CPU that takes it and        *)
(* uncounted on the CPU that drops it; the sum is read one CPU at a time.  *)
(***************************************************************************)
EXTENDS Adjacency, Integers

CONSTANTS
    Mortal,     \* the devices that come and go; the other ones are always registered
    Toggled,    \* the devices that are opened and closed
    Notifiers,  \* notifier blocks: protocols that keep a reference to what they know of
    Readers,    \* those who look devices up: dev_get_by_index, dev_get_by_name, ...
    CPU,
    MaxCount    \* bound: how far the count of one CPU may stray from 0

ASSUME DeviceAssumption == /\ Mortal \subseteq Dev /\ Toggled \subseteq Dev
                           /\ Notifiers \cap Dev = {}
                           /\ IsFiniteSet(Dev) /\ IsFiniteSet(CPU)
                           /\ MaxCount \in Nat

VARIABLES
    rtnl,       \* the holder of RTNL, as a set of at most one device or notifier
    reg,        \* reg[d]: dev->reg_state, without its prefix NETREG_
    pc,         \* pc[d]: where the registration or unregistration of d is
    failing,    \* the devices whose registration was vetoed, until they are allocated anew
    listed,     \* the devices on the lists of list_netdevice
    running,    \* the devices with IFF_UP
    chain,      \* netdev_chain: the notifiers that are called
    known,      \* known[n]: the devices n was told of and not told they went
    open,       \* open[n]: the devices that n was told are up and not told they are down
    pcpu,       \* pcpu[d][c]: dev->pcpu_refcnt
    unread,     \* unread[d]: the CPUs that netdev_refcnt_read has still to read
    sum,        \* sum[d]: its sum so far
    found,      \* <<r, d>>: r has found d, under rcu_read_lock
    grace,      \* the read sections in found that a synchronize_net waits for
    held        \* <<r, d>>: r holds a reference to d

lifeVars == <<reg, pc, failing, listed>>
viewVars == <<running, chain, known, open>>
countVars == <<pcpu, unread, sum>>
readVars == <<found, grace, held>>
vars == <<adjVars, rtnl, lifeVars, viewVars, countVars, readVars>>

Init == /\ AdjInit
        /\ rtnl = {}
        /\ reg = [d \in Mortal |-> "UNINITIALIZED"]
        /\ pc = [d \in Mortal |-> "idle"]
        /\ failing = {}
        /\ listed = Dev \ Mortal
        /\ running = {}
        /\ chain = {}
        /\ known = [n \in Notifiers |-> {}]
        /\ open = [n \in Notifiers |-> {}]
        /\ pcpu = [d \in Mortal |-> [c \in CPU |-> 0]]
        /\ unread = [d \in Mortal |-> {}]
        /\ sum = [d \in Mortal |-> 0]
        /\ found = {}
        /\ grace = {}
        /\ held = {}
-----------------------------------------------------------------------------
\* What the notifiers of the set ns know after d is added to, or removed from, view.
Added(view, ns, d) == [n \in Notifiers |-> IF n \in ns THEN view[n] \cup {d} ELSE view[n]]
Dropped(view, ns, d) == [n \in Notifiers |-> IF n \in ns THEN view[n] \ {d} ELSE view[n]]

Count(d, c, n) == /\ pcpu[d][c] + n \in -MaxCount..MaxCount
                  /\ pcpu' = [pcpu EXCEPT ![d][c] = @ + n]

\* rtnl_lock returns.
RtnlFree == rtnl = {}

\* A look-up under RCU has d: it was on the lists, or in the tables of a notifier.
Sought(d) == \E r \in Readers : <<r, d>> \in found

\* synchronize_net waits for the read sections that have begun; it has returned.
Synchronize(d) == grace' = grace \cup {p \in found : p[2] = d}
Synchronized(d) == \A r \in Readers : <<r, d>> \notin grace

\* References to d that are not those of look-ups: of notifiers, and of adjacent devices.
Detached(d) == /\ Upper(d) \cup Lower(d) = {}
               /\ \A n \in Notifiers : d \notin known[n]

Referenced(d) == \/ Sought(d)
                 \/ \E r \in Readers : <<r, d>> \in held
                 \/ ~Detached(d)

\* dev_close_many: nothing for a device that is not up, else GOING_DOWN and DOWN.
Close(d) == IF d \in running
            THEN /\ running' = running \ {d}
                 /\ open' = Dropped(open, chain, d)
            ELSE UNCHANGED <<running, open>>
-----------------------------------------------------------------------------
\* dev_get_by_index and the like: found under RCU, then held, later put.
Find(r, d) ==
    /\ <<r, d>> \notin found \cup held
    /\ d \in listed \/ \E n \in chain : d \in known[n]
    /\ found' = found \cup {<<r, d>>}
    /\ UNCHANGED <<adjVars, rtnl, lifeVars, viewVars, countVars, grace, held>>

Hold(r, d) ==
    /\ <<r, d>> \in found
    /\ \E c \in CPU : Count(d, c, 1)
    /\ found' = found \ {<<r, d>>}
    /\ grace' = grace \ {<<r, d>>}
    /\ held' = held \cup {<<r, d>>}
    /\ UNCHANGED <<adjVars, rtnl, lifeVars, viewVars, unread, sum>>

\* A device that is already released has no counters: the write goes elsewhere.
Put(r, d) ==
    /\ <<r, d>> \in held
    /\ IF reg[d] = "RELEASED" THEN UNCHANGED pcpu ELSE \E c \in CPU : Count(d, c, -1)
    /\ held' = held \ {<<r, d>>}
    /\ UNCHANGED <<adjVars, rtnl, lifeVars, viewVars, unread, sum, found, grace>>
-----------------------------------------------------------------------------
\* The links of devices that are registered, by the drivers of the upper devices.
Link ==
    /\ RtnlFree
    /\ \E dev, up \in listed : \/ UpperDevLink(dev, up)
                               \/ UpperDevLinkFails(dev, up)
                               \/ UpperDevUnlink(dev, up)
    /\ UNCHANGED <<rtnl, lifeVars, viewVars, countVars, readVars>>

\* dev_open that succeeds.
DevOpen(d) ==
    /\ RtnlFree
    /\ d \in listed \ running
    /\ running' = running \cup {d}
    /\ open' = Added(open, chain, d)
    /\ UNCHANGED <<adjVars, rtnl, lifeVars, chain, known, countVars, readVars>>

DevClose(d) ==
    /\ RtnlFree
    /\ d \in running
    /\ Close(d)
    /\ UNCHANGED <<adjVars, rtnl, lifeVars, chain, known, countVars, readVars>>
-----------------------------------------------------------------------------
\* register_netdevice_notifier: n is called from now on, and told of each device.
RegisterNotifier(n) ==
    /\ RtnlFree
    /\ n \notin chain
    /\ rtnl' = {n}
    /\ chain' = chain \cup {n}
    /\ UNCHANGED <<adjVars, lifeVars, running, known, open, countVars, readVars>>

\* Mutant: the replay leaves out NETDEV_UP.
ReplayedNothing(d) == {}

\* NETDEV_UP is replayed for a device that is up.
ReplayedUp(d) == {d} \cap running

Replay(n, d) ==
    /\ rtnl = {n}
    /\ d \in listed \ known[n]
    /\ known' = Added(known, {n}, d)
    /\ open' = [open EXCEPT ![n] = @ \cup ReplayedUp(d)]
    /\ UNCHANGED <<adjVars, rtnl, lifeVars, running, chain, countVars, readVars>>

ReplayEnds(n) ==
    /\ rtnl = {n}
    /\ listed \subseteq known[n]
    /\ rtnl' = {}
    /\ UNCHANGED <<adjVars, lifeVars, viewVars, countVars, readVars>>

\* The devices ds go, for n alone: GOING_DOWN and DOWN for the ones that are up, then
\* UNREGISTER.
Withdrawn(n, ds) == /\ known' = [known EXCEPT ![n] = @ \ ds]
                    /\ open' = [open EXCEPT ![n] = @ \ (ds \cap running)]
                    /\ chain' = chain \ {n}

\* n vetoes a device: those it was told of before that one are withdrawn, and n is removed.
ReplayVetoed(n) ==
    /\ rtnl = {n}
    /\ ~(listed \subseteq known[n])
    /\ Withdrawn(n, known[n])
    /\ rtnl' = {}
    /\ UNCHANGED <<adjVars, lifeVars, running, countVars, readVars>>

UnregisterNotifier(n) ==
    /\ RtnlFree
    /\ n \in chain
    /\ Withdrawn(n, listed)
    /\ UNCHANGED <<adjVars, rtnl, lifeVars, running, countVars, readVars>>
-----------------------------------------------------------------------------
\* register_netdevice up to list_netdevice: from here on a look-up finds the device.
RegisterNetdevice(d) ==
    /\ RtnlFree
    /\ pc[d] = "idle" /\ reg[d] = "UNINITIALIZED"
    /\ rtnl' = {d}
    /\ reg' = [reg EXCEPT ![d] = "REGISTERED"]
    /\ pc' = [pc EXCEPT ![d] = "registering"]
    /\ listed' = listed \cup {d}
    /\ \E c \in CPU : Count(d, c, 1)
    /\ UNCHANGED <<adjVars, failing, viewVars, unread, sum, readVars>>

\* NETDEV_REGISTER is accepted by all.
RegisterAccepted(d) ==
    /\ pc[d] = "registering"
    /\ known' = Added(known, chain, d)
    /\ rtnl' = {}
    /\ pc' = [pc EXCEPT ![d] = "idle"]
    /\ UNCHANGED <<adjVars, reg, failing, listed, running, chain, open, countVars, readVars>>

\* A notifier vetoes NETDEV_REGISTER: those after it in the chain are not told.
RegisterVetoed(d) ==
    /\ pc[d] = "registering"
    /\ \E told \in SUBSET chain : told # chain /\ known' = Added(known, told, d)
    /\ failing' = failing \cup {d}
    /\ pc' = [pc EXCEPT ![d] = "rollback"]
    /\ UNCHANGED <<adjVars, rtnl, reg, listed, running, chain, open, countVars, readVars>>

\* unregister_netdevice.
UnregisterNetdevice(d) ==
    /\ RtnlFree
    /\ pc[d] = "idle" /\ reg[d] = "REGISTERED"
    /\ rtnl' = {d}
    /\ pc' = [pc EXCEPT ![d] = "rollback"]
    /\ UNCHANGED <<adjVars, reg, failing, listed, viewVars, countVars, readVars>>

\* rollback_registered_many up to its first synchronize_net.
Rollback(d) ==
    /\ pc[d] = "rollback"
    /\ Close(d)
    /\ listed' = listed \ {d}
    /\ reg' = [reg EXCEPT ![d] = "UNREGISTERING"]
    /\ pc' = [pc EXCEPT ![d] = "unlisted"]
    /\ Synchronize(d)
    /\ UNCHANGED <<adjVars, rtnl, failing, chain, known, countVars, found, held>>

\* NETDEV_UNREGISTER: the notifiers drop what they keep of d.
NotifyUnregister(d) ==
    /\ pc[d] = "unlisted"
    /\ Synchronized(d)
    /\ known' = Dropped(known, chain, d)
    /\ pc' = [pc EXCEPT ![d] = "detaching"]
    /\ Synchronize(d)
    /\ UNCHANGED <<adjVars, rtnl, reg, failing, listed, running, chain, open, countVars, found, held>>

\* The drivers of upper devices, called as notifiers, and d's own ndo_uninit unlink d.
Detach(d) ==
    /\ pc[d] = "detaching"
    /\ \E e \in Dev : UpperDevUnlink(d, e) \/ UpperDevUnlink(e, d)
    /\ UNCHANGED <<rtnl, lifeVars, viewVars, countVars, readVars>>

\* Mutant: the second synchronize_net is left out.
SynchronizedBefore(d) == TRUE

\* The second synchronize_net has returned: what was found in a notifier's tables is held.
SynchronizedAgain(d) == Synchronized(d)

\* The end of rollback_registered_many: the reference of the registration is put.  What
\* unregister_netdevice was called for waits for rtnl_unlock; a failed registration is over.
RollbackDone(d) ==
    /\ pc[d] = "detaching"
    /\ \A e \in Dev : d \notin upper[e] /\ e \notin upper[d]
    /\ SynchronizedAgain(d)
    /\ \E c \in CPU : Count(d, c, -1)
    /\ rtnl' = {}
    /\ IF d \in failing
       THEN /\ reg' = [reg EXCEPT ![d] = "UNREGISTERED"]
            /\ pc' = [pc EXCEPT ![d] = "failed"]
       ELSE /\ pc' = [pc EXCEPT ![d] = "todo"]
            /\ UNCHANGED reg
    /\ UNCHANGED <<adjVars, failing, listed, viewVars, unread, sum, readVars>>

\* The caller of a register_netdevice that failed frees the device.
FreeFailed(d) ==
    /\ pc[d] = "failed"
    /\ reg' = [reg EXCEPT ![d] = "RELEASED"]
    /\ pc' = [pc EXCEPT ![d] = "idle"]
    /\ UNCHANGED <<adjVars, rtnl, failing, listed, viewVars, countVars, readVars>>

\* netdev_run_todo, without RTNL: NETDEV_UNREGISTER_FINAL, then the wait for references.
RunTodo(d) ==
    /\ pc[d] = "todo"
    /\ RtnlFree
    /\ reg' = [reg EXCEPT ![d] = "UNREGISTERED"]
    /\ pc' = [pc EXCEPT ![d] = "waiting"]
    /\ unread' = [unread EXCEPT ![d] = CPU]
    /\ sum' = [sum EXCEPT ![d] = 0]
    /\ UNCHANGED <<adjVars, rtnl, failing, listed, viewVars, pcpu, readVars>>

\* netdev_refcnt_read reads the counter of one CPU; the order does not matter here.
RefcntRead(d) ==
    /\ pc[d] = "waiting"
    /\ \E c \in unread[d] : /\ unread' = [unread EXCEPT ![d] = @ \ {c}]
                            /\ sum' = [sum EXCEPT ![d] = @ + pcpu[d][c]]
    /\ UNCHANGED <<adjVars, rtnl, lifeVars, viewVars, pcpu, readVars>>

\* The sum of the counts read, and of the other references, is 0.
NoRefs(d) == sum[d] = 0 /\ Detached(d)

\* Mutant: the sum is not started anew.
StaleSum(d) == sum[d]

\* netdev_refcnt_read starts from 0.
FreshSum(d) == 0

\* netdev_wait_allrefs goes round again; after a second it tells the notifiers again.
WaitAgain(d) ==
    /\ pc[d] = "waiting"
    /\ unread[d] = {} /\ ~NoRefs(d)
    /\ unread' = [unread EXCEPT ![d] = CPU]
    /\ sum' = [sum EXCEPT ![d] = FreshSum(d)]
    /\ UNCHANGED known \/ (RtnlFree /\ known' = Dropped(known, chain, d))
    /\ UNCHANGED <<adjVars, rtnl, lifeVars, running, chain, open, pcpu, readVars>>

\* The destructor, free_netdev, and the last kobject_put.
FreeNetdev(d) ==
    /\ pc[d] = "waiting"
    /\ unread[d] = {} /\ NoRefs(d)
    /\ reg' = [reg EXCEPT ![d] = "RELEASED"]
    /\ pc' = [pc EXCEPT ![d] = "idle"]
    /\ UNCHANGED <<adjVars, rtnl, failing, listed, viewVars, countVars, readVars>>

\* alloc_netdev gives the name d to a new device, once nobody has the old one.
AllocNetdev(d) ==
    /\ reg[d] = "RELEASED"
    /\ ~Referenced(d)
    /\ reg' = [reg EXCEPT ![d] = "UNINITIALIZED"]
    /\ failing' = failing \ {d}
    /\ pcpu' = [pcpu EXCEPT ![d] = [c \in CPU |-> 0]]
    /\ sum' = [sum EXCEPT ![d] = 0]
    /\ UNCHANGED <<adjVars, rtnl, pc, listed, viewVars, unread, readVars>>
-----------------------------------------------------------------------------
\* dev_change_net_namespace: the device is closed and taken off the lists,
MoveBegins(d) ==
    /\ RtnlFree
    /\ pc[d] = "idle" /\ reg[d] = "REGISTERED"
    /\ rtnl' = {d}
    /\ Close(d)
    /\ listed' = listed \ {d}
    /\ pc' = [pc EXCEPT ![d] = "moving"]
    /\ Synchronize(d)
    /\ UNCHANGED <<adjVars, reg, failing, chain, known, countVars, found, held>>

\* gone for the notifiers,
MoveNotifies(d) ==
    /\ pc[d] = "moving"
    /\ Synchronized(d)
    /\ known' = Dropped(known, chain, d)
    /\ pc' = [pc EXCEPT ![d] = "moved"]
    /\ UNCHANGED <<adjVars, rtnl, reg, failing, listed, running, chain, open, countVars, readVars>>

\* and comes back, with its links.  The answers to this NETDEV_REGISTER are not looked at;
\* here nobody vetoes it.
MoveEnds(d) ==
    /\ pc[d] = "moved"
    /\ listed' = listed \cup {d}
    /\ known' = Added(known, chain, d)
    /\ rtnl' = {}
    /\ pc' = [pc EXCEPT ![d] = "idle"]
    /\ UNCHANGED <<adjVars, reg, failing, running, chain, open, countVars, readVars>>
-----------------------------------------------------------------------------
\* The steps of a registration, of an unregistration and of a move, once begun.
Underway(d) ==
    \/ RegisterAccepted(d) \/ RegisterVetoed(d)
    \/ Rollback(d) \/ NotifyUnregister(d) \/ Detach(d) \/ RollbackDone(d)
    \/ FreeFailed(d)
    \/ RunTodo(d) \/ RefcntRead(d) \/ WaitAgain(d) \/ FreeNetdev(d)
    \/ MoveNotifies(d) \/ MoveEnds(d)

Begin(d) == \/ RegisterNetdevice(d) \/ UnregisterNetdevice(d)
            \/ MoveBegins(d) \/ AllocNetdev(d)

ReplayStep(n) == (\E d \in Dev : Replay(n, d)) \/ ReplayEnds(n) \/ ReplayVetoed(n)

Next == \/ Link
        \/ \E d \in Toggled : DevOpen(d) \/ DevClose(d)
        \/ \E n \in Notifiers : RegisterNotifier(n) \/ ReplayStep(n) \/ UnregisterNotifier(n)
        \/ \E d \in Mortal : Begin(d) \/ Underway(d)
        \/ \E r \in Readers, d \in Mortal : Find(r, d) \/ Hold(r, d) \/ Put(r, d)

Spec == Init /\ [][Next]_vars

\* Threads that have begun go on, RTNL is granted to one who waits for it, RCU read
\* sections end, and references are put back.
Fairness == /\ \A d \in Mortal : WF_vars(Underway(d)) /\ SF_vars(RunTodo(d))
            /\ \A n \in Notifiers : WF_vars(ReplayStep(n))
            /\ \A r \in Readers, d \in Mortal : WF_vars(Hold(r, d)) /\ WF_vars(Put(r, d))

FairSpec == Spec /\ Fairness
-----------------------------------------------------------------------------
RegState == {"UNINITIALIZED", "REGISTERED", "UNREGISTERING", "UNREGISTERED", "RELEASED"}

Stage == {"idle", "registering", "rollback", "unlisted", "detaching", "failed", "todo",
          "waiting", "moving", "moved"}

\* The types; and each step of a registration, of an unregistration before its todo, and of
\* a move is under RTNL, as ASSERT_RTNL has it.
TypeOK ==
    /\ AdjTypeOK
    /\ \A d \in Mortal :
          pc[d] \in {"registering", "rollback", "unlisted", "detaching", "moving", "moved"}
              => rtnl = {d}
    /\ rtnl \in SUBSET (Mortal \cup Notifiers) /\ Cardinality(rtnl) <= 1
    /\ reg \in [Mortal -> RegState]
    /\ pc \in [Mortal -> Stage]
    /\ failing \subseteq Mortal
    /\ listed \subseteq Dev
    /\ running \subseteq Toggled
    /\ chain \subseteq Notifiers
    /\ known \in [Notifiers -> SUBSET Dev]
    /\ open \in [Notifiers -> SUBSET Dev]
    /\ pcpu \in [Mortal -> [CPU -> -MaxCount..MaxCount]]
    /\ unread \in [Mortal -> SUBSET CPU]
    /\ sum \in [Mortal -> Int]
    /\ found \subseteq Readers \X Mortal
    /\ grace \subseteq found
    /\ held \subseteq Readers \X Mortal

\* Whatever look-ups, notifiers and other devices hold, a device that unregister_netdevice
\* was called for is freed only when nobody has it any more.
FreedOnlyWhenUnreferenced ==
    TypeOK /\ \A d \in Mortal : reg[d] = "RELEASED" /\ d \notin failing => ~Referenced(d)

\* The same of every device, one whose registration failed included: what is said above
\* netdev_wait_allrefs, "wait until all references are gone".
NeverFreedReferenced == \A d \in Mortal : reg[d] = "RELEASED" => ~Referenced(d)

\* When RTNL is free, a notifier in the chain knows exactly the devices that are listed,
\* and which of them are up; one that has been taken out, or vetoed, keeps nothing.
NotifierViewIsCurrent ==
    rtnl = {} => \A n \in Notifiers :
                    IF n \in chain THEN known[n] = listed /\ open[n] = running
                    ELSE known[n] = {} /\ open[n] = {}

\* A device that is being unregistered is released in the end.
UnregisterCompletes ==
    \A d \in Mortal : reg[d] = "UNREGISTERING" ~> reg[d] = "RELEASED"
=============================================================================
