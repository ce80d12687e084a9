------------------------------ MODULE NetExit ------------------------------
(***************************************************************************)
(* The end of network namespaces in src/dev.c: default_device_exit,        *)
(* rtnl_lock_unregistering and default_device_exit_batch, against tasks    *)
(* that have unregistered devices of these namespaces and are still inside *)
(* netdev_run_todo.                                                        *)
(*                                                                         *)
(* What is done with the RTNL held is one step.  The namespaces that end   *)
(* are in net_list, in order; nobody else can reach their devices any more,*)
(* but a device of another namespace may be the peer of one of theirs, and *)
(* goes with it.                                                           *)
(*                                                                         *)
(* External: the kinds of devices and the dellink of a pair (veth); the    *)
(* holders of references, which on NETDEV_UNREGISTER_FINAL turn to the     *)
(* loopback device of the namespace (dst_ifdown); cleanup_net, which calls *)
(* the exit functions and then frees the namespaces.                       *)
(***************************************************************************)
EXTENDS Naturals, Sequences, FiniteSets, SeqOps

CONSTANTS
    Task,           \* tasks that unregister a device each
    Worker,         \* the one in cleanup_net
    Home,           \* init_net
    Ending,         \* the namespaces of net_list, in order
    Begin,          \* Begin[ns]: its devices, in order of registration
    Kind,           \* Kind[d]: "loopback", "real" or "virtual" (has rtnl_link_ops)
    Peer            \* Peer[d]: the other end of a pair, or d

Net == DOMAIN Begin
Dev == DOMAIN Kind
Actor == Task \cup {Worker}

\* What the values of the constants must satisfy: a device begins in one namespace, each
\* of which begins with its loopback; that has no peer, and net_list a namespace once
NetExitAssumption ==
    /\ Worker \notin Task /\ Home \notin ToSet(Ending) /\ {Home} \cup ToSet(Ending) \subseteq Net
    /\ Ending # <<>> /\ Ending \in Seq(Net)
    /\ \A i, j \in 1 .. Len(Ending) : i # j => Ending[i] # Ending[j]
    /\ IsFiniteSet(Dev)
    /\ \A n \in Net : /\ Begin[n] \in Seq(Dev) /\ Begin[n] # <<>>
                      /\ \A i \in 1 .. Len(Begin[n]) : Kind[Begin[n][i]] = "loopback" <=> i = 1
    /\ \A d \in Dev : \E n \in Net : \E i \in 1 .. Len(Begin[n]) : Begin[n][i] = d
    /\ \A m, n \in Net : \A i \in 1 .. Len(Begin[m]), j \in 1 .. Len(Begin[n]) :
           Begin[m][i] = Begin[n][j] => m = n /\ i = j
    /\ \A d \in Dev : /\ Peer[d] \in Dev /\ Peer[Peer[d]] = d
                      /\ Kind[d] = "loopback" => Peer[d] = d

VARIABLES
    baseHead,   \* net->dev_base_head of each namespace
    netOf,      \* dev_net(dev)
    phase,      \* how far each device has come
    refs,       \* its references
    unregCount, \* net->dev_unreg_count
    todo,       \* the local list of netdev_run_todo of each actor
    pc,         \* where each actor is
    turn,       \* the namespace of net_list whose exit function is next
    enqueued,   \* the worker is in netdev_unregistering_wq
    woken,      \* WQ_FLAG_WOKEN of its entry
    released    \* namespaces that are freed

devVars == <<baseHead, netOf, phase, refs, unregCount>>
workerVars == <<turn, enqueued, woken, released>>
exitVars == <<devVars, todo, pc, workerVars>>

Init == /\ baseHead = Begin
        /\ netOf = [d \in Dev |-> CHOOSE n \in Net : d \in ToSet(Begin[n])]
        /\ phase = [d \in Dev |-> "registered"]
        /\ refs = [d \in Dev |-> IF Kind[d] = "loopback" THEN 0 ELSE 1]
        /\ unregCount = [n \in Net |-> 0]
        /\ todo = [a \in Actor |-> <<>>]
        /\ pc = [a \in Actor |-> "start"] /\ turn = 1
        /\ enqueued = FALSE /\ woken = FALSE /\ released = {}
-----------------------------------------------------------------------------
MovedToTail(q, d) == Append(Remove(q, d), d)

\* What unregister_netdevice_queue, or the dellink of a pair, puts on the list: the first
\* end that goes takes the other with it.
Queued(q, d) == IF Peer[d] = d \/ Peer[d] \in ToSet(q) THEN MovedToTail(q, d)
                ELSE MovedToTail(MovedToTail(q, d), Peer[d])

\* unregister_netdevice_many and the snapshot of netdev_run_todo: the devices leave the
\* lists, each counts for its namespace.
Unregister(a, q) ==
    /\ baseHead' = [n \in Net |-> Only(baseHead[n], Dev \ ToSet(q))]
    /\ phase' = [d \in Dev |-> IF d \in ToSet(q) THEN "unregistering" ELSE phase[d]]
    /\ unregCount' = [n \in Net |-> unregCount[n] + Cardinality({d \in ToSet(q) : netOf[d] = n})]
    /\ todo' = [todo EXCEPT ![a] = q]
    /\ pc' = [pc EXCEPT ![a] = "todo"]

\* A task unregisters a device; once the worker has begun, not one of a namespace it ends.
Delete(t, d) ==
    /\ pc[t] = "start" /\ phase[d] = "registered" /\ Kind[d] # "loopback"
    /\ pc[Worker] # "start" => netOf[d] \notin ToSet(Ending)
    /\ Unregister(t, Queued(<<>>, d))
    /\ UNCHANGED <<netOf, refs, workerVars>>

\* cleanup_net begins: the namespaces can no longer be reached.
CleanupBegins == /\ pc[Worker] = "start"
                 /\ pc' = [pc EXCEPT ![Worker] = "exit"]
                 /\ UNCHANGED <<devVars, todo, workerVars>>

\* The references of those of ds that are in the namespace
RefsIn(ds, n) == FoldLeft(LAMBDA sum, e : IF Kind[e] # "loopback" /\ netOf[e] = n
                                          THEN sum + refs[e] ELSE sum, 0, ds)

\* NETDEV_UNREGISTER_FINAL for the devices ds: who holds one turns to the loopback device
\* of its namespace.
TurnToLoopback(ds) ==
    refs' = [d \in Dev |-> IF Kind[d] = "loopback" THEN refs[d] + RefsIn(ds, netOf[d])
                          ELSE IF d \in ToSet(ds) THEN 0 ELSE refs[d]]

\* default_device_exit for one namespace: what can be moved goes to init_net.
DefaultDeviceExit ==
    /\ pc[Worker] = "exit"
    /\ LET n == Ending[turn]
           real == {d \in Dev : Kind[d] = "real"}
           pushed == Only(baseHead[n], real)
       IN  /\ baseHead' = [baseHead EXCEPT ![n] = Only(@, Dev \ real), ![Home] = @ \o pushed]
           /\ netOf' = [d \in Dev |-> IF d \in ToSet(pushed) THEN Home ELSE netOf[d]]
           /\ TurnToLoopback(pushed)
    /\ turn' = turn + 1
    /\ pc' = [pc EXCEPT ![Worker] = IF turn = Len(Ending) THEN "enqueue" ELSE @]
    /\ UNCHANGED <<phase, unregCount, todo, enqueued, woken, released>>

\* rtnl_lock_unregistering: add_wait_queue
Enqueue == /\ pc[Worker] = "enqueue"
           /\ enqueued' = TRUE
           /\ pc' = [pc EXCEPT ![Worker] = "look"]
           /\ UNCHANGED <<devVars, turn, todo, woken, released>>

\* Mutant: the worker does not look at them.
UnregisteringOrNot == FALSE

\* Devices of the namespaces are still on their way out.
Unregistering == \E n \in ToSet(Ending) : unregCount[n] > 0

MustWait == /\ pc[Worker] = "look" /\ Unregistering
            /\ pc' = [pc EXCEPT ![Worker] = "wait"]
            /\ UNCHANGED <<devVars, todo, workerVars>>

\* wait_woken, which does not sleep if it was woken before
WaitWoken == /\ pc[Worker] = "wait" /\ woken
             /\ woken' = FALSE
             /\ pc' = [pc EXCEPT ![Worker] = "look"]
             /\ UNCHANGED <<devVars, turn, todo, enqueued, released>>

\* Mutant: in the order of registration.
KillListForward == FoldLeft(LAMBDA q, n : FoldLeft(Queued, q, baseHead[n]), <<>>, Ending)

\* dev_kill_list of default_device_exit_batch: the last registered goes first.
KillList == FoldLeft(LAMBDA q, n : FoldLeft(Queued, q, Reverse(baseHead[n])), <<>>, Ending)

DefaultDeviceExitBatch ==
    /\ pc[Worker] = "look" /\ ~Unregistering
    /\ enqueued' = FALSE
    /\ Unregister(Worker, KillList)
    /\ UNCHANGED <<turn, netOf, refs, woken, released>>
-----------------------------------------------------------------------------
(* netdev_run_todo, without the RTNL but where it says so.                 *)

\* The last notification, with the RTNL
Final(a) ==
    /\ pc[a] = "todo" /\ todo[a] # <<>>
    /\ TurnToLoopback(<<Head(todo[a])>>)
    /\ phase' = [phase EXCEPT ![Head(todo[a])] = "unregistered"]
    /\ pc' = [pc EXCEPT ![a] = "refs"]
    /\ UNCHANGED <<baseHead, netOf, unregCount, todo, workerVars>>

\* netdev_wait_allrefs returns; the destructor
AllRefsGone(a) ==
    /\ pc[a] = "refs" /\ refs[Head(todo[a])] = 0
    /\ phase' = [phase EXCEPT ![Head(todo[a])] = "destructed"]
    /\ pc' = [pc EXCEPT ![a] = "report"]
    /\ UNCHANGED <<baseHead, netOf, refs, unregCount, todo, workerVars>>

\* Mutant: the report wakes nobody.
ReportSilently(a) ==
    /\ pc[a] = "report"
    /\ phase' = [phase EXCEPT ![Head(todo[a])] = "reported"]
    /\ unregCount' = [unregCount EXCEPT ![netOf[Head(todo[a])]] = @ - 1]
    /\ pc' = [pc EXCEPT ![a] = "put"]
    /\ UNCHANGED <<baseHead, netOf, refs, todo, workerVars>>

\* dev_net(dev)->dev_unreg_count--, with the RTNL
Report(a) ==
    /\ pc[a] = "report"
    /\ phase' = [phase EXCEPT ![Head(todo[a])] = "reported"]
    /\ unregCount' = [unregCount EXCEPT ![netOf[Head(todo[a])]] = @ - 1]
    /\ pc' = [pc EXCEPT ![a] = "wake"]
    /\ UNCHANGED <<baseHead, netOf, refs, todo, workerVars>>

\* wake_up(&netdev_unregistering_wq)
WakeUp(a) ==
    /\ pc[a] = "wake"
    /\ woken' = (woken \/ enqueued)
    /\ pc' = [pc EXCEPT ![a] = "put"]
    /\ UNCHANGED <<devVars, turn, todo, enqueued, released>>

\* kobject_put, and the next one
Put(a) ==
    /\ pc[a] = "put"
    /\ phase' = [phase EXCEPT ![Head(todo[a])] = "freed"]
    /\ todo' = [todo EXCEPT ![a] = Tail(@)]
    /\ pc' = [pc EXCEPT ![a] = "todo"]
    /\ UNCHANGED <<baseHead, netOf, refs, unregCount, workerVars>>

\* cleanup_net frees the namespaces when rtnl_unlock has returned.
Release == /\ pc[Worker] = "todo" /\ todo[Worker] = <<>>
           /\ released' = ToSet(Ending)
           /\ pc' = [pc EXCEPT ![Worker] = "done"]
           /\ UNCHANGED <<devVars, turn, todo, enqueued, woken>>

\* A holder lets go.
DropRef(d) == /\ refs[d] > 0
              /\ refs' = [refs EXCEPT ![d] = @ - 1]
              /\ UNCHANGED <<baseHead, netOf, phase, unregCount, todo, pc, workerVars>>

Next == \/ \E t \in Task, d \in Dev : Delete(t, d)
        \/ CleanupBegins \/ DefaultDeviceExit \/ Enqueue \/ MustWait \/ WaitWoken
        \/ DefaultDeviceExitBatch \/ Release
        \/ \E a \in Actor : Final(a) \/ AllRefsGone(a) \/ Report(a) \/ WakeUp(a) \/ Put(a)
        \/ \E d \in Dev : DropRef(d)
-----------------------------------------------------------------------------
Phase == {"registered", "unregistering", "unregistered", "destructed", "reported", "freed"}

TypeOK == /\ netOf \in [Dev -> Net] /\ phase \in [Dev -> Phase] /\ refs \in [Dev -> Nat]
          /\ unregCount \in [Net -> Nat] /\ {enqueued, woken} \subseteq BOOLEAN
          /\ released \subseteq ToSet(Ending)

\* dev_unreg_count counts the devices between net_set_todo and their report
\* (src/dev.c:6376, 7136).
CountsUnreported ==
    \A n \in Net : unregCount[n] =
        Cardinality({d \in Dev : netOf[d] = n /\
                                 phase[d] \in {"unregistering", "unregistered", "destructed"}})

\* The loopback device of a namespace outlives whoever may still turn to it: no device
\* gets a reference back once netdev_wait_allrefs has seen it without one, and none of a
\* namespace is before its last notification by then ("To prevent network device cleanup
\* code from dereferencing loopback devices", src/dev.c:7897).
LoopbackOutlives ==
    \A d \in Dev : phase[d] \in {"destructed", "reported", "freed"} =>
        /\ refs[d] = 0
        /\ Kind[d] = "loopback" =>
               \A e \in Dev : netOf[e] = netOf[d] => phase[e] \notin {"registered", "unregistering"}

\* A namespace is freed when each of its devices has made its report; none is left in it.
NamespaceOutlives ==
    \A n \in released : \A d \in Dev : netOf[d] = n => phase[d] \in {"reported", "freed"}

\* The worker does not sleep for ever: if nobody is on the way to wake it, a device that
\* is yet to be reported will.
NoLostWakeUp == pc[Worker] = "wait" /\ ~woken =>
                    Unregistering \/ \E t \in Task : pc[t] = "wake"

ExitIsSound == TypeOK /\ CountsUnreported /\ LoopbackOutlives /\ NamespaceOutlives /\ NoLostWakeUp
=============================================================================
