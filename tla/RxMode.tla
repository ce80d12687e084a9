------------------------------- MODULE RxMode -------------------------------
(***************************************************************************)
(* The flags of a device in src/dev.c: IFF_UP, IFF_PROMISC and             *)
(* IFF_ALLMULTI, the counters behind the last two and what brings them     *)
(* into step: dev_open, dev_close, dev_change_flags, dev_set_promiscuity,  *)
(* dev_set_allmulti and __dev_set_rx_mode.                                 *)
(*                                                                         *)
(* Each operation holds the RTNL and is one step.  What a step does to the *)
(* device is a chain of operators on its record, in the order of the code. *)
(* The counters are unsigned ints; they wrap at Width.                     *)
(*                                                                         *)
(* External: the driver's ndo_open and the NETDEV_PRE_UP notifiers, which  *)
(* may refuse; netif_device_detach and netif_device_attach; the list of    *)
(* unicast addresses.  netpoll_poll_disable, which a veto leaves without   *)
(* its netpoll_poll_enable, is left out.                                   *)
(***************************************************************************)
EXTENDS Naturals, FiniteSets

CONSTANTS
    Width,          \* 2^32 in the code
    UnicastFlt,     \* IFF_UNICAST_FLT: the device filters unicast addresses itself
    MaxHolders      \* bound: packet sockets, bridges, ... that hold a count

\* What the values of the constants must satisfy
RxModeAssumption == /\ Width \in Nat /\ Width > 2 /\ UnicastFlt \in BOOLEAN
                    /\ MaxHolders \in Nat

VARIABLES
    nd,         \* the device
    promHeld,   \* callers of dev_set_promiscuity(dev, 1) that were not refused
    multiHeld,  \* callers of dev_set_allmulti(dev, 1) that were not refused
    toldUp,     \* what NETDEV_UP and NETDEV_DOWN have said last
    roof,       \* a counter has touched the roof: one increment was lost
    missed      \* addresses changed while the device was detached

rxVars == <<nd, promHeld, multiHeld, toldUp, roof, missed>>

Init == /\ nd = [up |-> FALSE, start |-> FALSE, present |-> TRUE,
                 promisc |-> FALSE, promiscuity |-> 0,
                 multi |-> FALSE, allmulti |-> 0,
                 gflags |-> {}, uc |-> FALSE, ucPromisc |-> FALSE]
        /\ promHeld = 0 /\ multiHeld = 0 /\ toldUp = FALSE
        /\ roof = FALSE /\ missed = FALSE
-----------------------------------------------------------------------------
Up == 1             \* inc = 1
Down == Width - 1   \* inc = -1, as an unsigned int

Added(count, inc) == (count + inc) % Width

\* __dev_set_promiscuity and the error it returns
SetPromiscuity(d, inc) ==
    LET n == Added(d.promiscuity, inc)
    IN IF n # 0 THEN [d EXCEPT !.promisc = TRUE, !.promiscuity = n]
       ELSE IF inc = Down THEN [d EXCEPT !.promisc = FALSE, !.promiscuity = 0]
       ELSE [d EXCEPT !.promisc = TRUE]
Overflows(count, inc) == inc = Up /\ Added(count, inc) = 0

\* __dev_set_allmulti without its calls
SetAllmultiCount(d, inc) ==
    LET n == Added(d.allmulti, inc)
    IN IF n # 0 THEN [d EXCEPT !.multi = TRUE, !.allmulti = n]
       ELSE IF inc = Down THEN [d EXCEPT !.multi = FALSE, !.allmulti = 0]
       ELSE [d EXCEPT !.multi = TRUE]

\* Mutant: the count of the addresses is not given back.
SetRxModeKeeps(d) ==
    IF ~d.up \/ ~d.present \/ UnicastFlt THEN d
    ELSE IF d.uc /\ ~d.ucPromisc THEN [SetPromiscuity(d, Up) EXCEPT !.ucPromisc = TRUE]
    ELSE IF ~d.uc /\ d.ucPromisc THEN [d EXCEPT !.ucPromisc = FALSE]
    ELSE d

\* __dev_set_rx_mode
SetRxMode(d) ==
    IF ~d.up \/ ~d.present \/ UnicastFlt THEN d
    ELSE IF d.uc /\ ~d.ucPromisc THEN [SetPromiscuity(d, Up) EXCEPT !.ucPromisc = TRUE]
    ELSE IF ~d.uc /\ d.ucPromisc THEN [SetPromiscuity(d, Down) EXCEPT !.ucPromisc = FALSE]
    ELSE d

\* __dev_set_rx_mode loses an increment
RxModeOverflows(d) ==
    /\ d.up /\ d.present /\ ~UnicastFlt /\ d.uc /\ ~d.ucPromisc
    /\ Overflows(d.promiscuity, Up)

\* dev_set_allmulti
SetAllmulti(d, inc) ==
    LET c == SetAllmultiCount(d, inc)
    IN IF c.multi # d.multi THEN SetRxMode(c) ELSE c

\* __dev_open: refused by a notifier, ndo_validate_addr or ndo_open, it changes nothing
Opened(d, refused) ==
    IF refused THEN d ELSE SetRxMode([d EXCEPT !.start = TRUE, !.up = TRUE])

\* __dev_close_many, which cannot fail
Closed(d) == [d EXCEPT !.start = FALSE, !.up = FALSE]

\* The halves of __dev_change_flags for IFF_PROMISC and for IFF_ALLMULTI
Toggled(d, flag) == [d EXCEPT !.gflags = (@ \ {flag}) \cup ({flag} \ @)]

ChangePromisc(d, flags) ==
    LET inc == IF "promisc" \in flags THEN Up ELSE Down
        t == Toggled(d, "promisc")
        p == SetPromiscuity(t, inc)
    IN IF ("promisc" \in flags) = ("promisc" \in d.gflags) THEN d
       ELSE IF ~Overflows(d.promiscuity, inc) /\ p.promisc # d.promisc THEN SetRxMode(p)
       ELSE p

ChangeAllmulti(d, flags) ==
    IF ("multi" \in flags) = ("multi" \in d.gflags) THEN d
    ELSE SetAllmulti(Toggled(d, "multi"), IF "multi" \in flags THEN Up ELSE Down)
-----------------------------------------------------------------------------
\* dev_open; refused by ndo_open or by a NETDEV_PRE_UP notifier
DevOpen(refused) ==
    /\ ~nd.up /\ nd.present
    /\ nd' = Opened(nd, refused)
    /\ toldUp' = (IF refused THEN toldUp ELSE TRUE)
    /\ roof' = (roof \/ (~refused /\ RxModeOverflows([nd EXCEPT !.up = TRUE])))
    /\ missed' = IF refused THEN missed ELSE FALSE
    /\ UNCHANGED <<promHeld, multiHeld>>

\* dev_close
DevClose == /\ nd.up
            /\ nd' = Closed(nd)
            /\ toldUp' = FALSE
            /\ UNCHANGED <<promHeld, multiHeld, roof, missed>>

\* dev_change_flags: the flags a user asks for.  IFF_UP is handled first, and a device
\* that does not open still gets the rest, but no notification.
ChangeFlags(flags, refused) ==
    LET toggles == nd.up # ("up" \in flags)
        opens == toggles /\ ~nd.up
        failed == opens /\ (refused \/ ~nd.present)
        first == SetRxMode(nd)
        moved == IF ~toggles \/ failed THEN first
                 ELSE IF opens THEN Opened(first, FALSE) ELSE Closed(first)
        prom == ChangePromisc(moved, flags)
    IN /\ nd' = ChangeAllmulti(prom, flags)
       /\ toldUp' = IF failed THEN toldUp ELSE nd'.up
       /\ roof' = (\/ roof
                   \/ RxModeOverflows(nd)
                   \/ /\ ~failed
                      /\ RxModeOverflows([first EXCEPT !.up = "up" \in flags])
                   \/ /\ "promisc" \in flags \ nd.gflags
                      /\ Overflows(moved.promiscuity, Up)
                   \/ /\ "multi" \in flags \ nd.gflags
                      /\ Overflows(prom.allmulti, Up))
       /\ missed' = IF nd'.up /\ nd'.present THEN FALSE ELSE missed
       /\ UNCHANGED <<promHeld, multiHeld>>

\* dev_set_promiscuity, of a holder that comes or goes
HoldPromisc == /\ promHeld < MaxHolders
               /\ LET p == SetPromiscuity(nd, Up) IN
                  IF Overflows(nd.promiscuity, Up)
                  THEN nd' = p /\ UNCHANGED <<promHeld, roof>>
                  ELSE /\ nd' = IF p.promisc # nd.promisc THEN SetRxMode(p) ELSE p
                       /\ promHeld' = promHeld + 1
                       /\ roof' = (roof \/ (p.promisc # nd.promisc /\ RxModeOverflows(p)))
               /\ UNCHANGED <<multiHeld, toldUp, missed>>

DropPromisc == /\ promHeld > 0
               /\ LET p == SetPromiscuity(nd, Down) IN
                  nd' = IF p.promisc # nd.promisc THEN SetRxMode(p) ELSE p
               /\ promHeld' = promHeld - 1
               /\ UNCHANGED <<multiHeld, toldUp, roof, missed>>

HoldAllmulti == /\ multiHeld < MaxHolders
                /\ nd' = IF Overflows(nd.allmulti, Up) THEN SetAllmultiCount(nd, Up)
                         ELSE SetAllmulti(nd, Up)
                /\ multiHeld' = IF Overflows(nd.allmulti, Up) THEN multiHeld
                                ELSE multiHeld + 1
                /\ roof' = (roof \/ RxModeOverflows(nd))
                /\ UNCHANGED <<promHeld, toldUp, missed>>

DropAllmulti == /\ multiHeld > 0
                /\ nd' = SetAllmulti(nd, Down)
                /\ multiHeld' = multiHeld - 1
                /\ roof' = (roof \/ RxModeOverflows(nd))
                /\ UNCHANGED <<promHeld, toldUp, missed>>

\* dev_uc_add and dev_uc_del, which call __dev_set_rx_mode
ChangeAddresses ==
    LET d == [nd EXCEPT !.uc = ~@]
    IN /\ nd' = SetRxMode(d)
       /\ roof' = (roof \/ RxModeOverflows(d))
       /\ missed' = (missed \/ (d.up /\ ~d.present))
       /\ UNCHANGED <<promHeld, multiHeld, toldUp>>

\* netif_device_detach and netif_device_attach: no __dev_set_rx_mode
DetachAttach == /\ nd' = [nd EXCEPT !.present = ~@]
                /\ UNCHANGED <<promHeld, multiHeld, toldUp, roof, missed>>

Next == \/ \E refused \in BOOLEAN : DevOpen(refused)
        \/ \E flags \in SUBSET {"up", "promisc", "multi"}, refused \in BOOLEAN :
               ChangeFlags(flags, refused)
        \/ DevClose \/ HoldPromisc \/ DropPromisc \/ HoldAllmulti
        \/ DropAllmulti \/ ChangeAddresses \/ DetachAttach

Spec == Init /\ [][Next]_rxVars
-----------------------------------------------------------------------------
Bit(b) == IF b THEN 1 ELSE 0

\* The device is promiscuous, or takes all multicast, exactly as long as somebody wants
\* it to: a holder, the user, or an address the hardware cannot filter.  A counter that
\* has wrapped tells one too few: dev_change_flags and __dev_set_rx_mode take note of a
\* wish that the roof refused.
CountsAreHolders ==
    ~roof => /\ nd.promiscuity = (promHeld + Bit("promisc" \in nd.gflags)
                                  + Bit(nd.ucPromisc)) % Width
             /\ nd.allmulti = (multiHeld + Bit("multi" \in nd.gflags)) % Width
             /\ nd.promisc <=> nd.promiscuity > 0
             /\ nd.multi <=> nd.allmulti > 0

\* A device that is up is promiscuous for its addresses, unless they changed while it
\* was detached; and IFF_UP, __LINK_STATE_START and what the notifiers know agree,
\* whichever way the device was opened, closed or refused.
StateIsKnown == /\ nd.up /\ ~missed => nd.ucPromisc = (nd.uc /\ ~UnicastFlt)
                /\ nd.up = toldUp /\ nd.up = nd.start

RxModeIsRight == CountsAreHolders /\ StateIsKnown
=============================================================================
