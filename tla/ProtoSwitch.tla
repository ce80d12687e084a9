---------------------------- MODULE ProtoSwitch ----------------------------
(***************************************************************************)
(* How src/af_inet.c knows its protocols: the lists of inetsw              *)
(* (inet_register_protosw, inet_unregister_protosw), the look-up with its  *)
(* two attempts to load a module in inet_create.                           *)
(*                                                                         *)
(* A register or unregister holds inetsw_lock and is one step, as is one   *)
(* walk of a list under RCU; modules come and go in between.               *)
(*                                                                         *)
(* External: request_module, which registers something or nothing.         *)
(***************************************************************************)
EXTENDS Naturals, Sequences, FiniteSets, SeqOps

CONSTANTS
    Entry,          \* struct inet_protosw: [type, protocol, permanent, name]
    Boot,           \* inetsw_array
    NoEntry,
    Type, Protocol, \* sock->type; protocols, 0 being IPPROTO_IP, the wild card
    MaxLoads        \* bound: registrations

\* What the values of the constants must satisfy: inetsw_array has a protocol of a type once
ProtoSwitchAssumption ==
    /\ Boot \in Seq(Entry) /\ NoEntry \notin Entry /\ 0 \in Protocol
    /\ \A i, j \in 1 .. Len(Boot) :
           i # j /\ Boot[i].type = Boot[j].type => Boot[i].protocol # Boot[j].protocol
    /\ \A e \in Entry : e.type \in Type /\ e.protocol \in Protocol /\ e.permanent \in BOOLEAN
    /\ MaxLoads \in Nat

VARIABLES
    inetsw,     \* inetsw[type]: the list
    since,      \* history: the entries that are registered, in the order of that
    loads,
    create      \* a call of inet_create: [pc, type, protocol, tries, answer]

protoVars == <<inetsw, since, loads, create>>

\* The list once p is in it: behind the last of the permanent entries at the front,
\* unless one of them has the protocol
LastPermanent(list) ==
    LET front == {n \in 0 .. Len(list) : \A i \in 1 .. n : list[i].permanent}
    IN CHOOSE n \in front : \A m \in front : m <= n
Refused(list, p) == \E i \in 1 .. LastPermanent(list) : list[i].protocol = p.protocol

\* Mutant: a new entry comes first.
RegisteredFirst(list, p) == IF Refused(list, p) THEN list ELSE <<p>> \o list

Registered(list, p) ==
    IF Refused(list, p) THEN list ELSE InsertAt(list, LastPermanent(list) + 1, p)

\* inet_init: the array, one entry after the other
Init == /\ inetsw = [t \in Type |->
                       FoldLeft(LAMBDA l, p : IF p.type = t THEN Registered(l, p) ELSE l,
                                <<>>, Boot)]
        /\ since = Boot /\ loads = 0
        /\ create = [pc |-> "none", type |-> CHOOSE t \in Type : TRUE, protocol |-> 0,
                     tries |-> 0, answer |-> NoEntry]
-----------------------------------------------------------------------------
\* inet_register_protosw.  Who is refused is not told.
Register(p) == /\ loads < MaxLoads /\ loads' = loads + 1
               /\ ~Contains(since, p)
               /\ inetsw' = [inetsw EXCEPT ![p.type] = Registered(@, p)]
               /\ since' = IF Refused(inetsw[p.type], p) THEN since ELSE Append(since, p)
               /\ UNCHANGED create

\* inet_unregister_protosw, of an entry that is in the list
Unregister(p) == /\ ~p.permanent
                 /\ Contains(since, p)
                 /\ inetsw' = [inetsw EXCEPT ![p.type] = Remove(@, p)]
                 /\ since' = Remove(since, p)
                 /\ UNCHANGED <<loads, create>>

\* The walk of inet_create: the first entry that has the protocol, or is or is asked by
\* the wild card; not both.
Matches(e, protocol) == IF protocol = e.protocol THEN protocol # 0
                        ELSE protocol = 0 \/ e.protocol = 0
Found(list, protocol) ==
    LET at == {i \in 1 .. Len(list) : Matches(list[i], protocol)}
    IN IF at = {} THEN NoEntry
       ELSE list[CHOOSE i \in at : \A j \in at : i <= j]

Create(t, protocol) == /\ create.pc = "none"
                       /\ create' = [create EXCEPT !.pc = "look", !.type = t,
                                                   !.protocol = protocol]
                       /\ UNCHANGED <<inetsw, since, loads>>

\* lookup_protocol; without an answer a module is asked for twice
LookUp == LET e == Found(inetsw[create.type], create.protocol) IN
          /\ create.pc = "look"
          /\ create' = IF e # NoEntry THEN [create EXCEPT !.pc = "end", !.answer = e]
                       ELSE IF create.tries < 2 THEN [create EXCEPT !.pc = "load",
                                                                    !.tries = @ + 1]
                       ELSE [create EXCEPT !.pc = "end"]
          /\ UNCHANGED <<inetsw, since, loads>>

\* request_module has returned; Register may have happened meanwhile
Loaded == /\ create.pc = "load"
          /\ create' = [create EXCEPT !.pc = "look"]
          /\ UNCHANGED <<inetsw, since, loads>>

Created == /\ create.pc = "end"
           /\ create' = [create EXCEPT !.pc = "none", !.tries = 0, !.answer = NoEntry]
           /\ UNCHANGED <<inetsw, since, loads>>
Next == \/ \E p \in Entry : Register(p) \/ Unregister(p)
        \/ \E t \in Type, protocol \in Protocol : Create(t, protocol)
        \/ LookUp \/ Loaded \/ Created

Spec == Init /\ [][Next]_protoVars
-----------------------------------------------------------------------------
Newest(es) == IF es = {} THEN NoEntry
              ELSE CHOOSE e \in es : \A f \in es :
                       IndexOf(since, f) <= IndexOf(since, e)
Oldest(es) == IF es = {} THEN NoEntry
              ELSE CHOOSE e \in es : \A f \in es :
                       IndexOf(since, e) <= IndexOf(since, f)

\* A permanent entry serves its protocol, and the wild card before others, whatever is
\* registered; otherwise what was registered last does, and once that is gone again,
\* whatever came before it.
ProtocolsAreSound ==
    \A t \in Type, protocol \in Protocol :
        LET es == {e \in ToSet(since) : e.type = t /\ Matches(e, protocol)}
            perm == {e \in es : e.permanent}
        IN Found(inetsw[t], protocol)
             = IF perm # {} THEN Oldest(perm) ELSE Newest(es)
=============================================================================
