------------------------------ MODULE MCParts ------------------------------
(***************************************************************************)
(* Values of the constants of Parts for TLC.                               *)
(***************************************************************************)
EXTENDS Parts, Sequences, SequencesExt

CONSTANTS t1, t2, t3, port1, port2, d1, d2, c1, c2, f1, f2, f3, r1, r2

Threads == {t1, t2, t3}
Ports == {port1, port2}

\* Two addresses; a plain device, one of a VLAN and one with a comma in its name
Addrs == {<<"10", ".", "93", ".", "0", ".", "1">>, <<"74", ".", "125", ".", "0", ".", "0">>}
Devices == {<<"rmnet_data0">>, <<"eth0", ".", "5">>, <<"a", ",", "b">>}

\* A tap for all devices, one for the lower, a protocol, and one bound to the upper
Heads == [ tap |-> <<"all">>, sniff |-> <<"all", "eth0">>, ip |-> <<"base">>,
           bound |-> <<"specific", "bond0">> ]

\* A prefix without number, a format, and a name the format also gives
Requests == {<<"eth">>, <<"eth", "%d">>, <<"eth", "1">>}

\* Two tunnels that lead to each other, one of them to a bridge over a real device, too
LowerOf == [ tun0 |-> {"tun1", "br"}, tun1 |-> {"tun0"}, br |-> {"eth"}, eth |-> {} ]
Offloads == [ tun0 |-> {"gso", "frags", "partial"}, tun1 |-> {"frags"},
              br |-> {"gso", "partial", "frags", "vlan"}, eth |-> {"partial", "vlan", "frags"} ]
OffloadsForVlan == [ tun0 |-> {}, tun1 |-> {}, br |-> {"gso"}, eth |-> {"frags"} ]

\* A bridge over a bond over a device, each with features of its own and some it can change
Announced == [ br |-> {"sg", "hw", "ip", "tso6", "lro"}, bond |-> {"sg", "ip", "tso", "ecn", "lro"},
               eth |-> {"sg", "ip", "ip6", "tso", "tso6", "ecn", "ufo", "lro"} ]
Changeable == [ br |-> {"lro"}, bond |-> {"sg", "ip", "tso", "lro"},
                eth |-> {"sg", "ip", "tso", "ufo", "lro"} ]

\* inetsw_array without TCP, and what modules bring: some with a protocol that is there
Protosw(ty, protocol, permanent, name) ==
    [type |-> ty, protocol |-> protocol, permanent |-> permanent, name |-> name]
BootArray == << Protosw("dgram", 17, TRUE, "udp"), Protosw("dgram", 1, FALSE, "ping"),
                Protosw("raw", 0, FALSE, "raw") >>
Entries == ToSet(BootArray) \cup
           { Protosw("dgram", 17, FALSE, "alt"), Protosw("dgram", 1, FALSE, "myping"),
             Protosw("dgram", 0, FALSE, "any"), Protosw("dgram", 136, TRUE, "udplite"),
             Protosw("raw", 1, FALSE, "icmp") }

\* A namespace with half a pair and a real device, one with a tunnel, and the initial one
DevicesOf == << <<"lo1", "eth", "half1">>, <<"lo2", "tun">>, <<"lo3", "half3">> >>
KindOf == [ lo1 |-> "loopback", lo2 |-> "loopback", lo3 |-> "loopback", eth |-> "real",
            half1 |-> "virtual", half3 |-> "virtual", tun |-> "virtual" ]
PeerOf == [ lo1 |-> "lo1", lo2 |-> "lo2", lo3 |-> "lo3", eth |-> "eth",
            half1 |-> "half3", half3 |-> "half1", tun |-> "tun" ]

NamespacesThatEnd == <<1, 2>>

StackedDevices == DOMAIN LowerOf
BitsDevices == DOMAIN Announced
PacketTypes == DOMAIN Heads
LinkablePairs == {<<"eth", "bond">>, <<"bond", "br">>}
=============================================================================
