---------------------------- MODULE MCNetDevice ----------------------------
(* Model-checking values for NetDevice. *)
EXTENDS NetDevice, TLC

CONSTANTS eth, dummy, bond, bridge, ip, r1, c1, c2

FourDevices == {eth, dummy, bond, bridge}
Eth == {eth}
EthAndDummy == {eth, dummy}
Bond == {bond}
Ip == {ip}
OneReader == {r1}
TwoCpus == {c1, c2}
=============================================================================
