---------------------------- MODULE MCVirtualRing ----------------------------
(* Eight addresses: two share an octet, one has octet 1 and is sorted in   *)
(* front of nobody, and the introducer's octet is in the middle.           *)
EXTENDS VirtualRing, Sequences

MCOctet == [ip \in Ip |-> <<39, 1, 37, 38, 38, 40, 41, 42>>[ip]]
=============================================================================
