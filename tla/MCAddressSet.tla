---------------------------- MODULE MCAddressSet ----------------------------
(* Address sets and group functions for AddressSet, and the refinement   *)
(* of MulticastGroups.                                                      *)
EXTENDS AddressSet

\* Groups of distinct addresses are distinct (IPv4: the broadcast group
\* with the address as ADI).
MCGroupDistinct(a) == a

\* IPv6 addresses 1, 2, 3 share the low 24 bits, so their solicited-node
\* groups coincide; 4 has a greater group of its own.
MCGroupShared(a) == IF a = 4 THEN 2 ELSE 1
\* (In AddressSet_scan, 4 is the IPv4 address, with a group of its own.)

MCV4Both == {1, 2}

\* The refinement mapping: the sets behind the vectors.
Abs == INSTANCE MulticastGroups WITH
         addrs <- ToSet(ips), groups <- ToSet(mcast),
         joined <- ToSet(added), left <- ToSet(removed)

\* scanMulticastGroups implements the abstract scan: subscriptions are the
\* groups of the addresses, and the reports are exactly the differences.
ScanRefinesGroups == Abs!Spec

=============================================================================
