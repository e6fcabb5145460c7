----------------------------- MODULE AddressSet -----------------------------
(***************************************************************************)
(* The tap's addresses and multicast groups (lwIP build,                    *)
(* src/src/SDK_EthernetTap.cpp): addIp / lwIP_init_interface, removeIp and *)
(* scanMulticastGroups, with the netif list of lwIP that addIp extends.    *)
(* Addresses and groups are numbers, ordered as InetAddress and            *)
(* MulticastGroup order them.  std::sort is SortSeq; std::unique and       *)
(* std::binary_search are translated from the algorithms of the C++       *)
(* library, since scanMulticastGroups leaves unique's tail in place and    *)
(* binary_search then runs on whatever that gives.                         *)
(***************************************************************************)
EXTENDS Naturals, Sequences, SequencesExt, FiniteSets

CONSTANTS
  Addr,        \* addresses the node may assign (positive numbers)
  V4,          \* those that are IPv4; the others are IPv6
  GroupOf(_)   \* MulticastGroup::deriveMulticastGroupForAddressResolution

ASSUME V4 \subseteq Addr /\ Addr \subseteq Nat \ {0}

\* lwIP's two static netifs: interface (IPv4) and interface6.
Netif == {"if4", "if6"}
Null == "NULL"
NetifOf(ip) == IF ip \in V4 THEN "if4" ELSE "if6"

VARIABLES
  ips,         \* _ips
  netifHead,   \* lwIP's netif_list
  netifNext,   \* netif->next
  netifAddr,   \* the address set on each netif (0: none)
  mcast,       \* _multicastGroups
  added,       \* the vectors the last scanMulticastGroups filled
  removed

vars == <<ips, netifHead, netifNext, netifAddr, mcast, added, removed>>

-----------------------------------------------------------------------------
(* The C++ library algorithms scanMulticastGroups calls.                  *)

RECURSIVE Dedup(_)
Dedup(s) == IF Len(s) <= 1 THEN s
            ELSE IF s[1] = s[2] THEN Dedup(Tail(s))
            ELSE <<s[1]>> \o Dedup(Tail(s))

Unique(s) == LET d == Dedup(s) IN
  [i \in 1..Len(s) |-> IF i <= Len(d) THEN d[i] ELSE s[i]]

\* std::lower_bound over s[first .. first+len-1], halving as the library does.
RECURSIVE LowerBound(_, _, _, _)
LowerBound(s, first, len, v) ==
  IF len = 0 THEN first
  ELSE LET half == len \div 2
           middle == first + half
       IN IF s[middle] < v
          THEN LowerBound(s, middle + 1, len - half - 1, v)
          ELSE LowerBound(s, first, half, v)

\* std::binary_search: lower_bound, then !(v < *i).
BinarySearch(s, v) ==
  LET i == LowerBound(s, 1, Len(s), v) IN i <= Len(s) /\ ~(v < s[i])

-----------------------------------------------------------------------------
Init ==
  /\ ips = <<>>
  /\ netifHead = Null
  /\ netifNext = [n \in Netif |-> Null]
  /\ netifAddr = [n \in Netif |-> 0]
  /\ mcast = <<>>
  /\ added = <<>>
  /\ removed = <<>>

\* netif_add links the netif in at the head of netif_list, whether or not
\* it is there already (lwIP only asserts that, in debug builds).
NetifAdd(n, ip) ==
  /\ netifNext' = [netifNext EXCEPT ![n] = netifHead]
  /\ netifHead' = n
  /\ netifAddr' = [netifAddr EXCEPT ![n] = ip]

\* Mutant: the std::find check is dropped and the address pushed anyway.
AddIpNoFind(ip) ==
  /\ ips' = SortSeq(Append(ips, ip), <)
  /\ NetifAdd(NetifOf(ip), ip)
  /\ UNCHANGED <<mcast, added, removed>>

(***************************************************************************)
(* addIp -> lwIP_init_interface, under _ips_m: an address not yet in _ips *)
(* is pushed, _ips sorted, and the static netif of its family given the    *)
(* address and passed to netif_add again.                                  *)
(***************************************************************************)
AddIp(ip) ==
  /\ ip \notin ToSet(ips)
  /\ ips' = SortSeq(Append(ips, ip), <)
  /\ NetifAdd(NetifOf(ip), ip)
  /\ UNCHANGED <<mcast, added, removed>>

\* removeIp, under _ips_m: the address is erased from _ips; the netif keeps
\* it ("TODO: dealloc from LWIP").  An address not in _ips returns false.
RemoveIp(ip) ==
  /\ ip \in ToSet(ips)
  /\ ips' = RemoveFirst(ips, ip)
  /\ UNCHANGED <<netifHead, netifNext, netifAddr, mcast, added, removed>>

\* Mutant: the new groups are reported but never swapped in.
ScanNoSwap ==
  LET newGroups == Unique(SortSeq([i \in 1..Len(ips) |-> GroupOf(ips[i])], <))
  IN /\ added' = SelectSeq(newGroups, LAMBDA g : ~BinarySearch(mcast, g))
     /\ removed' = SelectSeq(mcast, LAMBDA g : ~BinarySearch(newGroups, g))
     /\ UNCHANGED <<ips, netifHead, netifNext, netifAddr, mcast>>

(***************************************************************************)
(* scanMulticastGroups, under _multicastGroups_m: the groups of ips(),    *)
(* sorted, passed through std::unique whose result is ignored; every     *)
(* element of the whole vector not found in _multicastGroups is added,    *)
(* every element of _multicastGroups not found in it removed, and the two *)
(* vectors swapped.                                                       *)
(***************************************************************************)
ScanMulticastGroups ==
  LET newGroups == Unique(SortSeq([i \in 1..Len(ips) |-> GroupOf(ips[i])], <))
  IN /\ added' = SelectSeq(newGroups, LAMBDA g : ~BinarySearch(mcast, g))
     /\ removed' = SelectSeq(mcast, LAMBDA g : ~BinarySearch(newGroups, g))
     /\ mcast' = newGroups
     /\ UNCHANGED <<ips, netifHead, netifNext, netifAddr>>

Next ==
  \/ \E ip \in Addr : AddIp(ip) \/ RemoveIp(ip)
  \/ ScanMulticastGroups

Spec == Init /\ [][Next]_vars

-----------------------------------------------------------------------------
(* Properties.                                                             *)

\* _ips stays strictly increasing: addIp's find-then-sort and removeIp's
\* erase keep it a sorted vector without duplicates.
IpsSortedUnique == IsSorted(ips, <)

\* lwIP's netif_list is a list: following netif->next from netif_list
\* reaches NULL (every loop of lwIP over the netifs, ip_route first,
\* walks it).
RECURSIVE Follow(_, _)
Follow(n, k) == IF k = 0 \/ n = Null THEN n ELSE Follow(netifNext[n], k - 1)
NetifListAcyclic == Follow(netifHead, Cardinality(Netif)) = Null
=============================================================================
