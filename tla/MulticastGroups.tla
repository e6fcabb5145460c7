--------------------------- MODULE MulticastGroups ---------------------------
(***************************************************************************)
(* What scanMulticastGroups promises the ZeroTier node: the tap's multicast *)
(* subscriptions are the groups of its addresses, and each scan reports    *)
(* exactly the groups joined and left since the previous scan.  Addresses  *)
(* are added and removed between scans.                                    *)
(***************************************************************************)
CONSTANTS
  Addr,        \* addresses the tap can be given
  GroupOf(_)   \* MulticastGroup::deriveMulticastGroupForAddressResolution

VARIABLES
  addrs,       \* the tap's addresses
  groups,      \* the groups subscribed at the last scan
  joined,      \* groups the last scan reported as added
  left         \* groups the last scan reported as removed

absVars == <<addrs, groups, joined, left>>

Init ==
  /\ addrs = {}
  /\ groups = {}
  /\ joined = {}
  /\ left = {}

AddAddr(a) ==
  /\ addrs' = addrs \cup {a}
  /\ UNCHANGED <<groups, joined, left>>

RemoveAddr(a) ==
  /\ addrs' = addrs \ {a}
  /\ UNCHANGED <<groups, joined, left>>

Scan ==
  LET now == {GroupOf(a) : a \in addrs} IN
  /\ groups' = now
  /\ joined' = now \ groups
  /\ left' = groups \ now
  /\ UNCHANGED addrs

Next == \/ \E a \in Addr : AddAddr(a) \/ RemoveAddr(a)
        \/ Scan

Spec == Init /\ [][Next]_absVars
=============================================================================
