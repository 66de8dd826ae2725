---------------------------- MODULE AddressPool -----------------------------
(***************************************************************************)
(* The address handout: the panel speaks of a first and a last address, the*)
(* router keeps an offset from the network's own address and a count       *)
(* (openwrt/lan.go, openwrt/lan_write.go).                                 *)
(*                                                                         *)
(* An address is a number; a mask is the number of addresses it leaves, a  *)
(* power of two.                                                           *)
(***************************************************************************)
EXTENDS Integers

CONSTANTS
  Top,     \* the highest address, 2^32 - 1 on a router
  Sizes    \* the masks

ASSUME PoolAssumption == Top \in Nat /\ Sizes \subseteq 1 .. Top + 1

Addresses == 0 .. Top
NoAddress == -1

\* net.ParseCIDR: the network an address with this mask sits in.
Network(a, size) == [base |-> a - (a % size), size |-> size]

Contains(n, a) == n.base <= a /\ a < n.base + n.size

\* addOffset.
AddOffset(base, k) ==
  IF k < 0 \/ base + k > Top THEN NoAddress ELSE base + k

\* poolRange: the ends, or nothing when the pool runs past its network.
PoolRange(n, start, limit) ==
  LET first == AddOffset(n.base, start)
      last  == AddOffset(n.base, start + limit - 1)
  IN  IF /\ first # NoAddress /\ Contains(n, first)
         /\ last # NoAddress /\ Contains(n, last)
        THEN <<first, last>>
        ELSE <<>>

\* Mutant: the count without its last address.
PoolOffsetsShort(n, first, last) ==
  IF Contains(n, first) /\ Contains(n, last) /\ first <= last /\ first # n.base
    THEN <<first - n.base, last - first>>
    ELSE <<>>

\* poolOffsets: the offset and the count, or nothing for a pair it refuses.
PoolOffsets(n, first, last) ==
  IF Contains(n, first) /\ Contains(n, last) /\ first <= last /\ first # n.base
    THEN <<first - n.base, last - first + 1>>
    ELSE <<>>
=============================================================================
