------------------------------- MODULE SalePlans -------------------------------
(***************************************************************************)
(* The CIDR arithmetic and the search for something to sell of             *)
(* packages/provisioning/src/sale-plans.ts.  An address is the integer of  *)
(* ip4ToInt; a CIDR is what parseCidr makes of it, its network address and *)
(* its size.  A plan puts a part of a pool on sale as single addresses or  *)
(* as blocks of one size.                                                  *)
(*                                                                         *)
(* Rows come out of the database without an ORDER BY, so "the first plan"  *)
(* is any plan; within a plan the search goes upwards from its network     *)
(* address.  The searches therefore return the set of possible results,    *)
(* empty where the code returns null.                                      *)
(***************************************************************************)
EXTENDS Integers

(* parseCidr computes the size by a shift of 32-bit signed integers: the     *)
(* sizes of /0 and /1 do not fit.                                            *)
SizeOf(prefix, width) ==
  CASE prefix = 0 -> 1
    [] prefix = 1 -> -(2 ^ (width - 1))
    [] OTHER      -> 2 ^ (width - prefix)
ParseCidr(net, prefix, width) == [net |-> net, size |-> SizeOf(prefix, width)]

Addrs(c) == c.net .. (c.net + c.size - 1)

CidrContains(outer, inner) ==
  /\ inner.net >= outer.net
  /\ inner.net + inner.size <= outer.net + outer.size

(* net & (size - 1) = 0, for a size that is a power of two. *)
IsAligned(c) == c.net % c.size = 0

(* Mutation: only the start of the second CIDR is looked at. *)
StartsInside(a, b) == a.net <= b.net /\ b.net < a.net + a.size

CidrsOverlap(a, b) == a.net < b.net + b.size /\ b.net < a.net + a.size

(* Where a pool sells: all of it when it has no plan. *)
Ranges(block, plans, mode, size) ==
  IF plans = {} THEN {block}
  ELSE {p.cidr : p \in {q \in plans : q.mode = mode /\ q.size = size}}

FreeSingles(block, plans, taken) ==
  UNION {LET free == Addrs(r) \ taken
         IN  {a \in free : \A x \in free : a <= x}
         : r \in Ranges(block, plans, "single", 0)}

(* Mutation: only the first address of a block is compared with the others.  *)
BlocksByFirst(block, plans, size, taken) ==
  UNION {{c \in [net : Addrs(r), size : {size}] :
            (c.net - r.net) % size = 0 /\ CidrContains(r, c) /\ c.net \notin taken}
         : r \in Ranges(block, plans, "block", size)}

(* The first run of `size` free addresses that starts at a multiple of       *)
(* `size` from the start of a range.                                         *)
FreeBlocks(block, plans, size, taken) ==
  UNION {LET fits == {c \in [net : Addrs(r), size : {size}] :
                        /\ (c.net - r.net) % size = 0
                        /\ CidrContains(r, c)
                        /\ Addrs(c) \intersect taken = {}}
         IN  {c \in fits : \A d \in fits : c.net <= d.net}
         : r \in Ranges(block, plans, "block", size)}

IsIpSellableAsSingle(a, plans) ==
  plans = {} \/ \E p \in plans : a \in Addrs(p.cidr) /\ p.mode = "single"

================================================================================
