---------------------------- MODULE MCIpInventory ----------------------------
(***************************************************************************)
(* A small instance of IpInventory for TLC: a four-bit address space with  *)
(* one pool of two addresses.  Everything at once would be too much, so    *)
(* four scenes share the run: the sale of the pool with the administrator  *)
(* who makes and deletes it, the ticks of the scheduler that overlap, two  *)
(* blocks in a race for the same addresses, and two administrators.        *)
(***************************************************************************)
EXTENDS IpInventory, TLC

CONSTANTS u1, u2, t1, p1, r1, r2, m1, m2, b1, b2

VARIABLE scene

MCAddresses == 0..1
Whole == ParseCidr(0, 3, 4)
Lower == ParseCidr(0, 4, 4)
Upper == ParseCidr(1, 4, 4)
MCPoolCidrs == {Whole}
MCPlanCidrs == {Whole, Lower, Upper}
MCOwner == [t \in Tunnels |-> u1]

Symmetry == Permutations({r1, r2})

MCInit == Init /\ scene \in {"sale", "plans"}

(* The state a new pool and the deletion of its plan lead to, where the      *)
(* tunnel is deleted as well: all of the pool is for sale.                   *)
Selling ==
  /\ scene \in {"ticks", "race"}
  /\ ip = [a \in Addresses |-> NoRow]
  /\ block = [b \in Blocks |-> [status |-> "none", user |-> Nobody, pool |-> NoPool, cidr |-> NoCidr]]
  /\ pool = [p \in Pools |-> [status |-> "live", cidr |-> Whole, available |-> 2, allocated |-> 0]]
  /\ plans = {}
  /\ live = {}
  /\ req = [r \in Requests |-> Idle]
  /\ task = [m \in Admins |-> NoTask]
  /\ listed = {}
  /\ ended = {}
  /\ recounted = {}

UnderWay ==
  Cardinality({r \in Requests : req[r].pc # "idle"}) + (IF task[m1] = NoTask THEN 0 ELSE 1)

(* One block, and its two addresses counted at most n times. *)
OneBlock(n) ==
  /\ \A p \in Pools : pool'[p].allocated <= n /\ pool'[p].available <= 3
  /\ block'[b2].status = "none"

(* Purchases, grants and an administrator, two of them at work at a time.    *)
(* Nothing expires.                                                          *)
Sale ==
  /\ \/ \E r \in Requests : Purchases(r)
     \/ \E u \in Users : Holdings(u)
     \/ \E a \in Addresses : ChargePublicIp(a) \/ SetSaleMode(a)
     \/ \E b \in Blocks \ ended : ChargeIpBlock(b)
     \/ \E t \in Tunnels : ForceCancelTunnel(t)
     \/ Administration(m1)
  /\ OneBlock(2)
  /\ UnderWay' <= 2
  /\ \A q \in task'[m1].plans : q.cidr # Lower

(* Several ticks, which list, charge and cancel the same items, and one      *)
(* purchase at a time.                                                       *)
Ticks ==
  /\ \/ \E r \in Requests : Purchases(r)
     \/ \E u \in Users : Holdings(u)
     \/ Scheduler
  /\ OneBlock(3)
  /\ UnderWay' <= 1

(* Two purchases, of blocks or singles, that find the same addresses free. *)
Race ==
  \/ \E r \in Requests : Purchases(r)
  \/ \E u \in Users : Holdings(u)
  \/ \E a \in Addresses : ChargePublicIp(a)

(* Two administrators who add and delete plans for the pool and its halves. *)
Planning == \E m \in Admins : Administration(m)

MCNext ==
  /\ scene' = scene
  /\ \/ scene = "sale" /\ Sale
     \/ scene = "ticks" /\ Ticks
     \/ scene = "race" /\ Race
     \/ scene = "plans" /\ Planning

MCSpec == (MCInit \/ Selling) /\ [][MCNext]_<<vars, scene>>

==============================================================================
