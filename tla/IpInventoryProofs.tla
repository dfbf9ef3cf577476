-------------------------- MODULE IpInventoryProofs --------------------------
(***************************************************************************)
(* Proofs about IpInventory, for any number of addresses, users, pools,    *)
(* blocks and requests.  The inductive invariant Inv says how rows,        *)
(* blocks, plans and requests hang together: a row belongs to the one live *)
(* pool that covers its address, a plan to a live pool it lies in, a       *)
(* member of a block to the pool of that block, and a request that is      *)
(* about to write asks for addresses of its pool.                          *)
(*                                                                         *)
(* What an administrator has checked is still true when he writes, or the   *)
(* task is marked as crossed.                                              *)
(*                                                                         *)
(* The counters of pools need more: purchases that race each count the     *)
(* address they all got.  Owed(p) is what the operations to come may still *)
(* count down: one for every address held as a single, and the size of     *)
(* every block sold and not yet given back, whoever holds its addresses by *)
(* now.  Books says that the counter of a pool is at least that.           *)
(***************************************************************************)
EXTENDS IpInventory, SumTheorems, TLAPS

(* Live pools share no address. *)
PoolInv ==
  /\ \A p \in LivePools : pool[p].cidr \in PoolCidrs
  /\ \A p, x \in LivePools : p # x => Addrs(pool[p].cidr) \intersect Addrs(pool[x].cidr) = {}

(* A plan lies in its pool, and the pool is live. *)
PlanInv ==
  \A q \in plans : q.pool \in LivePools /\ Addrs(q.cidr) \subseteq Addrs(pool[q.pool].cidr)

(* A row belongs to a live pool that covers its address. *)
RowInv ==
  \A a \in Addresses :
    /\ ip[a].status = "none" => ip[a] = NoRow
    /\ ip[a].status # "none" => ip[a].pool \in LivePools /\ a \in Addrs(pool[ip[a].pool].cidr)
    /\ Held(a) => ip[a].user \in Users

(* A member of a block lies in it, in its pool, and the block is sold. *)
BlockInv ==
  \A b \in Blocks : \A a \in MembersOf(b) :
    /\ block[b].status \in {"active", "suspended"}
    /\ ip[a].pool = block[b].pool
    /\ a \in Addrs(block[b].cidr)

(* What an administrator is about to write, against the pools and plans that *)
(* there are now.                                                            *)
TaskHolds(m, q) ==
  /\ task[m].op = "add pool" => q.cidr \in PoolCidrs
  /\ task[m].op = "add plan" =>
       /\ task[m].pool = q.pool
       /\ pool[q.pool].status # "none"
       /\ Addrs(q.cidr) \subseteq Addrs(pool[q.pool].cidr)
       /\ ~task[m].crossed => \A x \in PlansOf(q.pool) : Addrs(x.cidr) \intersect Addrs(q.cidr) = {}
TaskInv == \A m \in Admins : \A q \in task[m].plans : TaskHolds(m, q)

(* A request about to write asks for addresses that its pool has, or had     *)
(* before it was deleted.                                                    *)
ReqInv ==
  \A r \in Requests :
    req[r].pc = "chosen" =>
      /\ req[r].kind = "single" => req[r].cidr = Single(req[r].cidr.net)
      /\ Addrs(req[r].cidr) \subseteq Addresses
      /\ pool[req[r].pool].status # "none"
      /\ req[r].cidr.size > 0
      /\ Addrs(req[r].cidr) \subseteq Addrs(pool[req[r].pool].cidr)

Inv == TypeOK /\ PoolInv /\ PlanInv /\ TaskInv /\ RowInv /\ BlockInv /\ ReqInv /\ BlocksStayWhole

------------------------------------------------------------------------------
(* What sale-plans.ts computes on CIDRs, against the addresses they name. *)

(* cidrContains(outer, inner) never accepts a range that leaves the outer one. *)
LEMMA ContainsIsSubset ==
  ASSUME NEW o \in Cidr, NEW i \in Cidr, CidrContains(o, i)
  PROVE  Addrs(i) \subseteq Addrs(o)
  BY DEF Cidr, CidrContains, Addrs

(* cidrsOverlap is exactly "some address is in both". *)
LEMMA OverlapIsSharing ==
  ASSUME NEW a \in Cidr, NEW b \in Cidr, a.size > 0, b.size > 0
  PROVE  CidrsOverlap(a, b) <=> Addrs(a) \intersect Addrs(b) # {}
<1>1. ASSUME CidrsOverlap(a, b) PROVE Addrs(a) \intersect Addrs(b) # {}
  <2>1. CASE a.net <= b.net
    <3>1. b.net \in Addrs(a) /\ b.net \in Addrs(b)
      BY <1>1, <2>1 DEF Cidr, CidrsOverlap, Addrs
    <3> QED BY <3>1
  <2>2. CASE b.net < a.net
    <3>1. a.net \in Addrs(a) /\ a.net \in Addrs(b)
      BY <1>1, <2>2 DEF Cidr, CidrsOverlap, Addrs
    <3> QED BY <3>1
  <2> QED BY <2>1, <2>2 DEF Cidr
<1>2. ASSUME Addrs(a) \intersect Addrs(b) # {} PROVE CidrsOverlap(a, b)
  BY <1>2 DEF Cidr, CidrsOverlap, Addrs
<1> QED BY <1>1, <1>2

(* A block that findFreeBlock returns has the size asked for, lies in the    *)
(* range it was looked for in and holds no taken address.                    *)
LEMMA FreeBlockIsFree ==
  ASSUME NEW w \in Cidr, NEW Q, \A q \in Q : q.cidr \in Cidr, NEW n \in Nat \ {0}, NEW T,
         NEW c \in FreeBlocks(w, Q, n, T)
  PROVE  /\ c \in Cidr
         /\ c.size = n
         /\ Addrs(c) \intersect T = {}
         /\ \E r \in Ranges(w, Q, "block", n) : r \in Cidr /\ Addrs(c) \subseteq Addrs(r)
<1>1. PICK r \in Ranges(w, Q, "block", n) :
        /\ c \in [net : Addrs(r), size : {n}]
        /\ CidrContains(r, c)
        /\ Addrs(c) \intersect T = {}
  BY DEF FreeBlocks
<1>2. r \in Cidr
  BY DEF Ranges
<1>3. c \in Cidr
  BY <1>1, <1>2 DEF Cidr, Addrs
<1>4. Addrs(c) \subseteq Addrs(r)
  BY <1>1, <1>2, <1>3, ContainsIsSubset
<1> QED BY <1>1, <1>2, <1>3, <1>4

LEMMA SingleAddrs ==
  ASSUME NEW a \in Int
  PROVE  Single(a) \in Cidr /\ Addrs(Single(a)) = {a}
  BY DEF Single, Addrs, Cidr

------------------------------------------------------------------------------
(* Counting changes nothing of a pool but its counters. *)
LEMMA CountKeeps ==
  ASSUME TypeOK, NEW p, NEW n \in Int, Count(p, n)
  PROVE  /\ pool' \in [Pools -> PoolRow]
         /\ \A q \in Pools : pool'[q].status = pool[q].status /\ pool'[q].cidr = pool[q].cidr
<1> USE DEF Count, Counted
<1>1. \A q \in Pools : pool'[q] \in PoolRow
  BY DEF TypeOK, PoolRow
<1>2. pool' \in [Pools -> PoolRow]
  BY <1>1
<1> QED BY <1>2 DEF TypeOK, PoolRow

LEMMA BoughtType ==
  ASSUME TypeOK, NEW a \in Addresses, NEW r \in Requests, req[r].pc = "chosen",
         NEW b \in Blocks \union {NoBlock}
  PROVE  Bought(a, r, b) \in Row
<1>1. req[r] \in Request
  BY DEF TypeOK, Idle
<1> QED BY <1>1 DEF TypeOK, Bought, Row, Request

LEMMA FreedType ==
  ASSUME TypeOK, NEW a \in Addresses, NEW b \in Blocks \union {NoBlock}, NEW d \in BOOLEAN
  PROVE  Freed(a, b, d) \in Row
  BY DEF TypeOK, Freed, Row

LEMMA ChosenType ==
  ASSUME TypeOK, NEW r \in Requests, req[r].pc = "chosen"
  PROVE  req[r] \in Request
  BY DEF TypeOK, Idle

LEMMA TaskPlans ==
  ASSUME TypeOK, NEW m \in Admins, NEW q \in task[m].plans
  PROVE  q \in Plan /\ q.pool \in Pools
<1>1. task[m] \in Task
  BY DEF TypeOK
<1>2. q \in Plan
  BY <1>1 DEF Task
<1> QED BY <1>2 DEF Plan

(* Every step keeps the types. *)
LEMMA TypeStep ==
  ASSUME TypeOK, [Next]_vars
  PROVE  TypeOK'
<1> USE InventoryAssumptions, CidrAssumptions DEF books
<1>1. ASSUME NEW r \in Requests, NEW u \in Users, NEW a \in Addresses, ChoosePublicIp(r, u, a)
      PROVE  TypeOK'
  <2>1. PICK p \in Pools : Choose(r, "single", TRUE, u, p, Single(a))
    BY <1>1 DEF ChoosePublicIp, PoolsOver, LivePools
  <2>2. req' \in [Requests -> Request \union {Idle}]
    BY <2>1, SingleAddrs DEF Choose, TypeOK, Request
  <2> QED BY <1>1, <2>2 DEF ChoosePublicIp, TypeOK
<1>2. ASSUME NEW r \in Requests, NEW u \in Users, ChooseFirstAvailable(r, u) PROVE TypeOK'
  <2>1. PICK a : ChoosePublicIp(r, u, a) /\ \E p \in LivePools : a \in FreeSingles(pool[p].cidr, PlansOf(p), Taken(p))
    BY <1>2 DEF ChooseFirstAvailable
  <2>2. a \in Int
    BY <2>1 DEF FreeSingles, Addrs
  <2>3. PICK p \in Pools : Choose(r, "single", TRUE, u, p, Single(a))
    BY <2>1 DEF ChoosePublicIp, PoolsOver, LivePools
  <2>4. req' \in [Requests -> Request \union {Idle}]
    BY <2>2, <2>3, SingleAddrs DEF Choose, TypeOK, Request
  <2> QED BY <2>1, <2>4 DEF ChoosePublicIp, TypeOK
<1>3. ASSUME NEW r \in Requests, NEW u \in Users, NEW n \in BlockSizes, ChooseIpBlock(r, u, n)
      PROVE  TypeOK'
  <2>1. PICK p \in LivePools : \E c \in FreeBlocks(pool[p].cidr, PlansOf(p), n, Taken(p)) :
          Choose(r, "block", TRUE, u, p, c)
    BY <1>3 DEF ChooseIpBlock
  <2>2. PICK c \in FreeBlocks(pool[p].cidr, PlansOf(p), n, Taken(p)) : Choose(r, "block", TRUE, u, p, c)
    BY <2>1
  <2>3. pool[p].cidr \in Cidr /\ \A q \in PlansOf(p) : q.cidr \in Cidr
    BY DEF TypeOK, LivePools, PoolRow, PlansOf, Plan
  <2>4. c \in Cidr
    BY <2>2, <2>3, FreeBlockIsFree
  <2>5. req' \in [Requests -> Request \union {Idle}]
    BY <2>2, <2>4 DEF Choose, TypeOK, Request, LivePools
  <2> QED BY <1>3, <2>5 DEF ChooseIpBlock, TypeOK
<1>4. ASSUME NEW r \in Requests, NEW u \in Users, NEW a \in Addresses, ChooseGrantIp(r, u, a)
      PROVE  TypeOK'
  <2>1. PICK p \in Pools : Choose(r, "single", FALSE, u, p, Single(a))
    BY <1>4 DEF ChooseGrantIp, PoolsOver, LivePools
  <2>2. req' \in [Requests -> Request \union {Idle}]
    BY <2>1, SingleAddrs DEF Choose, TypeOK, Request
  <2> QED BY <1>4, <2>2 DEF ChooseGrantIp, TypeOK
<1>5. ASSUME NEW r \in Requests, NEW u \in Users, NEW c \in PlanCidrs, ChooseGrantBlock(r, u, c)
      PROVE  TypeOK'
  <2>1. PICK p \in Pools : Choose(r, "block", FALSE, u, p, c)
    BY <1>5 DEF ChooseGrantBlock, PoolsOver, LivePools
  <2>2. req' \in [Requests -> Request \union {Idle}]
    BY <2>1 DEF Choose, TypeOK, Request
  <2> QED BY <1>5, <2>2 DEF ChooseGrantBlock, TypeOK
<1>6. ASSUME NEW r \in Requests, CommitSingle(r) PROVE TypeOK'
  <2>1. pool' \in [Pools -> PoolRow]
    BY <1>6, CountKeeps DEF CommitSingle
  <2>2. ip' \in [Addresses -> Row]
    <3>1. CASE req[r].cidr.net \in Addresses
      BY <1>6, <3>1, BoughtType DEF CommitSingle, TypeOK
    <3>2. CASE req[r].cidr.net \notin Addresses
      BY <1>6, <3>2 DEF CommitSingle, TypeOK
    <3> QED BY <3>1, <3>2
  <2>3. req' \in [Requests -> Request \union {Idle}]
    BY <1>6 DEF CommitSingle, TypeOK
  <2> QED BY <1>6, <2>1, <2>2, <2>3 DEF CommitSingle, TypeOK
<1>7. ASSUME NEW r \in Requests, NEW b \in Blocks, CommitBlock(r, b) PROVE TypeOK'
  <2>1. req[r] \in Request
    BY <1>7, ChosenType DEF CommitBlock
  <2>2. pool' \in [Pools -> PoolRow]
    BY <1>7, <2>1, CountKeeps DEF CommitBlock, Request, Cidr
  <2>3. \A a \in Addresses : ip'[a] \in Row
    BY <1>7, BoughtType DEF CommitBlock, TypeOK
  <2>4. ip' \in [Addresses -> Row]
    BY <1>7, <2>3 DEF CommitBlock
  <2>5. block' \in [Blocks -> BlockRow]
    BY <1>7, <2>1 DEF CommitBlock, TypeOK, BlockRow, Request
  <2>6. req' \in [Requests -> Request \union {Idle}]
    BY <1>7 DEF CommitBlock, TypeOK
  <2> QED BY <1>7, <2>2, <2>4, <2>5, <2>6 DEF CommitBlock, TypeOK
<1>8. ASSUME NEW r \in Requests, Rollback(r) PROVE TypeOK'
  BY <1>8 DEF Rollback, TypeOK
<1>9. ASSUME NEW u \in Users, NEW a \in Addresses, ReleasePublicIp(u, a) PROVE TypeOK'
  <2>1. pool' \in [Pools -> PoolRow]
    BY <1>9, CountKeeps DEF ReleasePublicIp
  <2>2. ip' \in [Addresses -> Row]
    BY <1>9, FreedType DEF ReleasePublicIp, TypeOK, Row
  <2> QED BY <1>9, <2>1, <2>2 DEF ReleasePublicIp, TypeOK
<1>10. ASSUME NEW u \in Users, NEW a \in Addresses, NEW t \in Tunnels \union {Detached}, MoveIp(u, a, t)
       PROVE  TypeOK'
  <2>1. ip' \in [Addresses -> Row]
    BY <1>10 DEF MoveIp, TypeOK, Row
  <2> QED BY <1>10, <2>1 DEF MoveIp, TypeOK
<1>11. ASSUME NEW b \in Blocks, NEW d \in BOOLEAN, FreeMembers(b, d),
              UNCHANGED <<plans, live, req, task, listed>>
       PROVE  TypeOK'
  <2>1. block[b].cidr.size \in Int
    BY DEF TypeOK, BlockRow, Cidr
  <2>2. pool' \in [Pools -> PoolRow]
    BY <1>11, <2>1, CountKeeps DEF FreeMembers
  <2>3. \A a \in Addresses : ip'[a] \in Row
    BY <1>11, FreedType DEF FreeMembers, TypeOK, Row
  <2>4. ip' \in [Addresses -> Row]
    BY <1>11, <2>3 DEF FreeMembers
  <2>5. block' \in [Blocks -> BlockRow]
    BY <1>11 DEF FreeMembers, TypeOK, BlockRow
  <2>6. ended' \subseteq Blocks /\ recounted' \subseteq Pools \union {NoPool}
    BY <1>11 DEF FreeMembers, TypeOK, BlockRow
  <2> QED BY <1>11, <2>2, <2>4, <2>5, <2>6 DEF TypeOK
<1>12. ASSUME NEW u \in Users, NEW b \in Blocks, ReleaseIpBlock(u, b) PROVE TypeOK'
  BY <1>11, <1>12 DEF ReleaseIpBlock
<1>13. ASSUME NEW u \in Users, NEW b \in Blocks, NEW t \in Tunnels \union {Detached}, MoveIpBlock(u, b, t)
       PROVE  TypeOK'
  <2>1. ip' \in [Addresses -> Row]
    BY <1>13 DEF MoveIpBlock, TypeOK, Row
  <2> QED BY <1>13, <2>1 DEF MoveIpBlock, TypeOK
<1>14. ASSUME NEW u \in Users, NEW t \in Tunnels, DeleteTunnel(u, t) PROVE TypeOK'
  BY <1>14 DEF DeleteTunnel, TypeOK
<1>15. ASSUME NEW a \in Addresses, ChargePublicIp(a) PROVE TypeOK'
  <2>1. PICK s \in {"suspended", "allocated"}, d \in BOOLEAN :
          ip' = [ip EXCEPT ![a].status = s, ![a].due = d]
    BY <1>15 DEF ChargePublicIp
  <2>2. ip' \in [Addresses -> Row]
    <3>1. [ip EXCEPT ![a].status = s] \in [Addresses -> Row]
      BY DEF TypeOK, Row
    <3> DEFINE other == [ip EXCEPT ![a].status = s]
    <3>2. ip' = [other EXCEPT ![a].due = d] /\ other \in [Addresses -> Row]
      BY <2>1, <3>1
    <3> HIDE DEF other
    <3> QED BY <3>2 DEF Row
  <2> QED BY <1>15, <2>2 DEF ChargePublicIp, TypeOK
<1>16. ASSUME NEW a \in Addresses, ForceCancelPublicIp(a) PROVE TypeOK'
  <2>1. Freed(a, ip[a].block, FALSE) \in Row /\ ip[a].pool \in Pools \union {NoPool}
    BY FreedType DEF TypeOK, Row
  <2>2. ip' \in [Addresses -> Row]
    BY <1>16, <2>1 DEF ForceCancelPublicIp, TypeOK
  <2>3. pool' \in [Pools -> PoolRow]
    BY <1>16, CountKeeps DEF ForceCancelPublicIp
  <2> QED BY <1>16, <2>1, <2>2, <2>3 DEF ForceCancelPublicIp, TypeOK
<1>17. ASSUME NEW b \in Blocks, ChargeIpBlock(b) PROVE TypeOK'
  <2>1. block' \in [Blocks -> BlockRow]
    BY <1>17 DEF ChargeIpBlock, TypeOK, BlockRow
  <2> QED BY <1>17, <2>1 DEF ChargeIpBlock, TypeOK
<1>18. ASSUME NEW b \in Blocks, ForceCancelIpBlock(b) PROVE TypeOK'
  BY <1>11, <1>18 DEF ForceCancelIpBlock
<1>19. ASSUME NEW x \in Addresses \union Blocks, ListExpired(x) PROVE TypeOK'
  BY <1>19 DEF ListExpired, TypeOK
<1>20. ASSUME NEW t \in Tunnels, ForceCancelTunnel(t) PROVE TypeOK'
  <2>1. ip' \in [Addresses -> Row]
    BY <1>20 DEF ForceCancelTunnel, TypeOK, Row
  <2> QED BY <1>20, <2>1 DEF ForceCancelTunnel, TypeOK
<1>21. ASSUME NEW m \in Admins, NEW t \in Task, Check(m, t) PROVE TypeOK'
  <2>1. task' \in [Admins -> Task]
    BY <1>21 DEF Check, TypeOK
  <2> QED BY <1>21, <2>1 DEF Check, TypeOK
<1>22. ASSUME NEW m \in Admins, NEW q \in PlanChoices, CheckAddPool(m, q) \/ CheckAddPlan(m, q) PROVE TypeOK'
  <2>1. q \in Plan /\ q.pool \in Pools
    BY DEF PlanChoices, Plan
  <2>2. /\ [op |-> "add pool", pool |-> q.pool, plans |-> {q}, crossed |-> FALSE] \in Task
        /\ [op |-> "add plan", pool |-> q.pool, plans |-> {q}, crossed |-> FALSE] \in Task
    BY <2>1 DEF Task
  <2> QED BY <1>21, <1>22, <2>2 DEF CheckAddPool, CheckAddPlan
<1>23. ASSUME NEW m \in Admins, NEW p \in Pools, CheckDeletePool(m, p) PROVE TypeOK'
  <2>1. [op |-> "delete pool", pool |-> p, plans |-> {}, crossed |-> FALSE] \in Task
    BY DEF Task
  <2> QED BY <1>21, <1>23, <2>1 DEF CheckDeletePool
<1>24. ASSUME NEW m \in Admins, NEW q \in plans, CheckDeletePlan(m, q) PROVE TypeOK'
  <2>1. [op |-> "delete plan", pool |-> q.pool, plans |-> {q}, crossed |-> FALSE] \in Task
    BY DEF TypeOK, Task, Plan
  <2> QED BY <1>21, <1>24, <2>1 DEF CheckDeletePlan
<1>25. NoTask \in Task
  BY DEF NoTask, Task
<1>26. ASSUME NEW m \in Admins, NEW q \in task[m].plans, AddPool(m, q) PROVE TypeOK'
  <2>1. q \in Plan
    BY DEF TypeOK, Task
  <2>2. pool' \in [Pools -> PoolRow]
    BY <1>26, <2>1 DEF AddPool, TypeOK, PoolRow, Plan, Cidr
  <2>3. task' \in [Admins -> Task]
    BY <1>25, <1>26 DEF AddPool, TypeOK
  <2> QED BY <1>26, <2>1, <2>2, <2>3 DEF AddPool, TypeOK
<1>27. ASSUME NEW m \in Admins, NEW q \in task[m].plans, AddSalePlan(m, q) PROVE TypeOK'
  <2>1. q \in Plan /\ task[m].crossed \in BOOLEAN
    BY DEF TypeOK, Task
  <2>2. Inserted(m, q) \in Plan
    BY <2>1 DEF Inserted, Plan
  <2>3. ASSUME NEW x \in Admins PROVE [task[x] EXCEPT !.crossed = TRUE] \in Task
    <3>1. task[x] \in Task
      BY DEF TypeOK
    <3> QED BY <3>1 DEF Task
  <2>4. \A x \in Admins : task'[x] \in Task
    BY <1>25, <1>27, <2>3 DEF AddSalePlan, TypeOK
  <2>5. task' \in [Admins -> Task]
    BY <1>27, <2>4 DEF AddSalePlan
  <2> QED BY <1>27, <2>2, <2>5 DEF AddSalePlan, TypeOK
<1>30. ASSUME NEW m \in Admins, DeleteSalePlan(m) \/ GiveUp(m) PROVE TypeOK'
  <2>1. \A x \in Admins : task'[x] \in Task
    BY <1>25, <1>30 DEF DeleteSalePlan, GiveUp, TypeOK
  <2>2. task' \in [Admins -> Task]
    BY <1>25, <1>30, <2>1 DEF DeleteSalePlan, GiveUp, TypeOK
  <2> QED BY <1>30, <2>2 DEF DeleteSalePlan, GiveUp, TypeOK
<1>31. ASSUME NEW m \in Admins, DeletePool(m) PROVE TypeOK'
  <2>1. ip' \in [Addresses -> Row]
    BY <1>31 DEF DeletePool, TypeOK, Row, NoRow
  <2>2. block' \in [Blocks -> BlockRow]
    <3>1. Purged \in BlockRow
      BY DEF BlockRow, Purged, Cidr
    <3> QED BY <1>31, <3>1 DEF DeletePool, TypeOK
  <2>3. \A p \in Pools : [status |-> "gone", cidr |-> pool[p].cidr, available |-> 0, allocated |-> 0] \in PoolRow
    BY DEF TypeOK, PoolRow
  <2>4. pool' \in [Pools -> PoolRow]
    BY <1>31, <2>3 DEF DeletePool, TypeOK
  <2>5. task' \in [Admins -> Task]
    BY <1>25, <1>31 DEF DeletePool, TypeOK
  <2> QED BY <1>31, <2>1, <2>2, <2>4, <2>5 DEF DeletePool, TypeOK
<1>32. ASSUME NEW m \in Admins, Administration(m) PROVE TypeOK'
  BY <1>22, <1>23, <1>24, <1>26, <1>27, <1>30, <1>31, <1>32 DEF Administration
<1>28. ASSUME NEW a \in Addresses, SetSaleMode(a) PROVE TypeOK'
  <2>1. ip' \in [Addresses -> Row]
    BY <1>28 DEF SetSaleMode, TypeOK, Row, PoolsOver, LivePools
  <2> QED BY <1>28, <2>1 DEF SetSaleMode, TypeOK
<1>29. CASE UNCHANGED vars
  BY <1>29 DEF vars, TypeOK
<1> QED
  BY <1>1, <1>2, <1>3, <1>4, <1>5, <1>6, <1>7, <1>8, <1>9, <1>10, <1>12, <1>13, <1>14, <1>15, <1>16,
     <1>17, <1>18, <1>19, <1>20, <1>28, <1>29, <1>32
  DEF Next, Purchases, Holdings, Scheduler

------------------------------------------------------------------------------
(* The parts of the invariant.  A step that only counts in pools leaves      *)
(* everything that is said of pools alone.                                   *)
PoolsKept == \A q \in Pools : pool'[q].status = pool[q].status /\ pool'[q].cidr = pool[q].cidr

LEMMA PoolsStep ==
  ASSUME TypeOK, [Next]_vars,
         \A m \in Admins : ~DeletePool(m) /\ \A q \in task[m].plans : ~AddPool(m, q)
  PROVE  PoolsKept
<1> USE DEF PoolsKept
<1>1. ASSUME NEW b \in Blocks, NEW d, FreeMembers(b, d) PROVE PoolsKept
  <2>1. block[b].cidr.size \in Int
    BY DEF TypeOK, BlockRow, Cidr
  <2> QED BY <1>1, <2>1, CountKeeps DEF FreeMembers
<1>2. ASSUME NEW r \in Requests, NEW b \in Blocks, CommitBlock(r, b) PROVE PoolsKept
  <2>1. req[r].cidr.size \in Int
    BY <1>2, ChosenType DEF CommitBlock, Request, Cidr
  <2> QED BY <1>2, <2>1, CountKeeps DEF CommitBlock
<1>3. ASSUME NEW r \in Requests, CommitSingle(r) PROVE PoolsKept
  BY <1>3, CountKeeps DEF CommitSingle
<1>4. ASSUME NEW u \in Users, NEW a \in Addresses, ReleasePublicIp(u, a) PROVE PoolsKept
  BY <1>4, CountKeeps DEF ReleasePublicIp
<1>5. ASSUME NEW a \in Addresses, ForceCancelPublicIp(a) PROVE PoolsKept
  BY <1>5, CountKeeps DEF ForceCancelPublicIp
<1>6. ASSUME NEW b \in Blocks, ForceCancelIpBlock(b) PROVE PoolsKept
  BY <1>1, <1>6 DEF ForceCancelIpBlock
<1>7. ASSUME NEW u \in Users, NEW b \in Blocks, ReleaseIpBlock(u, b) PROVE PoolsKept
  BY <1>1, <1>7 DEF ReleaseIpBlock
<1>8. ASSUME UNCHANGED pool PROVE PoolsKept
  BY <1>8
<1>9. ASSUME NEW r \in Requests, Purchases(r) PROVE PoolsKept
  BY <1>2, <1>3, <1>8, <1>9
  DEF Purchases, ChoosePublicIp, ChooseFirstAvailable, ChooseIpBlock, ChooseGrantIp, ChooseGrantBlock, Rollback
<1>10. ASSUME NEW u \in Users, Holdings(u) PROVE PoolsKept
  BY <1>4, <1>7, <1>8, <1>10 DEF Holdings, MoveIp, MoveIpBlock, DeleteTunnel
<1>11. ASSUME Scheduler PROVE PoolsKept
  BY <1>5, <1>6, <1>8, <1>11 DEF Scheduler, ChargePublicIp, ChargeIpBlock, ListExpired, ForceCancelTunnel
<1>12. ASSUME NEW m \in Admins, Administration(m) PROVE PoolsKept
  BY <1>8, <1>12
  DEF Administration, AddSalePlan, CheckAddPool, CheckAddPlan, CheckDeletePool, CheckDeletePlan, Check, DeleteSalePlan,
      GiveUp
<1>14. ASSUME NEW a \in Addresses, SetSaleMode(a) PROVE PoolsKept
  BY <1>8, <1>14 DEF SetSaleMode
<1>13. CASE UNCHANGED vars
  BY <1>8, <1>13 DEF vars
<1> QED BY <1>9, <1>10, <1>11, <1>12, <1>13, <1>14 DEF Next

LEMMA PoolInvStep ==
  ASSUME TypeOK, PoolInv, TaskInv, [Next]_vars
  PROVE  PoolInv'
<1>1. ASSUME NEW m \in Admins, NEW q \in task[m].plans, AddPool(m, q) PROVE PoolInv'
  <2>1. q.pool \in Pools /\ q.cidr \in PoolCidrs
    BY <1>1, TaskPlans DEF AddPool, TaskInv, TaskHolds
  <2>2. LivePools' = LivePools \union {q.pool} /\ q.pool \notin LivePools /\ pool'[q.pool].cidr = q.cidr
    BY <1>1, <2>1 DEF AddPool, LivePools, TypeOK
  <2>3. \A x \in LivePools : pool'[x] = pool[x]
    BY <1>1, <2>2 DEF AddPool, TypeOK, LivePools
  <2>4. \A x \in LivePools : Addrs(pool[x].cidr) \intersect Addrs(q.cidr) = {}
    BY <1>1, <2>1, CidrAssumptions DEF AddPool, PoolInv
  <2> QED BY <2>1, <2>2, <2>3, <2>4 DEF PoolInv
<1>2. ASSUME NEW m \in Admins, DeletePool(m) PROVE PoolInv'
  <2>1. \A x \in Pools : x # task[m].pool => pool'[x] = pool[x]
    BY <1>2 DEF DeletePool, TypeOK
  <2>2. LivePools' \subseteq LivePools /\ task[m].pool \notin LivePools'
    BY <1>2, <2>1 DEF DeletePool, TypeOK, LivePools
  <2> QED BY <2>1, <2>2 DEF PoolInv, LivePools
<1>3. ASSUME PoolsKept PROVE PoolInv'
  BY <1>3 DEF PoolsKept, PoolInv, LivePools
<1> QED BY <1>1, <1>2, <1>3, PoolsStep

(* What has not just been inserted was there before. *)
LEMMA PlansStep ==
  ASSUME [Next]_vars, \A m \in Admins : \A q \in task[m].plans : ~AddPool(m, q) /\ ~AddSalePlan(m, q)
  PROVE  plans' \subseteq plans
<1> USE DEF books
<1>1. ASSUME NEW r \in Requests, Purchases(r) PROVE plans' \subseteq plans
  BY <1>1 DEF Purchases, ChoosePublicIp, ChooseFirstAvailable, ChooseIpBlock, ChooseGrantIp, ChooseGrantBlock,
     Rollback, CommitSingle, CommitBlock
<1>2. ASSUME NEW u \in Users, Holdings(u) PROVE plans' \subseteq plans
  BY <1>2 DEF Holdings, MoveIp, MoveIpBlock, DeleteTunnel, ReleasePublicIp, ReleaseIpBlock
<1>3. ASSUME Scheduler PROVE plans' \subseteq plans
  BY <1>3 DEF Scheduler, ChargePublicIp, ChargeIpBlock, ListExpired, ForceCancelTunnel, ForceCancelPublicIp,
     ForceCancelIpBlock
<1>4. ASSUME NEW m \in Admins, Administration(m) PROVE plans' \subseteq plans
  BY <1>4 DEF Administration, CheckAddPool, CheckAddPlan, CheckDeletePool, CheckDeletePlan, Check, DeleteSalePlan,
     DeletePool, GiveUp
<1> QED BY <1>1, <1>2, <1>3, <1>4 DEF Next, vars, SetSaleMode

LEMMA PlanInvStep ==
  ASSUME TypeOK, PlanInv, TaskInv, [Next]_vars
  PROVE  PlanInv'
<1> USE DEF PlanInv
<1>1. ASSUME NEW m \in Admins, NEW q \in task[m].plans, AddPool(m, q) PROVE PlanInv'
  <2>1. q.pool \in Pools
    BY TaskPlans
  <2>2. LivePools' = LivePools \union {q.pool} /\ q.pool \notin LivePools /\ pool'[q.pool].cidr = q.cidr
    BY <1>1, <2>1 DEF AddPool, LivePools, TypeOK
  <2>3. \A x \in LivePools : pool'[x] = pool[x]
    BY <1>1, <2>2 DEF AddPool, TypeOK, LivePools
  <2> QED BY <1>1, <2>2, <2>3 DEF AddPool
<1>2. ASSUME NEW m \in Admins, DeletePool(m) PROVE PlanInv'
  <2>1. \A x \in Pools : x # task[m].pool => pool'[x] = pool[x]
    BY <1>2 DEF DeletePool, TypeOK
  <2>2. \A q \in plans' : q \in plans /\ q.pool # task[m].pool
    BY <1>2 DEF DeletePool, PlansOf
  <2> QED BY <2>1, <2>2 DEF LivePools
<1>3. ASSUME PoolsKept, plans' \subseteq plans PROVE PlanInv'
  BY <1>3 DEF PoolsKept, LivePools
<1>4. ASSUME NEW m \in Admins, NEW q \in task[m].plans, AddSalePlan(m, q) PROVE PlanInv'
  <2>1. q \in Plan /\ q.pool \in LivePools
    BY <1>4, TaskPlans DEF AddSalePlan, LivePools
  <2>2. Inserted(m, q).pool = q.pool /\ Inserted(m, q).cidr = q.cidr
    BY <2>1 DEF Inserted, Plan
  <2>3. Addrs(q.cidr) \subseteq Addrs(pool[q.pool].cidr)
    BY <1>4 DEF AddSalePlan, TaskInv, TaskHolds
  <2> QED BY <1>4, <2>1, <2>2, <2>3 DEF AddSalePlan, LivePools
<1> QED BY <1>1, <1>2, <1>3, <1>4, PoolsStep, PlansStep

(* The tasks that a step does not write. *)
TasksKept == \A m \in Admins : task'[m] = task[m] \/ task'[m] = NoTask

(* What a step must leave for the tasks that it does not write: the pools,   *)
(* and no new plan in them.                                                  *)
PoolsStay == \A p \in Pools : pool[p].status # "none" => pool'[p].status # "none" /\ pool'[p].cidr = pool[p].cidr
NoNewPlans == \A q \in plans' : q \in plans \/ pool[q.pool].status = "none"

LEMMA TaskStaysTrue ==
  ASSUME TypeOK, NEW m \in Admins, NEW q \in task[m].plans, TaskHolds(m, q), task'[m] = task[m],
         PoolsStay, NoNewPlans
  PROVE  TaskHolds(m, q)'
<1>1. q.pool \in Pools
  BY TaskPlans
<1>2. CASE task[m].op = "add plan"
  <2>1. pool[q.pool].status # "none" /\ pool'[q.pool].status # "none" /\ pool'[q.pool].cidr = pool[q.pool].cidr
    BY <1>1, <1>2 DEF TaskHolds, PoolsStay
  <2>2. PlansOf(q.pool)' \subseteq PlansOf(q.pool)
    BY <2>1 DEF PlansOf, NoNewPlans
  <2> QED BY <1>2, <2>1, <2>2 DEF TaskHolds
<1>3. CASE task[m].op # "add plan"
  BY <1>3 DEF TaskHolds
<1> QED BY <1>2, <1>3

LEMMA TasksStayTrue ==
  ASSUME TypeOK, TaskInv, TasksKept, PoolsStay, NoNewPlans
  PROVE  TaskInv'
<1> SUFFICES ASSUME NEW m \in Admins, NEW q \in task'[m].plans PROVE TaskHolds(m, q)'
  BY DEF TaskInv
<1>1. task'[m] = task[m] /\ q \in task[m].plans
  BY DEF TasksKept, NoTask
<1> QED BY <1>1, TaskStaysTrue DEF TaskInv

(* A check starts a task. *)
LEMMA CheckStep ==
  ASSUME TypeOK, TaskInv, NEW m \in Admins, NEW t, Check(m, t), \A q \in t.plans : TaskHolds(m, q)'
  PROVE  TaskInv'
<1> SUFFICES ASSUME NEW x \in Admins, NEW q \in task'[x].plans PROVE TaskHolds(x, q)'
  BY DEF TaskInv
<1>1. task'[m] = t /\ (x # m => task'[x] = task[x]) /\ UNCHANGED <<pool, plans>>
  BY DEF Check, TypeOK
<1>2. PoolsStay /\ NoNewPlans
  BY <1>1 DEF PoolsStay, NoNewPlans
<1> QED BY <1>1, <1>2, TaskStaysTrue DEF TaskInv

LEMMA TaskInvStep ==
  ASSUME TypeOK, PlanInv, TaskInv, [Next]_vars
  PROVE  TaskInv'
<1>1. ASSUME NEW m \in Admins, NEW t, Check(m, t), t.op = "delete plan" \/ t.op = "delete pool" PROVE TaskInv'
  <2>1. task'[m] = t
    BY <1>1 DEF Check, TypeOK
  <2>2. \A q \in t.plans : TaskHolds(m, q)'
    BY <1>1, <2>1 DEF TaskHolds
  <2> QED BY <1>1, <2>2, CheckStep
<1>2. ASSUME NEW m \in Admins, NEW q \in PlanChoices, CheckAddPool(m, q) PROVE TaskInv'
  <2> DEFINE t == [op |-> "add pool", pool |-> q.pool, plans |-> {q}, crossed |-> FALSE]
  <2>1. Check(m, t) /\ q.cidr \in PoolCidrs
    BY <1>2 DEF CheckAddPool
  <2>2. t.op = "add pool" /\ t.plans = {q}
    OBVIOUS
  <2> HIDE DEF t
  <2>3. task'[m] = t
    BY <2>1 DEF Check, TypeOK
  <2>4. \A x \in t.plans : TaskHolds(m, x)'
    BY <2>1, <2>2, <2>3 DEF TaskHolds
  <2> QED BY <2>1, <2>4, CheckStep
<1>3. ASSUME NEW m \in Admins, NEW q \in PlanChoices, CheckAddPlan(m, q) PROVE TaskInv'
  <2> DEFINE t == [op |-> "add plan", pool |-> q.pool, plans |-> {q}, crossed |-> FALSE]
  <2>1. Check(m, t)
    BY <1>3 DEF CheckAddPlan
  <2>2. t.op = "add plan" /\ t.pool = q.pool /\ t.plans = {q} /\ t.crossed = FALSE
    OBVIOUS
  <2> HIDE DEF t
  <2>3. q.cidr \in Cidr /\ q.cidr.size > 0 /\ q.pool \in Pools /\ pool[q.pool].cidr \in Cidr
    BY <1>3, CidrAssumptions DEF CheckAddPlan, PlanChoices, TypeOK, PoolRow
  <2>4. Addrs(q.cidr) \subseteq Addrs(pool[q.pool].cidr)
    BY <1>3, <2>3, ContainsIsSubset DEF CheckAddPlan, Offerable
  <2>5. ASSUME NEW x \in PlansOf(q.pool) PROVE Addrs(x.cidr) \intersect Addrs(q.cidr) = {}
    <3>1. x.cidr \in Cidr /\ ~CidrsOverlap(x.cidr, q.cidr)
      BY <1>3 DEF CheckAddPlan, PlansOf, TypeOK, Plan
    <3>2. CASE x.cidr.size > 0
      BY <2>3, <3>1, <3>2, OverlapIsSharing
    <3>3. CASE ~(x.cidr.size > 0)
      BY <3>1, <3>3 DEF Addrs, Cidr
    <3> QED BY <3>2, <3>3
  <2>6. task'[m] = t /\ UNCHANGED <<pool, plans>> /\ pool[q.pool].status # "none"
    BY <1>3, <2>1 DEF CheckAddPlan, Check, TypeOK
  <2>7. PlansOf(q.pool)' = PlansOf(q.pool)
    BY <2>6 DEF PlansOf
  <2>8. TaskHolds(m, q)'
    BY <2>2, <2>4, <2>5, <2>6, <2>7 DEF TaskHolds
  <2> QED BY <2>1, <2>2, <2>8, CheckStep
<1>4. ASSUME NEW m \in Admins, NEW q \in task[m].plans, AddSalePlan(m, q) PROVE TaskInv'
  <2>1. q \in Plan /\ q.pool \in Pools
    BY TaskPlans
  <2>2. Inserted(m, q).pool = q.pool
    BY <2>1 DEF Inserted, Plan
  <2>3. UNCHANGED pool /\ plans' = plans \union {Inserted(m, q)}
    BY <1>4 DEF AddSalePlan
  <2> SUFFICES ASSUME NEW x \in Admins, NEW y \in task'[x].plans PROVE TaskHolds(x, y)'
    BY DEF TaskInv
  <2>4. x # m /\ task[x] \in Task
    BY <1>4 DEF AddSalePlan, NoTask, TypeOK
  <2>5. CASE x \in Stale(q.pool)
    <3>1. task'[x] = [task[x] EXCEPT !.crossed = TRUE]
      BY <1>4, <2>4, <2>5 DEF AddSalePlan
    <3>2. /\ task'[x].crossed /\ task'[x].op = task[x].op /\ task'[x].pool = task[x].pool
          /\ task'[x].plans = task[x].plans
      BY <2>4, <3>1 DEF Task
    <3>3. TaskHolds(x, y)
      BY <3>2 DEF TaskInv
    <3> QED BY <2>3, <3>2, <3>3 DEF TaskHolds
  <2>6. CASE x \notin Stale(q.pool)
    <3>1. task'[x] = task[x]
      BY <1>4, <2>4, <2>6 DEF AddSalePlan
    <3>2. TaskHolds(x, y)
      BY <3>1 DEF TaskInv
    <3>3. task[x].op = "add plan" => PlansOf(y.pool)' = PlansOf(y.pool)
      <4>1. task[x].op = "add plan" => y.pool # q.pool
        BY <2>6, <3>2 DEF Stale, TaskHolds
      <4> QED BY <2>2, <2>3, <4>1 DEF PlansOf
    <3> QED BY <2>3, <3>1, <3>2, <3>3 DEF TaskHolds
  <2> QED BY <2>5, <2>6
<1>5. ASSUME NEW m \in Admins, NEW q \in task[m].plans, AddPool(m, q) PROVE TaskInv'
  <2>1. q.pool \in Pools
    BY TaskPlans
  <2>2. PoolsStay
    BY <1>5, <2>1 DEF AddPool, TypeOK, PoolsStay
  <2>3. TasksKept
    BY <1>5 DEF AddPool, TasksKept, TypeOK
  <2>4. NoNewPlans
    BY <1>5 DEF AddPool, NoNewPlans
  <2> QED BY <2>2, <2>3, <2>4, TasksStayTrue
<1>6. ASSUME NEW m \in Admins, DeletePool(m) PROVE TaskInv'
  <2>1. PoolsStay
    BY <1>6 DEF DeletePool, TypeOK, PoolsStay
  <2>2. TasksKept /\ NoNewPlans
    BY <1>6 DEF DeletePool, TasksKept, TypeOK, NoNewPlans
  <2> QED BY <2>1, <2>2, TasksStayTrue
<1>7. ASSUME PoolsKept, TasksKept, plans' \subseteq plans PROVE TaskInv'
  BY <1>7, TasksStayTrue DEF PoolsKept, PoolsStay, NoNewPlans
<1>8. ASSUME NEW m \in Admins, Administration(m), PoolsKept,
             \A q \in task[m].plans : ~AddPool(m, q) /\ ~AddSalePlan(m, q), ~DeletePool(m)
      PROVE  TaskInv'
  <2>1. ASSUME NEW q \in plans, CheckDeletePlan(m, q) PROVE TaskInv'
    BY <1>1, <2>1 DEF CheckDeletePlan
  <2>2. ASSUME NEW p \in Pools, CheckDeletePool(m, p) PROVE TaskInv'
    BY <1>1, <2>2 DEF CheckDeletePool
  <2>3. ASSUME DeleteSalePlan(m) \/ GiveUp(m) PROVE TaskInv'
    <3>1. TasksKept /\ plans' \subseteq plans
      BY <2>3 DEF DeleteSalePlan, GiveUp, TasksKept, TypeOK
    <3> QED BY <1>7, <1>8, <3>1
  <2> QED BY <1>2, <1>3, <1>8, <2>1, <2>2, <2>3 DEF Administration
<1> USE DEF books
<1>9. ASSUME UNCHANGED <<task, plans>>, PoolsKept PROVE TaskInv'
  BY <1>7, <1>9 DEF TasksKept
<1>10. ASSUME NEW r \in Requests, Purchases(r), PoolsKept PROVE TaskInv'
  BY <1>9, <1>10 DEF Purchases, ChoosePublicIp, ChooseFirstAvailable, ChooseIpBlock, ChooseGrantIp, ChooseGrantBlock,
     Rollback, CommitSingle, CommitBlock
<1>11. ASSUME NEW u \in Users, Holdings(u), PoolsKept PROVE TaskInv'
  BY <1>9, <1>11 DEF Holdings, MoveIp, MoveIpBlock, DeleteTunnel, ReleasePublicIp, ReleaseIpBlock
<1>12. ASSUME Scheduler, PoolsKept PROVE TaskInv'
  BY <1>9, <1>12 DEF Scheduler, ChargePublicIp, ChargeIpBlock, ListExpired, ForceCancelTunnel, ForceCancelPublicIp,
     ForceCancelIpBlock
<1>13. ASSUME NEW a \in Addresses, SetSaleMode(a), PoolsKept PROVE TaskInv'
  BY <1>9, <1>13 DEF SetSaleMode
<1>14. CASE \E m \in Admins : DeletePool(m) \/ \E q \in task[m].plans : AddPool(m, q) \/ AddSalePlan(m, q)
  BY <1>4, <1>5, <1>6, <1>14
<1>15. CASE \A m \in Admins : ~DeletePool(m) /\ \A q \in task[m].plans : ~AddPool(m, q) /\ ~AddSalePlan(m, q)
  <2>1. PoolsKept
    BY <1>15, PoolsStep
  <2> QED BY <1>8, <1>9, <1>10, <1>11, <1>12, <1>13, <1>15, <2>1 DEF Next, vars
<1> QED BY <1>14, <1>15

(* Addresses on sale in one pool or in two are on sale once. *)
LEMMA SoldOneWayStep ==
  ASSUME TypeOK, PoolInv, PlanInv, TaskInv, SoldOneWay, [Next]_vars
  PROVE  SoldOneWay'
<1> USE DEF SoldOneWay
<1>1. ASSUME NEW m \in Admins, NEW q \in task[m].plans, AddPool(m, q) PROVE SoldOneWay'
  <2>1. q.cidr \in PoolCidrs
    BY <1>1 DEF AddPool, TaskInv, TaskHolds
  <2>2. \A x \in LivePools : Addrs(pool[x].cidr) \intersect Addrs(q.cidr) = {}
    BY <1>1, <2>1, CidrAssumptions DEF AddPool, PoolInv
  <2>3. \A x \in plans : Addrs(x.cidr) \intersect Addrs(q.cidr) = {}
    BY <2>2 DEF PlanInv
  <2> QED BY <1>1, <2>3 DEF AddPool
<1>2. ASSUME NEW m \in Admins, NEW q \in task[m].plans, AddSalePlan(m, q) PROVE SoldOneWay'
  <2>1. q \in Plan /\ q.pool \in LivePools
    BY <1>2, TaskPlans DEF AddSalePlan, LivePools
  <2>2. /\ Inserted(m, q).cidr = q.cidr
        /\ ~Inserted(m, q).crossed => ~task[m].crossed
    BY <2>1 DEF Inserted, Plan
  <2>3. Addrs(q.cidr) \subseteq Addrs(pool[q.pool].cidr)
    BY <1>2 DEF AddSalePlan, TaskInv, TaskHolds
  <2>4. ASSUME NEW x \in plans, x.pool # q.pool PROVE Addrs(x.cidr) \intersect Addrs(q.cidr) = {}
    BY <2>1, <2>3, <2>4 DEF PlanInv, PoolInv
  <2>5. ASSUME NEW x \in plans, x.pool = q.pool, ~task[m].crossed
        PROVE  Addrs(x.cidr) \intersect Addrs(q.cidr) = {}
    BY <1>2, <2>5 DEF AddSalePlan, TaskInv, TaskHolds, PlansOf
  <2> QED BY <1>2, <2>2, <2>4, <2>5 DEF AddSalePlan
<1>3. ASSUME plans' \subseteq plans PROVE SoldOneWay'
  BY <1>3
<1> QED BY <1>1, <1>2, <1>3, PlansStep

------------------------------------------------------------------------------
(* Requests *)

(* A request that is about to write looked in a live pool. *)
LEMMA ChosenInPool ==
  ASSUME TypeOK, PoolInv, PlanInv, NEW p \in LivePools, NEW n \in Nat \ {0},
         NEW c \in FreeBlocks(pool[p].cidr, PlansOf(p), n, Taken(p))
  PROVE  /\ c \in Cidr /\ c.size > 0
         /\ Addrs(c) \subseteq Addrs(pool[p].cidr)
         /\ Addrs(c) \intersect Taken(p) = {}
<1>1. pool[p].cidr \in Cidr /\ \A q \in PlansOf(p) : q.cidr \in Cidr
  BY DEF TypeOK, LivePools, PoolRow, PlansOf, Plan
<1>2. PICK r \in Ranges(pool[p].cidr, PlansOf(p), "block", n) : Addrs(c) \subseteq Addrs(r)
  BY <1>1, FreeBlockIsFree
<1>3. Addrs(r) \subseteq Addrs(pool[p].cidr)
  BY DEF Ranges, PlansOf, PlanInv
<1> QED BY <1>1, <1>2, <1>3, FreeBlockIsFree

LEMMA PoolAddresses ==
  ASSUME PoolInv, NEW p \in LivePools
  PROVE  Addrs(pool[p].cidr) \subseteq Addresses
  BY CidrAssumptions DEF PoolInv

(* What a choice leaves behind satisfies ReqInv. *)
LEMMA ChoiceStep ==
  ASSUME TypeOK, PoolInv, ReqInv, NEW r \in Requests, NEW u \in Users, NEW k, NEW d,
         NEW p \in LivePools, NEW c \in Cidr, Choose(r, k, d, u, p, c), UNCHANGED pool,
         k = "single" => c = Single(c.net), c.size > 0,
         Addrs(c) \subseteq Addrs(pool[p].cidr)
  PROVE  ReqInv'
<1>1. req'[r] = [pc |-> "chosen", kind |-> k, paid |-> d, user |-> u, pool |-> p, cidr |-> c]
  BY DEF Choose, TypeOK
<1>2. \A x \in Requests : x # r => req'[x] = req[x]
  BY DEF Choose, TypeOK
<1> QED BY <1>1, <1>2, PoolAddresses DEF ReqInv, LivePools

LEMMA ReqInvStep ==
  ASSUME TypeOK, PoolInv, PlanInv, ReqInv, [Next]_vars
  PROVE  ReqInv'
<1> USE InventoryAssumptions, CidrAssumptions
<1>1. ASSUME NEW r \in Requests, NEW u \in Users, NEW a \in Int, ChoosePublicIp(r, u, a) PROVE ReqInv'
  <2>1. PICK p \in PoolsOver(Single(a)) : Choose(r, "single", TRUE, u, p, Single(a))
    BY <1>1 DEF ChoosePublicIp
  <2>2. p \in LivePools /\ pool[p].cidr \in Cidr /\ CidrContains(pool[p].cidr, Single(a))
    BY DEF PoolsOver, LivePools, TypeOK, PoolRow
  <2>3. Single(a) \in Cidr /\ Single(a) = Single(Single(a).net) /\ Single(a).size > 0
    BY SingleAddrs DEF Single
  <2>4. Addrs(Single(a)) \subseteq Addrs(pool[p].cidr)
    BY <2>2, <2>3, ContainsIsSubset
  <2> QED BY <1>1, <2>1, <2>2, <2>3, <2>4, ChoiceStep DEF ChoosePublicIp
<1>2. ASSUME NEW r \in Requests, NEW u \in Users, ChooseFirstAvailable(r, u) PROVE ReqInv'
  <2>1. PICK a \in Int : ChoosePublicIp(r, u, a)
    BY <1>2 DEF ChooseFirstAvailable, FreeSingles, Addrs
  <2> QED BY <1>1, <2>1
<1>3. ASSUME NEW r \in Requests, NEW u \in Users, NEW n \in BlockSizes, ChooseIpBlock(r, u, n)
      PROVE  ReqInv'
  <2>1. PICK p \in LivePools : \E c \in FreeBlocks(pool[p].cidr, PlansOf(p), n, Taken(p)) :
          Choose(r, "block", TRUE, u, p, c)
    BY <1>3 DEF ChooseIpBlock
  <2>2. PICK c \in FreeBlocks(pool[p].cidr, PlansOf(p), n, Taken(p)) : Choose(r, "block", TRUE, u, p, c)
    BY <2>1
  <2>3. c \in Cidr /\ c.size > 0 /\ Addrs(c) \subseteq Addrs(pool[p].cidr)
    BY <2>2, ChosenInPool
  <2> QED BY <1>3, <2>2, <2>3, ChoiceStep DEF ChooseIpBlock
<1>4. ASSUME NEW r \in Requests, NEW u \in Users, NEW a \in Addresses, ChooseGrantIp(r, u, a)
      PROVE  ReqInv'
  <2>1. PICK p \in PoolsOver(Single(a)) : Choose(r, "single", FALSE, u, p, Single(a))
    BY <1>4 DEF ChooseGrantIp
  <2>2. p \in LivePools /\ pool[p].cidr \in Cidr /\ CidrContains(pool[p].cidr, Single(a))
    BY DEF PoolsOver, LivePools, TypeOK, PoolRow
  <2>3. Single(a) \in Cidr /\ Single(a) = Single(Single(a).net) /\ Single(a).size > 0
    BY SingleAddrs DEF Single
  <2>4. Addrs(Single(a)) \subseteq Addrs(pool[p].cidr)
    BY <2>2, <2>3, ContainsIsSubset
  <2> QED BY <1>4, <2>1, <2>2, <2>3, <2>4, ChoiceStep DEF ChooseGrantIp
<1>5. ASSUME NEW r \in Requests, NEW u \in Users, NEW c \in PlanCidrs, ChooseGrantBlock(r, u, c)
      PROVE  ReqInv'
  <2>1. PICK p \in PoolsOver(c) : Choose(r, "block", FALSE, u, p, c)
    BY <1>5 DEF ChooseGrantBlock
  <2>2. p \in LivePools /\ pool[p].cidr \in Cidr /\ CidrContains(pool[p].cidr, c)
    BY DEF PoolsOver, LivePools, TypeOK, PoolRow
  <2>3. Addrs(c) \subseteq Addrs(pool[p].cidr)
    BY <2>2, ContainsIsSubset
  <2> QED BY <1>5, <2>1, <2>2, <2>3, ChoiceStep DEF ChooseGrantBlock
<1>6. ASSUME NEW r \in Requests, req' = [req EXCEPT ![r] = Idle], PoolsKept PROVE ReqInv'
  <2>1. req'[r].pc = "idle" /\ \A x \in Requests : x # r => req'[x] = req[x]
    BY <1>6 DEF TypeOK, Idle
  <2>2. \A x \in Requests : req[x].pc = "chosen" => req[x].pool \in Pools
    BY ChosenType DEF Request
  <2> SUFFICES ASSUME NEW x \in Requests, req'[x].pc = "chosen"
               PROVE  /\ req'[x].kind = "single" => req'[x].cidr = Single(req'[x].cidr.net)
                      /\ Addrs(req'[x].cidr) \subseteq Addresses
                      /\ pool'[req'[x].pool].status # "none"
                      /\ req'[x].cidr.size > 0
                      /\ Addrs(req'[x].cidr) \subseteq Addrs(pool'[req'[x].pool].cidr)
    BY DEF ReqInv
  <2>3. x # r /\ req'[x] = req[x]
    BY <2>1
  <2>4. req[x].pool \in Pools /\ req[x].pc = "chosen"
    BY <2>2, <2>3
  <2>5. pool'[req[x].pool].status = pool[req[x].pool].status
        /\ pool'[req[x].pool].cidr = pool[req[x].pool].cidr
    BY <1>6, <2>4 DEF PoolsKept
  <2> QED BY <2>3, <2>4, <2>5 DEF ReqInv
<1>7. ASSUME UNCHANGED req, PoolsKept PROVE ReqInv'
  <2>1. \A x \in Requests : req[x].pc = "chosen" => req[x] \in Request
    BY ChosenType
  <2> QED BY <1>7, <2>1 DEF ReqInv, PoolsKept, Request
<1>8. ASSUME NEW m \in Admins, NEW q \in task[m].plans, AddPool(m, q) PROVE ReqInv'
  <2>1. \A x \in Pools : pool[x].status # "none" => pool'[x] = pool[x]
    BY <1>8 DEF AddPool, TypeOK
  <2>2. \A x \in Requests : req[x].pc = "chosen" => req[x].pool \in Pools
    BY ChosenType DEF Request
  <2>3. UNCHANGED req
    BY <1>8 DEF AddPool
  <2> QED BY <2>1, <2>2, <2>3 DEF ReqInv
<1>9. ASSUME NEW m \in Admins, DeletePool(m) PROVE ReqInv'
  <2>1. \A x \in Pools : /\ pool'[x] = pool[x] \/ pool'[x].status = "gone"
                         /\ pool'[x].cidr = pool[x].cidr
    BY <1>9 DEF DeletePool, TypeOK
  <2>2. \A x \in Requests : req[x].pc = "chosen" => req[x].pool \in Pools
    BY ChosenType DEF Request
  <2>3. UNCHANGED req
    BY <1>9 DEF DeletePool
  <2>4. \A x \in Pools : pool[x].status # "none" => pool'[x].status # "none"
    BY <2>1
  <2> QED BY <2>1, <2>2, <2>3, <2>4 DEF ReqInv
<1>10. ASSUME PoolsKept, NEW r \in Requests, Purchases(r) PROVE ReqInv'
  <2>1. ASSUME NEW b \in Blocks, CommitSingle(r) \/ CommitBlock(r, b) \/ Rollback(r) PROVE ReqInv'
    BY <1>6, <1>10, <2>1 DEF CommitSingle, CommitBlock, Rollback
  <2>2. ASSUME CommitSingle(r) \/ Rollback(r) PROVE ReqInv'
    BY <1>6, <1>10, <2>2 DEF CommitSingle, Rollback
  <2> QED BY <1>1, <1>2, <1>3, <1>4, <1>5, <1>10, <2>1, <2>2 DEF Purchases
<1>11. ASSUME PoolsKept, NEW u \in Users, Holdings(u) PROVE ReqInv'
  BY <1>7, <1>11 DEF Holdings, MoveIp, MoveIpBlock, DeleteTunnel, ReleasePublicIp, ReleaseIpBlock
<1>12. ASSUME PoolsKept, Scheduler PROVE ReqInv'
  BY <1>7, <1>12
  DEF Scheduler, ChargePublicIp, ChargeIpBlock, ListExpired, ForceCancelTunnel, ForceCancelPublicIp, ForceCancelIpBlock
<1>13. ASSUME PoolsKept, NEW m \in Admins, Administration(m) PROVE ReqInv'
  BY <1>7, <1>8, <1>9, <1>13
  DEF Administration, AddSalePlan, CheckAddPool, CheckAddPlan, CheckDeletePool, CheckDeletePlan, Check,
      DeleteSalePlan, GiveUp
<1>15. ASSUME PoolsKept, NEW a \in Addresses, SetSaleMode(a) PROVE ReqInv'
  BY <1>7, <1>15 DEF SetSaleMode
<1>14. ASSUME PoolsKept PROVE ReqInv'
  BY <1>7, <1>10, <1>11, <1>12, <1>13, <1>14, <1>15 DEF Next, vars
<1> QED BY <1>8, <1>9, <1>14, PoolsStep

------------------------------------------------------------------------------
(* Rows and blocks *)

(* What RowInv, BlockInv and BlocksStayWhole say of one address. *)
RowOf(a) ==
  /\ ip[a].status = "none" => ip[a] = NoRow
  /\ ip[a].status # "none" => ip[a].pool \in LivePools /\ a \in Addrs(pool[ip[a].pool].cidr)
  /\ Held(a) => ip[a].user \in Users
MemberOf(a, b) ==
  /\ block[b].status \in {"active", "suspended"}
  /\ ip[a].pool = block[b].pool
  /\ a \in Addrs(block[b].cidr)
  /\ Held(a) => /\ ip[a].user = block[b].user
                /\ ip[a].tunnel # Detached => Owner[ip[a].tunnel] = ip[a].user
WithTheRest(a, b) ==
  Held(a) => \A x \in Addresses : ip[x].block = b /\ Held(x) => ip[x].tunnel = ip[a].tunnel

Rows == \A a \in Addresses : RowOf(a)
Members == \A a \in Addresses, b \in Blocks : ip[a].block = b => MemberOf(a, b) /\ WithTheRest(a, b)

LEMMA RowsAre ==
  (Rows /\ Members <=> RowInv /\ BlockInv /\ BlocksStayWhole)
  BY DEF Rows, Members, RowInv, BlockInv, BlocksStayWhole, RowOf, MemberOf, WithTheRest, MembersOf

(* Pools that only count keep the rows that are not touched. *)
LEMMA RowKept ==
  ASSUME TypeOK, Rows, PoolsKept, NEW a \in Addresses, ip'[a] = ip[a]
  PROVE  RowOf(a)'
  BY DEF TypeOK, Rows, RowOf, PoolsKept, LivePools, Held

(* What a row that was written must have. *)
LEMMA RowFrom ==
  ASSUME PoolsKept, NEW a \in Addresses, ip'[a].status # "none", ip'[a].pool \in LivePools,
         a \in Addrs(pool[ip'[a].pool].cidr),
         ip'[a].status \in {"allocated", "suspended"} => ip'[a].user \in Users
  PROVE  RowOf(a)'
  BY DEF RowOf, PoolsKept, LivePools, Held

LEMMA NothingTouched ==
  ASSUME TypeOK, Rows, Members, PoolsKept, UNCHANGED <<ip, block>>
  PROVE  Rows' /\ Members'
<1>1. Rows'
  BY RowKept DEF Rows
<1> QED BY <1>1 DEF Members, MemberOf, WithTheRest, Held

(* A write to an address that leaves it in no block. *)
LEMMA OneRow ==
  ASSUME TypeOK, Rows, Members, PoolsKept, UNCHANGED block, NEW a \in Addresses,
         \A x \in Addresses : x # a => ip'[x] = ip[x],
         RowOf(a)', ip'[a].block = NoBlock
  PROVE  Rows' /\ Members'
<1>1. Rows'
  BY RowKept DEF Rows
<1>2. Members'
  BY InventoryAssumptions DEF Members, MemberOf, WithTheRest, Held
<1> QED BY <1>1, <1>2

LEMMA CommitSingleRows ==
  ASSUME TypeOK, PoolInv, ReqInv, Rows, Members, NEW r \in Requests, CommitSingle(r), PoolsKept
  PROVE  Rows' /\ Members'
<1>1. req[r] \in Request
  BY ChosenType DEF CommitSingle
<1>0. PICK a : a = req[r].cidr.net
  OBVIOUS
<1>2. req[r].cidr = Single(a) /\ a \in Addresses
  <2>1. req[r].cidr = Single(a) /\ Addrs(Single(a)) \subseteq Addresses
    BY <1>0 DEF CommitSingle, ReqInv
  <2>2. a \in Int
    BY <1>0, <1>1 DEF Request, Cidr
  <2> QED BY <2>1, <2>2, SingleAddrs
<1>3. ip'[a] = Bought(a, r, NoBlock) /\ \A x \in Addresses : x # a => ip'[x] = ip[x]
  BY <1>0, <1>2 DEF CommitSingle, TypeOK
<1>4. /\ ip'[a].status = "allocated" /\ ip'[a].user \in Users /\ ip'[a].block = NoBlock
      /\ ip'[a].pool = IF ip[a].status = "none" THEN req[r].pool ELSE ip[a].pool
  BY <1>1, <1>3 DEF Bought, Request
<1>5. ip'[a].pool \in LivePools /\ a \in Addrs(pool[ip'[a].pool].cidr)
  <2>1. CASE ip[a].status = "none"
    <3>1. pool[req[r].pool].status = "live" /\ a \in Addrs(req[r].cidr)
      BY <1>0, <1>1, <1>2, <2>1, SingleAddrs DEF CommitSingle, Request, Cidr
    <3>2. Addrs(req[r].cidr) \subseteq Addrs(pool[req[r].pool].cidr)
      BY <3>1 DEF CommitSingle, ReqInv
    <3> QED BY <1>1, <1>4, <2>1, <3>1, <3>2 DEF LivePools, Request
  <2>2. CASE ip[a].status # "none"
    BY <1>2, <1>4, <2>2 DEF RowOf, Rows
  <2> QED BY <2>1, <2>2
<1>6. RowOf(a)'
  BY <1>2, <1>4, <1>5, RowFrom
<1>7. UNCHANGED block
  BY DEF CommitSingle
<1> QED BY <1>2, <1>3, <1>4, <1>6, <1>7, OneRow

(* A live pool that covers an address is the pool of its row. *)
LEMMA OnePool ==
  ASSUME Rows, PoolInv, NEW a \in Addresses, ip[a].status # "none",
         NEW p \in LivePools, a \in Addrs(pool[p].cidr)
  PROVE  ip[a].pool = p
  BY DEF Rows, RowOf, PoolInv

LEMMA CommitBlockRows ==
  ASSUME TypeOK, PoolInv, ReqInv, Rows, Members, NEW r \in Requests, NEW c \in Blocks,
         CommitBlock(r, c), PoolsKept
  PROVE  Rows' /\ Members'
<1>1. req[r] \in Request /\ req[r].pool \in LivePools
  BY ChosenType DEF CommitBlock, Request, LivePools
<1>2. Addrs(req[r].cidr) \subseteq Addrs(pool[req[r].pool].cidr)
  BY <1>1 DEF CommitBlock, ReqInv
<1>3. \A a \in Addresses : a \in Addrs(req[r].cidr) => ip'[a] = Bought(a, r, c)
  BY DEF CommitBlock
<1>4. \A a \in Addresses : a \notin Addrs(req[r].cidr) => ip'[a] = ip[a]
  BY DEF CommitBlock
<1>5. ASSUME NEW a \in Addresses, a \in Addrs(req[r].cidr)
      PROVE  /\ ip'[a].status = "allocated" /\ ip'[a].pool = req[r].pool /\ ip'[a].user = req[r].user
             /\ ip'[a].tunnel = Detached /\ ip'[a].block = c
  <2>1. ip'[a] = Bought(a, r, c)
    BY <1>3, <1>5
  <2>2. ip[a].status # "none" => ip[a].pool = req[r].pool
    BY <1>1, <1>2, <1>5, OnePool
  <2> QED BY <2>1, <2>2 DEF Bought
<1>6. Rows'
  <2>1. ASSUME NEW a \in Addresses, a \in Addrs(req[r].cidr) PROVE RowOf(a)'
    <3>1. ip'[a].status = "allocated" /\ ip'[a].pool = req[r].pool /\ ip'[a].user \in Users
      BY <1>1, <1>5, <2>1 DEF Request
    <3> QED BY <1>1, <1>2, <2>1, <3>1, RowFrom
  <2> QED BY <1>4, <2>1, RowKept DEF Rows
<1>7. block'[c] = [status |-> "active", user |-> req[r].user, pool |-> req[r].pool, cidr |-> req[r].cidr]
      /\ \A b \in Blocks : b # c => block'[b] = block[b]
  BY DEF CommitBlock, TypeOK
<1>8. \A a \in Addresses : ip[a].block # c
  BY DEF CommitBlock, Members, MemberOf
<1>9. \A a \in Addresses :
        /\ a \in Addrs(req[r].cidr) => ip'[a].block = c
        /\ a \notin Addrs(req[r].cidr) => ip'[a].block # c
  BY <1>4, <1>5, <1>8
<1>10. ASSUME NEW a \in Addresses, NEW b \in Blocks, ip'[a].block = b
       PROVE  MemberOf(a, b)' /\ WithTheRest(a, b)'
  <2>1. CASE b = c
    <3>1. a \in Addrs(req[r].cidr) /\ \A x \in Addresses : ip'[x].block = b => x \in Addrs(req[r].cidr)
      BY <1>9, <1>10, <2>1
    <3>2. block'[b].status = "active" /\ block'[b].user = req[r].user
          /\ block'[b].pool = req[r].pool /\ block'[b].cidr = req[r].cidr
      BY <1>7, <2>1
    <3> QED BY <1>5, <3>1, <3>2 DEF MemberOf, WithTheRest, Held
  <2>2. CASE b # c
    <3>0. \A x \in Addresses : ip'[x].block = b => x \notin Addrs(req[r].cidr)
      <4> SUFFICES ASSUME NEW x \in Addresses, ip'[x].block = b, x \in Addrs(req[r].cidr) PROVE FALSE
        OBVIOUS
      <4> QED BY <1>9, <2>2
    <3>1. ip'[a] = ip[a] /\ block'[b] = block[b]
      BY <1>4, <1>7, <1>10, <2>2, <3>0
    <3>2. \A x \in Addresses : ip'[x].block = b => ip'[x] = ip[x]
      BY <1>4, <3>0
    <3> QED BY <1>10, <3>1, <3>2 DEF Members, MemberOf, WithTheRest, Held
  <2> QED BY <2>1, <2>2
<1> QED BY <1>6, <1>10 DEF Members

LEMMA FreeMembersRows ==
  ASSUME TypeOK, Rows, Members, NEW c \in Blocks, NEW d \in BOOLEAN, FreeMembers(c, d), PoolsKept
  PROVE  Rows' /\ Members'
<1>1. ASSUME NEW a \in Addresses, ip[a].block = c
      PROVE  ip'[a].status = "available" /\ ip'[a].pool = ip[a].pool /\ ip'[a].block = NoBlock
  <2>1. PICK e : ip'[a] = Freed(a, NoBlock, e)
    BY <1>1 DEF FreeMembers
  <2> QED BY <2>1 DEF Freed
<1>2. \A a \in Addresses : ip[a].block # c => ip'[a] = ip[a]
  BY DEF FreeMembers
<1>3. \A b \in Blocks : b # c => block'[b] = block[b]
  BY DEF FreeMembers, TypeOK
<1>4. Rows'
  <2>1. ASSUME NEW a \in Addresses, ip[a].block = c PROVE RowOf(a)'
    <3>1. ip[a].status # "none"
      BY <2>1, InventoryAssumptions DEF Rows, RowOf, NoRow
    <3>2. ip'[a].status = "available" /\ ip'[a].pool = ip[a].pool
      BY <1>1, <2>1
    <3> QED BY <3>1, <3>2, RowFrom DEF Rows, RowOf
  <2> QED BY <1>2, <2>1, RowKept DEF Rows
<1>5. \A a \in Addresses, b \in Blocks : ip'[a].block = b => b # c /\ ip'[a] = ip[a] /\ block'[b] = block[b]
  <2>1. \A a \in Addresses : ip[a].block = c => ip'[a].block = NoBlock
    BY <1>1
  <2> QED BY <1>2, <1>3, <2>1, InventoryAssumptions
<1>6. Members'
  BY <1>5 DEF Members, MemberOf, WithTheRest, Held
<1> QED BY <1>4, <1>6

LEMMA DeletePoolRows ==
  ASSUME TypeOK, Rows, Members, NEW m \in Admins, DeletePool(m)
  PROVE  Rows' /\ Members'
<1>1. \A x \in Pools : x # task[m].pool => pool'[x] = pool[x]
  BY DEF DeletePool, TypeOK
<1>2. \A a \in Addresses : IF ip[a].pool = task[m].pool THEN ip'[a] = NoRow ELSE ip'[a] = ip[a]
  BY DEF DeletePool
<1>3. \A b \in Blocks : block[b].pool # task[m].pool => block'[b] = block[b]
  BY DEF DeletePool
<1>4. Rows'
  <2>1. ASSUME NEW a \in Addresses, ip[a].pool = task[m].pool PROVE RowOf(a)'
    <3>1. ip'[a] = NoRow /\ NoRow.status = "none"
      BY <1>2, <2>1 DEF NoRow
    <3> QED BY <3>1 DEF RowOf, Held
  <2>2. ASSUME NEW a \in Addresses, ip[a].pool # task[m].pool PROVE RowOf(a)'
    <3>1. ip'[a] = ip[a]
      BY <1>2, <2>2
    <3>2. ip[a].status # "none" => pool'[ip[a].pool] = pool[ip[a].pool]
      BY <1>1, <2>2 DEF Rows, RowOf, LivePools
    <3> QED BY <3>1, <3>2 DEF Rows, RowOf, LivePools, Held
  <2> QED BY <2>1, <2>2 DEF Rows
<1>5. \A a \in Addresses, b \in Blocks :
        ip'[a].block = b => ip'[a] = ip[a] /\ block'[b] = block[b]
  BY <1>2, <1>3, InventoryAssumptions DEF NoRow, Members, MemberOf
<1>6. Members'
  BY <1>5 DEF Members, MemberOf, WithTheRest, Held
<1> QED BY <1>4, <1>6

LEMMA MoveIpBlockRows ==
  ASSUME TypeOK, Rows, Members, PoolsKept, NEW u \in Users, NEW c \in Blocks,
         NEW t \in Tunnels \union {Detached}, MoveIpBlock(u, c, t)
  PROVE  Rows' /\ Members'
<1>1. \A a \in Addresses : ip[a].block # c => ip'[a] = ip[a]
  BY DEF MoveIpBlock
<1>2. \A a \in Addresses : ip[a].block = c => ip'[a] = [ip[a] EXCEPT !.tunnel = t]
  BY DEF MoveIpBlock
<1>3. \A a \in Addresses : /\ ip'[a].status = ip[a].status /\ ip'[a].pool = ip[a].pool
                          /\ ip'[a].user = ip[a].user /\ ip'[a].block = ip[a].block
                          /\ ip'[a].tunnel = IF ip[a].block = c THEN t ELSE ip[a].tunnel
  <2>1. ASSUME NEW a \in Addresses, ip[a].block # c PROVE ip'[a] = ip[a]
    BY <1>1, <2>1
  <2>2. ASSUME NEW a \in Addresses, ip[a].block = c
        PROVE  /\ ip'[a].status = ip[a].status /\ ip'[a].pool = ip[a].pool
               /\ ip'[a].user = ip[a].user /\ ip'[a].block = ip[a].block /\ ip'[a].tunnel = t
    <3>1. ip[a] \in Row /\ ip'[a] = [ip[a] EXCEPT !.tunnel = t]
      BY <1>2, <2>2 DEF TypeOK
    <3> QED BY <3>1 DEF Row
  <2> QED BY <2>1, <2>2
<1>4. Rows'
  <2>1. ASSUME NEW a \in Addresses, ip[a].block = c PROVE RowOf(a)'
    <3>1. ip[a].status # "none"
      BY <2>1, InventoryAssumptions DEF Rows, RowOf, NoRow
    <3> QED BY <1>3, <2>1, <3>1 DEF Rows, RowOf, Held, PoolsKept, LivePools
  <2> QED BY <1>1, <2>1, RowKept DEF Rows
<1>5. t # Detached => Owner[t] = u
  BY DEF MoveIpBlock, MayAttach
<1>6. block' = block /\ block[c].user = u
  BY DEF MoveIpBlock
<1>7. ASSUME NEW a \in Addresses, NEW b \in Blocks, ip'[a].block = b
      PROVE  MemberOf(a, b)' /\ WithTheRest(a, b)'
  BY <1>3, <1>5, <1>6, <1>7 DEF Members, MemberOf, WithTheRest, Held
<1> QED BY <1>4, <1>7 DEF Members

LEMMA ForceCancelTunnelRows ==
  ASSUME TypeOK, Rows, Members, PoolsKept, NEW t \in Tunnels, ForceCancelTunnel(t)
  PROVE  Rows' /\ Members'
<1>1. CASE ip' = ip
  BY <1>1, NothingTouched DEF ForceCancelTunnel
<1>2. CASE ip' = [a \in Addresses |-> IF ip[a].tunnel = t THEN [ip[a] EXCEPT !.tunnel = Detached] ELSE ip[a]]
  <2>1. \A a \in Addresses : /\ ip'[a].status = ip[a].status /\ ip'[a].pool = ip[a].pool
                            /\ ip'[a].user = ip[a].user /\ ip'[a].block = ip[a].block
                            /\ ip'[a].tunnel = IF ip[a].tunnel = t THEN Detached ELSE ip[a].tunnel
    BY <1>2 DEF TypeOK, Row
  <2>2. Rows'
    <3>1. ASSUME NEW a \in Addresses, ip[a].tunnel = t PROVE RowOf(a)'
      <4>1. ip[a].status # "none"
        BY <3>1, InventoryAssumptions DEF Rows, RowOf, NoRow
      <4> QED BY <2>1, <3>1, <4>1 DEF Rows, RowOf, Held, PoolsKept, LivePools
    <3>2. ASSUME NEW a \in Addresses, ip[a].tunnel # t PROVE RowOf(a)'
      BY <1>2, <3>2, RowKept
    <3> QED BY <3>1, <3>2 DEF Rows
  <2>3. ASSUME NEW a \in Addresses, NEW b \in Blocks, ip'[a].block = b
        PROVE  MemberOf(a, b)' /\ WithTheRest(a, b)'
    BY <2>1, <2>3 DEF Members, MemberOf, WithTheRest, Held, ForceCancelTunnel
  <2> QED BY <2>2, <2>3 DEF Members
<1> QED BY <1>1, <1>2 DEF ForceCancelTunnel

(* A row that is written but keeps its block, its user and its tunnel. *)
LEMMA OneFreed ==
  ASSUME TypeOK, Rows, Members, PoolsKept, UNCHANGED block, NEW a \in Addresses,
         \A x \in Addresses : x # a => ip'[x] = ip[x],
         ip[a].status # "none", ip'[a].status = "available",
         ip'[a].pool = ip[a].pool, ip'[a].block = ip[a].block
  PROVE  Rows' /\ Members'
<1>1. RowOf(a)'
  BY RowFrom DEF Rows, RowOf
<1>2. Rows'
  BY <1>1, RowKept DEF Rows
<1>3. ASSUME NEW x \in Addresses, NEW b \in Blocks, ip'[x].block = b
      PROVE  MemberOf(x, b)' /\ WithTheRest(x, b)'
  <2>1. CASE x = a
    BY <1>3, <2>1 DEF Members, MemberOf, WithTheRest, Held
  <2>2. CASE x # a
    BY <1>3, <2>2 DEF Members, MemberOf, WithTheRest, Held
  <2> QED BY <2>1, <2>2
<1> QED BY <1>2, <1>3 DEF Members

(* Moving, giving back, charging or preparing a single address. *)
LEMMA SingleRows ==
  ASSUME TypeOK, Rows, Members, PoolsKept, UNCHANGED block, NEW a \in Addresses,
         \A x \in Addresses : x # a => ip'[x] = ip[x],
         ip[a].status # "none", ip'[a].status # "none", ip'[a].block = NoBlock,
         ip'[a].pool = ip[a].pool,
         ip'[a].status \in {"allocated", "suspended"} => Held(a) /\ ip'[a].user = ip[a].user
  PROVE  Rows' /\ Members'
<1>1. RowOf(a)'
  BY RowFrom DEF Rows, RowOf
<1> QED BY <1>1, OneRow

LEMMA ReleasePublicIpRows ==
  ASSUME TypeOK, Rows, Members, PoolsKept, NEW u \in Users, NEW a \in Addresses, ReleasePublicIp(u, a)
  PROVE  Rows' /\ Members'
<1>1. ip'[a] = Freed(a, NoBlock, ip[a].due) /\ \A x \in Addresses : x # a => ip'[x] = ip[x]
  BY DEF ReleasePublicIp, TypeOK
<1>2. ip'[a].status = "available" /\ ip'[a].pool = ip[a].pool /\ ip'[a].block = NoBlock
  BY <1>1 DEF Freed
<1> QED BY <1>1, <1>2, SingleRows DEF ReleasePublicIp

LEMMA MoveIpRows ==
  ASSUME TypeOK, Rows, Members, PoolsKept, NEW u \in Users, NEW a \in Addresses,
         NEW t \in Tunnels \union {Detached}, MoveIp(u, a, t)
  PROVE  Rows' /\ Members'
<1>1. ip[a] \in Row /\ ip'[a] = [ip[a] EXCEPT !.tunnel = t] /\ \A x \in Addresses : x # a => ip'[x] = ip[x]
  BY DEF MoveIp, TypeOK
<1>2. /\ ip'[a].status = "allocated" /\ ip'[a].pool = ip[a].pool
      /\ ip'[a].block = NoBlock /\ ip'[a].user = ip[a].user
  BY <1>1 DEF MoveIp, Row
<1> QED BY <1>1, <1>2, SingleRows DEF MoveIp, Held

LEMMA ChargePublicIpRows ==
  ASSUME TypeOK, Rows, Members, PoolsKept, NEW a \in Addresses, ChargePublicIp(a)
  PROVE  Rows' /\ Members'
<1>1. ip[a] \in Row /\ \A x \in Addresses : x # a => ip'[x] = ip[x]
  BY DEF ChargePublicIp, TypeOK
<1>2. PICK s \in {"suspended", "allocated"}, d \in BOOLEAN :
        ip' = [ip EXCEPT ![a].status = s, ![a].due = d]
  BY DEF ChargePublicIp
<1>3. /\ ip'[a].status = s /\ ip'[a].pool = ip[a].pool
      /\ ip'[a].block = ip[a].block /\ ip'[a].user = ip[a].user
  BY <1>1, <1>2 DEF TypeOK, Row
<1> QED BY <1>1, <1>3, SingleRows DEF ChargePublicIp, Held

LEMMA SetSaleModeRows ==
  ASSUME TypeOK, PoolInv, Rows, Members, PoolsKept, NEW a \in Addresses, SetSaleMode(a)
  PROVE  Rows' /\ Members'
<1>1. PICK p \in PoolsOver(Single(a)) :
        ip' = [ip EXCEPT ![a] = [status |-> "available", pool |-> p, user |-> Nobody,
                                 tunnel |-> Detached, block |-> NoBlock, due |-> FALSE]]
  BY DEF SetSaleMode
<1>2. /\ ip'[a].status = "available" /\ ip'[a].pool = p /\ ip'[a].block = NoBlock
      /\ \A x \in Addresses : x # a => ip'[x] = ip[x]
  BY <1>1 DEF TypeOK
<1>3. a \in Int
  BY InventoryAssumptions
<1>4. p \in LivePools /\ pool[p].cidr \in Cidr /\ CidrContains(pool[p].cidr, Single(a))
  BY DEF PoolsOver, LivePools, TypeOK, PoolRow
<1>5. a \in Addrs(pool[p].cidr)
  BY <1>3, <1>4, SingleAddrs, ContainsIsSubset
<1>6. RowOf(a)'
  BY <1>2, <1>4, <1>5, RowFrom
<1> QED BY <1>2, <1>6, OneRow DEF SetSaleMode

LEMMA ForceCancelPublicIpRows ==
  ASSUME TypeOK, Rows, Members, PoolsKept, NEW a \in Addresses, ForceCancelPublicIp(a)
  PROVE  Rows' /\ Members'
<1>1. ip'[a] = Freed(a, ip[a].block, FALSE) /\ \A x \in Addresses : x # a => ip'[x] = ip[x]
  BY DEF ForceCancelPublicIp, TypeOK
<1>2. ip'[a].status = "available" /\ ip'[a].pool = ip[a].pool /\ ip'[a].block = ip[a].block
  BY <1>1 DEF Freed
<1> QED BY <1>1, <1>2, OneFreed DEF ForceCancelPublicIp

LEMMA ChargeIpBlockRows ==
  ASSUME TypeOK, Rows, Members, PoolsKept, NEW c \in Blocks, ChargeIpBlock(c)
  PROVE  Rows' /\ Members'
<1>1. Rows'
  BY RowKept DEF ChargeIpBlock, Rows
<1>2. PICK s \in {"active", "suspended"} : block' = [block EXCEPT ![c].status = s]
  BY DEF ChargeIpBlock
<1>3. ASSUME NEW b \in Blocks
      PROVE  /\ block'[b].user = block[b].user /\ block'[b].pool = block[b].pool
             /\ block'[b].cidr = block[b].cidr
             /\ block[b].status \in {"active", "suspended"} => block'[b].status \in {"active", "suspended"}
  <2>1. CASE b = c
    BY <1>2, <2>1 DEF TypeOK, BlockRow
  <2>2. CASE b # c
    BY <1>2, <2>2 DEF TypeOK
  <2> QED BY <2>1, <2>2
<1>4. UNCHANGED ip
  BY DEF ChargeIpBlock
<1>5. Members'
  BY <1>3, <1>4 DEF Members, MemberOf, WithTheRest, Held
<1> QED BY <1>1, <1>5

LEMMA AddPoolRows ==
  ASSUME TypeOK, Rows, Members, NEW m \in Admins, NEW q, AddPool(m, q)
  PROVE  Rows' /\ Members'
<1>1. \A p \in LivePools : pool'[p] = pool[p] /\ p \in LivePools'
  BY DEF AddPool, LivePools, TypeOK
<1>2. UNCHANGED <<ip, block>>
  BY DEF AddPool
<1>3. Rows'
  BY <1>1, <1>2 DEF Rows, RowOf, Held
<1>4. Members'
  BY <1>2 DEF Members, MemberOf, WithTheRest, Held
<1> QED BY <1>3, <1>4

(* Every step keeps rows and blocks together. *)
LEMMA RowsStep ==
  ASSUME TypeOK, PoolInv, ReqInv, Rows, Members, [Next]_vars
  PROVE  Rows' /\ Members'
<1>1. ASSUME PoolsKept, NEW r \in Requests, Purchases(r) PROVE Rows' /\ Members'
  <2>1. ASSUME CommitSingle(r) PROVE Rows' /\ Members'
    BY <1>1, <2>1, CommitSingleRows
  <2>2. ASSUME NEW b \in Blocks, CommitBlock(r, b) PROVE Rows' /\ Members'
    BY <1>1, <2>2, CommitBlockRows
  <2>3. ASSUME UNCHANGED <<ip, block>> PROVE Rows' /\ Members'
    BY <1>1, <2>3, NothingTouched
  <2> QED BY <1>1, <2>1, <2>2, <2>3
      DEF Purchases, ChooseFirstAvailable, ChoosePublicIp, ChooseGrantIp, ChooseIpBlock,
          ChooseGrantBlock, Rollback
<1>2. ASSUME PoolsKept, NEW u \in Users, Holdings(u) PROVE Rows' /\ Members'
  <2>1. ASSUME NEW b \in Blocks, ReleaseIpBlock(u, b) PROVE Rows' /\ Members'
    BY <1>2, <2>1, FreeMembersRows DEF ReleaseIpBlock
  <2>2. ASSUME NEW t \in Tunnels, DeleteTunnel(u, t) PROVE Rows' /\ Members'
    BY <1>2, <2>2, NothingTouched DEF DeleteTunnel
  <2> QED BY <1>2, <2>1, <2>2, ReleasePublicIpRows, MoveIpRows, MoveIpBlockRows DEF Holdings
<1>3. ASSUME PoolsKept, Scheduler PROVE Rows' /\ Members'
  <2>1. ASSUME NEW b \in Blocks, ForceCancelIpBlock(b) PROVE Rows' /\ Members'
    BY <1>3, <2>1, FreeMembersRows DEF ForceCancelIpBlock
  <2>2. ASSUME NEW x, ListExpired(x) PROVE Rows' /\ Members'
    BY <1>3, <2>2, NothingTouched DEF ListExpired
  <2> QED BY <1>3, <2>1, <2>2, ChargePublicIpRows, ForceCancelPublicIpRows, ChargeIpBlockRows,
             ForceCancelTunnelRows DEF Scheduler
<1>4. ASSUME PoolsKept, NEW m \in Admins, Administration(m) PROVE Rows' /\ Members'
  <2>1. ASSUME UNCHANGED <<ip, block>> PROVE Rows' /\ Members'
    BY <1>4, <2>1, NothingTouched
  <2> QED BY <1>4, <2>1, AddPoolRows, DeletePoolRows
      DEF Administration, AddSalePlan, CheckAddPool, CheckAddPlan, CheckDeletePool, CheckDeletePlan, Check,
          DeleteSalePlan, GiveUp
<1>5. ASSUME UNCHANGED vars, PoolsKept PROVE Rows' /\ Members'
  BY <1>5, NothingTouched DEF vars
<1>6. ASSUME PoolsKept PROVE Rows' /\ Members'
  BY <1>1, <1>2, <1>3, <1>4, <1>5, <1>6, SetSaleModeRows DEF Next
<1> QED BY <1>6, AddPoolRows, DeletePoolRows, PoolsStep

------------------------------------------------------------------------------
(* The invariant *)

LEMMA InitInv ==
  ASSUME Init
  PROVE  Inv
<1>1. TypeOK
  BY DEF Init, TypeOK, Row, NoRow, BlockRow, PoolRow, Cidr, NoCidr, Task, NoTask, Plan, Request, Idle
<1>2. PoolInv /\ PlanInv /\ TaskInv
  BY DEF Init, PoolInv, PlanInv, LivePools, TaskInv, NoTask
<1>3. Rows
  BY DEF Init, Rows, RowOf, NoRow, Held
<1>4. Members
  BY InventoryAssumptions DEF Init, Members, NoRow
<1>5. ReqInv
  BY DEF Init, ReqInv, Idle
<1> QED BY <1>1, <1>2, <1>3, <1>4, <1>5, RowsAre DEF Inv

LEMMA InvStep ==
  ASSUME Inv, [Next]_vars
  PROVE  Inv'
<1>1. TypeOK' /\ PoolInv' /\ PlanInv' /\ TaskInv' /\ ReqInv'
  BY TypeStep, PoolInvStep, PlanInvStep, TaskInvStep, ReqInvStep DEF Inv
<1>2. Rows /\ Members
  BY RowsAre DEF Inv
<1>3. Rows' /\ Members'
  BY <1>2, RowsStep DEF Inv
<1>4. (RowInv /\ BlockInv /\ BlocksStayWhole)'
  BY <1>3 DEF Rows, Members, RowInv, BlockInv, BlocksStayWhole, RowOf, MemberOf, WithTheRest, MembersOf
<1> QED BY <1>1, <1>4 DEF Inv

(* The inductive invariant holds in every state, whatever operations of      *)
(* customers, scheduler and administrator interleave.                        *)
THEOREM Invariance == Spec => []Inv
<1>1. Init => Inv
  BY InitInv
<1>2. Inv /\ [Next]_vars => Inv'
  BY InvStep
<1> QED BY <1>1, <1>2, PTL DEF Spec

(* The rows, requests and tasks keep the shape the code gives them, whatever *)
(* interleaves.                                                              *)
THEOREM TypeCorrect == Spec => []TypeOK
<1>1. Inv => TypeOK
  BY DEF Inv
<1> QED BY <1>1, Invariance, PTL

(* However purchases, moves, releases, cancellations and deletions of pools  *)
(* interleave, the held members of a block stay with the user of the block   *)
(* and on one tunnel of that user.                                           *)
THEOREM BlocksStayWholeTheorem == Spec => []BlocksStayWhole
<1>1. Inv => BlocksStayWhole
  BY DEF Inv
<1> QED BY <1>1, Invariance, PTL

(* No address is on sale twice, in one pool or across pools, but for a plan  *)
(* whose check was stale when it was inserted: the overlap tests of addPool  *)
(* and addSalePlan are enough for requests that do not cross.                *)
THEOREM SoldOneWayTheorem == Spec => []SoldOneWay
<1>1. Init => SoldOneWay
  BY DEF Init, SoldOneWay
<1>2. Inv /\ SoldOneWay /\ [Next]_vars => SoldOneWay'
  BY SoldOneWayStep DEF Inv
<1> QED BY <1>1, <1>2, Invariance, PTL DEF Spec

------------------------------------------------------------------------------
(* The counters of the pools                                               *)
(*                                                                         *)
(* What the operations to come may still count down on a pool: one for     *)
(* every address held as a single, and the size of every block that is     *)
(* sold and was never given back, whoever holds its addresses by now.      *)

Open(b) == block[b].status \in {"active", "suspended"} /\ b \notin ended
Singles(p) == {a \in Addresses : ip[a].pool = p /\ Held(a) /\ ip[a].block = NoBlock}
SoldOf(p) == {b \in Blocks : Open(b) /\ block[b].pool = p}
Sizes == [b \in Blocks |-> block[b].cidr.size]
Owed(p) == Cardinality(Singles(p)) + Sum(Sizes, SoldOf(p))

(* A block that was given back keeps no members, and is not sold again. *)
EndInv ==
  \A b \in Blocks :
    /\ block[b].status = "released" => b \in ended
    /\ b \in ended => block[b].status # "none" /\ MembersOf(b) = {}

SoldInv ==
  \A b \in Blocks : Open(b) =>
    block[b].pool \in Pools /\ pool[block[b].pool].status # "none" /\ block[b].cidr.size > 0

CountersOf(p) ==
  /\ pool[p].available + pool[p].allocated = pool[p].cidr.size
  /\ pool[p].allocated >= Owed(p)
CountInv == \A p \in LivePools \ recounted : ~Repooled(p) => CountersOf(p)

Books == EndInv /\ SoldInv /\ CountInv

LEMMA AddrsFinite ==
  ASSUME NEW c \in Cidr
  PROVE  IsFiniteSet(Addrs(c)) /\ (c.size > 0 => Cardinality(Addrs(c)) = c.size)
<1>1. IsFiniteSet(Addrs(c))
  BY FS_Interval DEF Addrs, Cidr
<1>2. ASSUME c.size > 0 PROVE Cardinality(Addrs(c)) = c.size
  BY <1>2, FS_Interval DEF Addrs, Cidr
<1> QED BY <1>1, <1>2

------------------------------------------------------------------------------
(* How what is owed changes with the singles and with the sold blocks. *)

LEMMA SinglesFinite ==
  ASSUME TypeOK, Rows, NEW p \in Pools
  PROVE  IsFiniteSet(Singles(p)) /\ Cardinality(Singles(p)) \in Nat
<1>1. Singles(p) \subseteq Addrs(pool[p].cidr)
  BY DEF Singles, Rows, RowOf, Held
<1>2. IsFiniteSet(Addrs(pool[p].cidr))
  BY AddrsFinite DEF TypeOK, PoolRow
<1> QED BY <1>1, <1>2, FS_Subset, FS_CardinalityType

LEMMA SinglesKept ==
  ASSUME TypeOK, Rows, NEW p \in Pools, Singles(p)' \subseteq Singles(p)
  PROVE  Cardinality(Singles(p)') \in Nat /\ Cardinality(Singles(p)') <= Cardinality(Singles(p))
  BY SinglesFinite, FS_Subset, FS_CardinalityType

LEMMA SinglesOneMore ==
  ASSUME TypeOK, Rows, NEW p \in Pools, NEW a, Singles(p)' \subseteq Singles(p) \union {a}
  PROVE  Cardinality(Singles(p)') \in Nat /\ Cardinality(Singles(p)') <= Cardinality(Singles(p)) + 1
<1> DEFINE S == Singles(p)
           T == Singles(p)'
<1>1. IsFiniteSet(S) /\ Cardinality(S) \in Nat
  BY SinglesFinite
<1>2. T \subseteq S \union {a}
  OBVIOUS
<1> HIDE DEF S, T
<1>3. /\ IsFiniteSet(S \union {a}) /\ Cardinality(S \union {a}) <= Cardinality(S) + 1
      /\ Cardinality(S \union {a}) \in Nat
  <2>1. /\ IsFiniteSet(S \union {a})
        /\ Cardinality(S \union {a}) = IF a \in S THEN Cardinality(S) ELSE Cardinality(S) + 1
    BY <1>1, FS_AddElement
  <2> QED BY <1>1, <2>1
<1>4. IsFiniteSet(T) /\ Cardinality(T) <= Cardinality(S \union {a})
  BY <1>2, <1>3, FS_Subset
<1>5. Cardinality(T) \in Nat
  BY <1>4, FS_CardinalityType
<1>6. Cardinality(T) <= Cardinality(S) + 1
  BY <1>1, <1>3, <1>4, <1>5
<1> QED BY <1>5, <1>6 DEF S, T

LEMMA SinglesOneLess ==
  ASSUME TypeOK, Rows, NEW p \in Pools, NEW a \in Singles(p), Singles(p)' \subseteq Singles(p) \ {a}
  PROVE  Cardinality(Singles(p)') \in Nat /\ Cardinality(Singles(p)') <= Cardinality(Singles(p)) - 1
<1> DEFINE S == Singles(p)
           T == Singles(p)'
<1>1. IsFiniteSet(S) /\ Cardinality(S) \in Nat
  BY SinglesFinite
<1>2. T \subseteq S \ {a} /\ a \in S
  OBVIOUS
<1> HIDE DEF S, T
<1>3. IsFiniteSet(S \ {a}) /\ Cardinality(S \ {a}) = Cardinality(S) - 1
  BY <1>1, <1>2, FS_RemoveElement
<1>4. IsFiniteSet(T) /\ Cardinality(T) <= Cardinality(S \ {a})
  BY <1>2, <1>3, FS_Subset
<1>5. Cardinality(T) \in Nat
  BY <1>4, FS_CardinalityType
<1>6. Cardinality(T) <= Cardinality(S) - 1
  BY <1>3, <1>4
<1> QED BY <1>5, <1>6 DEF S, T

LEMMA SoldFinite ==
  ASSUME TypeOK, SoldInv, NEW p
  PROVE  /\ IsFiniteSet(SoldOf(p))
         /\ \A b \in SoldOf(p) : Sizes[b] \in Nat
         /\ Sum(Sizes, SoldOf(p)) \in Nat
<1>1. IsFiniteSet(SoldOf(p))
  BY InventoryAssumptions, FS_Subset DEF SoldOf
<1>2. \A b \in SoldOf(p) : Sizes[b] \in Nat
  BY DEF SoldOf, SoldInv, Sizes, TypeOK, BlockRow, Cidr
<1> QED BY <1>1, <1>2, SumNat

LEMMA SoldKept ==
  ASSUME TypeOK, SoldInv, NEW p, SoldOf(p)' \subseteq SoldOf(p),
         \A b \in SoldOf(p)' : block'[b].cidr = block[b].cidr
  PROVE  Sum(Sizes, SoldOf(p))' \in Nat /\ Sum(Sizes, SoldOf(p))' <= Sum(Sizes, SoldOf(p))
<1> DEFINE S == SoldOf(p)
           T == SoldOf(p)'
           f == Sizes
           g == Sizes'
<1>1. IsFiniteSet(S) /\ (\A b \in S : f[b] \in Nat) /\ Sum(f, S) \in Nat
  BY SoldFinite
<1>2. T \in SUBSET S
  OBVIOUS
<1>3. \A b \in T : g[b] = f[b]
  BY DEF SoldOf, Sizes
<1>0. Sum(Sizes, SoldOf(p))' = Sum(g, T)
  OBVIOUS
<1> HIDE DEF S, T, f, g
<1>4. IsFiniteSet(T)
  BY <1>1, <1>2, FS_Subset
<1>5. Sum(g, T) = Sum(f, T)
  BY <1>2, <1>3, <1>4, SumSame
<1>6. Sum(f, T) <= Sum(f, S) /\ Sum(f, T) \in Nat
  BY <1>1, <1>2, <1>4, SumSubset, SumNat
<1>7. Sum(g, T) \in Nat /\ Sum(g, T) <= Sum(f, S)
  BY <1>5, <1>6
<1> QED BY <1>0, <1>7 DEF S, f

(* The blocks that were sold keep their sizes. *)
SizesKept(p) == \A b \in SoldOf(p) : block'[b].cidr = block[b].cidr

LEMMA SoldOneMore ==
  ASSUME TypeOK, SoldInv, NEW p, NEW c \in Blocks, c \notin SoldOf(p),
         SoldOf(p)' \subseteq SoldOf(p) \union {c}, SizesKept(p), NEW n \in Nat, block'[c].cidr.size = n
  PROVE  Sum(Sizes, SoldOf(p))' \in Nat /\ Sum(Sizes, SoldOf(p))' <= Sum(Sizes, SoldOf(p)) + n
<1> DEFINE S == SoldOf(p)
           T == SoldOf(p)'
           f == Sizes
           g == Sizes'
<1>1. IsFiniteSet(S) /\ (\A b \in S : f[b] \in Nat) /\ Sum(f, S) \in Nat
  BY SoldFinite
<1>2. T \subseteq S \union {c} /\ c \notin S
  OBVIOUS
<1>3. (\A b \in S : g[b] = f[b]) /\ g[c] = n
  BY DEF SizesKept, SoldOf, Sizes
<1>0. Sum(Sizes, SoldOf(p))' = Sum(g, T)
  OBVIOUS
<1> HIDE DEF S, T, f, g
<1>4. IsFiniteSet(S \union {c}) /\ IsFiniteSet(T)
  <2>1. IsFiniteSet(S \union {c})
    BY <1>1, FS_AddElement
  <2> QED BY <1>2, <2>1, FS_Subset
<1>5. Sum(g, S) = Sum(f, S)
  BY <1>1, <1>3, SumSame
<1>6. \A b \in S \union {c} : g[b] \in Nat /\ g[b] \in Int
  BY <1>1, <1>3
<1>7. Sum(g, S \union {c}) = n + Sum(g, S)
  BY <1>1, <1>2, <1>3, <1>6, SumAdd
<1>8. Sum(g, T) <= Sum(g, S \union {c}) /\ Sum(g, T) \in Nat
  <2>1. Sum(g, T) <= Sum(g, S \union {c})
    BY <1>2, <1>4, <1>6, SumSubset
  <2>2. \A b \in T : g[b] \in Nat
    BY <1>2, <1>6
  <2> QED BY <1>4, <2>1, <2>2, SumNat
<1>9. Sum(g, T) <= Sum(f, S) + n
  BY <1>1, <1>5, <1>7, <1>8
<1> QED BY <1>0, <1>8, <1>9 DEF S, f

LEMMA SoldOneLess ==
  ASSUME TypeOK, SoldInv, NEW p, NEW c \in SoldOf(p), SoldOf(p)' \subseteq SoldOf(p) \ {c}, SizesKept(p)
  PROVE  Sum(Sizes, SoldOf(p))' \in Nat
         /\ Sum(Sizes, SoldOf(p))' <= Sum(Sizes, SoldOf(p)) - block[c].cidr.size
<1> DEFINE S == SoldOf(p)
           T == SoldOf(p)'
           f == Sizes
           g == Sizes'
           n == block[c].cidr.size
<1>1. IsFiniteSet(S) /\ (\A b \in S : f[b] \in Nat) /\ Sum(f, S) \in Nat
  BY SoldFinite
<1>2. T \subseteq S \ {c} /\ c \in S
  OBVIOUS
<1>3. (\A b \in S : g[b] = f[b]) /\ f[c] = n
  BY DEF SizesKept, SoldOf, Sizes
<1>0. Sum(Sizes, SoldOf(p))' = Sum(g, T)
  OBVIOUS
<1> HIDE DEF S, T, f, g, n
<1>4. IsFiniteSet(S \ {c}) /\ IsFiniteSet(T)
  <2>1. IsFiniteSet(S \ {c})
    BY <1>1, FS_RemoveElement
  <2> QED BY <1>2, <2>1, FS_Subset
<1>5. Sum(g, T) = Sum(f, T)
  BY <1>2, <1>3, <1>4, SumSame
<1>6. Sum(f, S) = n + Sum(f, S \ {c}) /\ n \in Nat
  <2>1. \A b \in S : f[b] \in Int
    BY <1>1
  <2>2. Sum(f, S) = f[c] + Sum(f, S \ {c})
    BY <1>1, <1>2, <2>1, SumRemove
  <2> QED BY <1>1, <1>2, <1>3, <2>2
<1>7. Sum(f, T) <= Sum(f, S \ {c}) /\ Sum(f, T) \in Nat /\ Sum(f, S \ {c}) \in Nat
  <2>1. \A b \in S \ {c} : f[b] \in Nat
    BY <1>1
  <2>2. \A b \in T : f[b] \in Nat
    BY <1>2, <2>1
  <2> QED BY <1>2, <1>4, <2>1, <2>2, SumSubset, SumNat
<1>8. Sum(g, T) <= Sum(f, S) - n /\ Sum(g, T) \in Nat
  BY <1>1, <1>5, <1>6, <1>7
<1> QED BY <1>0, <1>8 DEF S, f, n

(* A pool that owes at most as much more as it counts still counts enough. *)
LEMMA Counting ==
  ASSUME TypeOK, NEW p \in LivePools, CountersOf(p), NEW x, NEW n \in Int, Count(x, n),
         Owed(p) \in Nat, Owed(p)' \in Nat, Owed(p)' <= Owed(p) + (IF p = x THEN n ELSE 0)
  PROVE  CountersOf(p)'
<1>0. p \in Pools /\ pool[p].status = "live" /\ pool[p] \in PoolRow
  BY DEF LivePools, TypeOK
<1> DEFINE o == Owed(p)
           oo == Owed(p)'
<1>1. CASE p = x
  <2>1. pool'[p] = Counted(p, n)
    BY <1>0, <1>1 DEF Count
  <2>2. pool'[p].cidr = pool[p].cidr /\ pool'[p].available = pool[p].available - n
        /\ pool'[p].allocated = IF pool[p].allocated + n < 0 THEN 0 ELSE pool[p].allocated + n
    BY <2>1 DEF Counted
  <2>3. /\ pool[p].available + pool[p].allocated = pool[p].cidr.size /\ pool[p].allocated >= o
        /\ o \in Nat /\ oo \in Nat /\ oo <= o + n
    BY <1>1 DEF CountersOf
  <2>4. pool[p].available \in Int /\ pool[p].allocated \in Nat /\ pool[p].cidr.size \in Int
    BY <1>0 DEF PoolRow, Cidr
  <2> HIDE DEF o, oo
  <2>5. pool'[p].available + pool'[p].allocated = pool'[p].cidr.size /\ pool'[p].allocated >= oo
    BY <2>2, <2>3, <2>4
  <2> QED BY <2>5 DEF CountersOf, oo
<1>2. CASE p # x
  <2>1. pool'[p] = pool[p]
    BY <1>0, <1>2 DEF Count
  <2>2. pool[p].allocated >= o /\ o \in Nat /\ oo \in Nat /\ oo <= o /\ pool[p].allocated \in Nat
    BY <1>0, <1>2 DEF CountersOf, PoolRow
  <2> HIDE DEF o, oo
  <2>3. pool[p].allocated >= oo
    BY <2>2
  <2> QED BY <2>1, <2>3 DEF CountersOf, oo
<1> QED BY <1>1, <1>2

(* A pool that counts as before and owes no more. *)
LEMMA NotCounting ==
  ASSUME TypeOK, NEW p \in LivePools, CountersOf(p), pool'[p] = pool[p],
         Owed(p) \in Nat, Owed(p)' \in Nat, Owed(p)' <= Owed(p)
  PROVE  CountersOf(p)'
<1> DEFINE o == Owed(p)
           oo == Owed(p)'
<1>1. pool[p].allocated >= o /\ o \in Nat /\ oo \in Nat /\ oo <= o /\ pool[p].allocated \in Nat
  BY DEF CountersOf, LivePools, TypeOK, PoolRow
<1> HIDE DEF o, oo
<1>2. pool[p].allocated >= oo
  BY <1>1
<1> QED BY <1>2 DEF CountersOf, oo

LEMMA OwedNat ==
  ASSUME TypeOK, Rows, SoldInv, NEW p \in Pools
  PROVE  Owed(p) \in Nat
  BY SinglesFinite, SoldFinite DEF Owed

------------------------------------------------------------------------------
(* What a step does to rows and blocks, where the books look at them. *)

(* A row leaves its block or stays in it, and nobody gets a single. *)
RowCalm(a) ==
  /\ ip'[a].block \in {ip[a].block, NoBlock}
  /\ ip'[a].status \in {"allocated", "suspended"} /\ ip'[a].block = NoBlock =>
       Held(a) /\ ip[a].block = NoBlock /\ ip'[a].pool = ip[a].pool
RowsCalm == \A a \in Addresses : RowCalm(a)

(* No block is sold, one that ends has no members, and none is forgotten. *)
BlockCalm(b) ==
  /\ Open(b)' => Open(b) /\ block'[b].pool = block[b].pool /\ block'[b].cidr = block[b].cidr
  /\ block[b].status # "none" => block'[b].status # "none"
  /\ block'[b].status = "released" => block[b].status = "released" \/ b \in ended'
  /\ b \in ended => b \in ended'
  /\ b \in ended' => b \in ended \/ (block'[b].status # "none" /\ MembersOf(b)' = {})
BlocksCalm == \A b \in Blocks : BlockCalm(b)

LEMMA SameRow ==
  ASSUME NEW a \in Addresses,
         ip'[a].block = ip[a].block, ip'[a].pool = ip[a].pool, ip'[a].status \in {"allocated", "suspended"} => Held(a)
  PROVE  RowCalm(a)
  BY DEF RowCalm, Held

LEMMA FreedRow ==
  ASSUME NEW a \in Addresses, ip'[a].block \in {ip[a].block, NoBlock},
         ip'[a].status \notin {"allocated", "suspended"}
  PROVE  RowCalm(a)
  BY DEF RowCalm

LEMMA FreeMembersRowsCalm ==
  ASSUME TypeOK, NEW c \in Blocks, NEW d \in BOOLEAN, FreeMembers(c, d)
  PROVE  RowsCalm /\ \A a \in Addresses : ip'[a].block # c
<1>1. ASSUME NEW a \in Addresses, ip[a].block = c
      PROVE  ip'[a].status = "available" /\ ip'[a].block = NoBlock
  <2>1. ip'[a] = Freed(a, NoBlock, ip[a].due /\ ~d)
    BY <1>1 DEF FreeMembers
  <2> QED BY <2>1 DEF Freed
<1>2. ASSUME NEW a \in Addresses, ip[a].block # c PROVE ip'[a] = ip[a]
  BY <1>2 DEF FreeMembers
<1>3. ASSUME NEW a \in Addresses PROVE RowCalm(a) /\ ip'[a].block # c
  BY <1>1, <1>2, SameRow, FreedRow, InventoryAssumptions DEF Held
<1> QED BY <1>3 DEF RowsCalm

LEMMA UnchangedRows ==
  ASSUME UNCHANGED ip
  PROVE  RowsCalm
  BY DEF RowsCalm, RowCalm, Held

LEMMA ForceCancelRowsCalm ==
  ASSUME TypeOK, NEW c \in Addresses, ForceCancelPublicIp(c)
  PROVE  RowsCalm /\ ip'[c].status = "available"
<1>1. ip'[c] = Freed(c, ip[c].block, FALSE) /\ \A x \in Addresses : x # c => ip'[x] = ip[x]
  BY DEF ForceCancelPublicIp, TypeOK
<1>2. ip'[c].status = "available" /\ ip'[c].block = ip[c].block
  BY <1>1 DEF Freed
<1>3. ASSUME NEW a \in Addresses PROVE RowCalm(a)
  BY <1>1, <1>2, SameRow, FreedRow DEF Held
<1> QED BY <1>2, <1>3 DEF RowsCalm

LEMMA ReleaseRowsCalm ==
  ASSUME TypeOK, NEW u, NEW c \in Addresses, ReleasePublicIp(u, c)
  PROVE  RowsCalm /\ ip'[c].status = "available"
<1>1. ip'[c] = Freed(c, NoBlock, ip[c].due) /\ \A x \in Addresses : x # c => ip'[x] = ip[x]
  BY DEF ReleasePublicIp, TypeOK
<1>2. ip'[c].status = "available" /\ ip'[c].block = NoBlock
  BY <1>1 DEF Freed
<1>3. ASSUME NEW a \in Addresses PROVE RowCalm(a)
  BY <1>1, <1>2, SameRow, FreedRow DEF Held
<1> QED BY <1>2, <1>3 DEF RowsCalm

LEMMA RowsCalmStep ==
  ASSUME TypeOK, [Next]_vars, \A r \in Requests : ~CommitSingle(r) /\ \A b \in Blocks : ~CommitBlock(r, b)
  PROVE  RowsCalm
<1>1. ASSUME NEW r \in Requests, Purchases(r) PROVE RowsCalm
  BY <1>1, UnchangedRows
  DEF Purchases, ChoosePublicIp, ChooseFirstAvailable, ChooseIpBlock, ChooseGrantIp, ChooseGrantBlock, Rollback
<1>2. ASSUME NEW u \in Users, NEW x \in Addresses, NEW t \in Tunnels \union {Detached}, MoveIp(u, x, t)
      PROVE  RowsCalm
  <2>1. ASSUME NEW a \in Addresses PROVE RowCalm(a)
    <3>1. ip[a] \in Row /\ (ip'[a] = ip[a] \/ ip'[a] = [ip[a] EXCEPT !.tunnel = t])
      BY <1>2 DEF MoveIp, TypeOK
    <3>2. ip'[a].block = ip[a].block /\ ip'[a].pool = ip[a].pool /\ ip'[a].status = ip[a].status
      BY <3>1 DEF Row
    <3> QED BY <3>2, SameRow DEF Held
  <2> QED BY <2>1 DEF RowsCalm
<1>3. ASSUME NEW u \in Users, NEW b \in Blocks, NEW t \in Tunnels \union {Detached}, MoveIpBlock(u, b, t)
      PROVE  RowsCalm
  <2>1. ASSUME NEW a \in Addresses PROVE RowCalm(a)
    <3>1. ip[a] \in Row /\ (ip'[a] = ip[a] \/ ip'[a] = [ip[a] EXCEPT !.tunnel = t])
      BY <1>3 DEF MoveIpBlock, TypeOK
    <3>2. ip'[a].block = ip[a].block /\ ip'[a].pool = ip[a].pool /\ ip'[a].status = ip[a].status
      BY <3>1 DEF Row
    <3> QED BY <3>2, SameRow DEF Held
  <2> QED BY <2>1 DEF RowsCalm
<1>4. ASSUME NEW u \in Users, NEW b \in Blocks, ReleaseIpBlock(u, b) PROVE RowsCalm
  BY <1>4, FreeMembersRowsCalm DEF ReleaseIpBlock
<1>5. ASSUME NEW u \in Users, Holdings(u) PROVE RowsCalm
  BY <1>2, <1>3, <1>4, <1>5, ReleaseRowsCalm, UnchangedRows DEF Holdings, DeleteTunnel
<1>6. ASSUME NEW x \in Addresses, ChargePublicIp(x) PROVE RowsCalm
  <2>1. PICK s \in {"suspended", "allocated"}, d \in BOOLEAN :
          ip' = [ip EXCEPT ![x].status = s, ![x].due = d]
    BY <1>6 DEF ChargePublicIp
  <2>2. ASSUME NEW a \in Addresses PROVE RowCalm(a)
    <3>1. CASE a = x
      <4>1. ip'[a].block = ip[a].block /\ ip'[a].pool = ip[a].pool /\ Held(a)
        BY <1>6, <2>1, <3>1 DEF ChargePublicIp, TypeOK, Row
      <4> QED BY <4>1, SameRow
    <3>2. CASE a # x
      BY <2>1, <3>2, SameRow DEF TypeOK, Held
    <3> QED BY <3>1, <3>2
  <2> QED BY <2>2 DEF RowsCalm
<1>7. ASSUME NEW t \in Tunnels, ForceCancelTunnel(t) PROVE RowsCalm
  <2>1. ASSUME NEW a \in Addresses PROVE RowCalm(a)
    <3>1. ip[a] \in Row /\ (ip'[a] = ip[a] \/ ip'[a] = [ip[a] EXCEPT !.tunnel = Detached])
      BY <1>7 DEF ForceCancelTunnel, TypeOK
    <3>2. ip'[a].block = ip[a].block /\ ip'[a].pool = ip[a].pool /\ ip'[a].status = ip[a].status
      BY <3>1 DEF Row
    <3> QED BY <3>2, SameRow DEF Held
  <2> QED BY <2>1 DEF RowsCalm
<1>8. ASSUME Scheduler PROVE RowsCalm
  BY <1>6, <1>7, <1>8, ForceCancelRowsCalm, FreeMembersRowsCalm, UnchangedRows
  DEF Scheduler, ChargeIpBlock, ListExpired, ForceCancelIpBlock
<1>9. ASSUME NEW m \in Admins, DeletePool(m) PROVE RowsCalm
  <2>1. ASSUME NEW a \in Addresses PROVE RowCalm(a)
    <3>1. ip'[a] = NoRow \/ ip'[a] = ip[a]
      BY <1>9 DEF DeletePool
    <3> QED BY <3>1, SameRow, FreedRow DEF NoRow, Held
  <2> QED BY <2>1 DEF RowsCalm
<1>10. ASSUME NEW m \in Admins, Administration(m) PROVE RowsCalm
  BY <1>9, <1>10, UnchangedRows
  DEF Administration, AddPool, AddSalePlan, CheckAddPool, CheckAddPlan, CheckDeletePool, CheckDeletePlan, Check,
      DeleteSalePlan, GiveUp
<1>11. ASSUME NEW x \in Addresses, SetSaleMode(x) PROVE RowsCalm
  <2>1. PICK p : ip' = [ip EXCEPT ![x] = [status |-> "available", pool |-> p, user |-> Nobody,
                                          tunnel |-> Detached, block |-> NoBlock, due |-> FALSE]]
    BY <1>11 DEF SetSaleMode
  <2>2. ASSUME NEW a \in Addresses PROVE RowCalm(a)
    <3>1. CASE a = x
      <4>1. ip'[a].status = "available" /\ ip'[a].block = NoBlock
        BY <2>1, <3>1 DEF TypeOK
      <4> QED BY <4>1, FreedRow
    <3>2. CASE a # x
      BY <2>1, <3>2, SameRow DEF TypeOK, Held
    <3> QED BY <3>1, <3>2
  <2> QED BY <2>2 DEF RowsCalm
<1> QED BY <1>1, <1>5, <1>8, <1>10, <1>11, UnchangedRows DEF Next, vars

LEMMA UnchangedBlocks ==
  ASSUME UNCHANGED <<block, books>>
  PROVE  BlocksCalm
  BY DEF BlocksCalm, BlockCalm, Open, books

LEMMA FreeMembersBlocksCalm ==
  ASSUME TypeOK, NEW c \in Blocks, NEW d \in BOOLEAN, FreeMembers(c, d)
  PROVE  BlocksCalm
<1>1. block'[c].status = "released" /\ \A b \in Blocks : b # c => block'[b] = block[b]
  BY DEF FreeMembers, TypeOK
<1>2. ended' = ended \union {c}
  BY DEF FreeMembers
<1>3. MembersOf(c)' = {}
  BY FreeMembersRowsCalm DEF MembersOf
<1>4. ASSUME NEW b \in Blocks PROVE BlockCalm(b)
  BY <1>1, <1>2, <1>3 DEF BlockCalm, Open
<1> QED BY <1>4 DEF BlocksCalm

LEMMA BlocksCalmStep ==
  ASSUME TypeOK, EndInv, [Next]_vars, \A r \in Requests, b \in Blocks : ~CommitBlock(r, b)
  PROVE  BlocksCalm
<1>1. ASSUME NEW r \in Requests, Purchases(r) PROVE BlocksCalm
  BY <1>1, UnchangedBlocks
  DEF Purchases, ChoosePublicIp, ChooseFirstAvailable, ChooseIpBlock, ChooseGrantIp, ChooseGrantBlock, Rollback,
      CommitSingle
<1>2. ASSUME NEW u \in Users, Holdings(u) PROVE BlocksCalm
  BY <1>2, UnchangedBlocks, FreeMembersBlocksCalm
  DEF Holdings, ReleasePublicIp, ReleaseIpBlock, MoveIp, MoveIpBlock, DeleteTunnel
<1>3. ASSUME NEW c \in Blocks, ChargeIpBlock(c) PROVE BlocksCalm
  <2>1. PICK s \in {"active", "suspended"} : block' = [block EXCEPT ![c].status = s]
    BY <1>3 DEF ChargeIpBlock
  <2>2. block[c].status \in {"active", "suspended", "released"} /\ ended' = ended
    BY <1>3 DEF ChargeIpBlock, TypeOK, BlockRow, books
  <2>3. ASSUME NEW b \in Blocks PROVE BlockCalm(b)
    <3>1. CASE b = c
      <4>1. block'[b].status = s /\ block'[b].pool = block[b].pool /\ block'[b].cidr = block[b].cidr
        BY <2>1, <3>1 DEF TypeOK, BlockRow
      <4> QED BY <2>2, <3>1, <4>1 DEF BlockCalm, Open, EndInv
    <3>2. CASE b # c
      BY <2>1, <2>2, <3>2 DEF TypeOK, BlockCalm, Open
    <3> QED BY <3>1, <3>2
  <2> QED BY <2>3 DEF BlocksCalm
<1>4. ASSUME NEW a \in Addresses, ForceCancelPublicIp(a) PROVE BlocksCalm
  BY <1>4 DEF ForceCancelPublicIp, BlocksCalm, BlockCalm, Open
<1>5. ASSUME Scheduler PROVE BlocksCalm
  BY <1>3, <1>4, <1>5, UnchangedBlocks, FreeMembersBlocksCalm
  DEF Scheduler, ChargePublicIp, ListExpired, ForceCancelTunnel, ForceCancelIpBlock
<1>6. ASSUME NEW m \in Admins, DeletePool(m) PROVE BlocksCalm
  <2>1. \A b \in Blocks : block'[b] = Purged \/ block'[b] = block[b]
    BY <1>6 DEF DeletePool
  <2>2. ended' = ended /\ Purged.status = "purged"
    BY <1>6 DEF DeletePool, books, Purged
  <2> QED BY <2>1, <2>2 DEF BlocksCalm, BlockCalm, Open
<1>7. ASSUME NEW m \in Admins, Administration(m) PROVE BlocksCalm
  BY <1>6, <1>7, UnchangedBlocks
  DEF Administration, AddPool, AddSalePlan, CheckAddPool, CheckAddPlan, CheckDeletePool, CheckDeletePlan, Check,
      DeleteSalePlan, GiveUp
<1> QED BY <1>1, <1>2, <1>5, <1>7, UnchangedBlocks DEF Next, SetSaleMode, vars, books

------------------------------------------------------------------------------
(* Blocks that ended and blocks that are sold *)

LEMMA MembersLeave ==
  ASSUME RowsCalm, NEW b \in Blocks
  PROVE  MembersOf(b)' \subseteq MembersOf(b)
  BY InventoryAssumptions DEF RowsCalm, RowCalm, MembersOf

LEMMA CommitSingleMembers ==
  ASSUME TypeOK, NEW r \in Requests, CommitSingle(r), NEW b \in Blocks
  PROVE  MembersOf(b)' \subseteq MembersOf(b)
<1> SUFFICES ASSUME NEW a \in Addresses, ip'[a].block = b PROVE ip[a].block = b
  BY DEF MembersOf
<1>1. CASE a = req[r].cidr.net
  <2>1. ip'[a] = Bought(a, r, NoBlock)
    BY <1>1 DEF CommitSingle, TypeOK
  <2>2. ip'[a].block = NoBlock
    BY <2>1 DEF Bought
  <2> QED BY <2>2, InventoryAssumptions
<1>2. CASE a # req[r].cidr.net
  BY <1>2 DEF CommitSingle, TypeOK
<1> QED BY <1>1, <1>2

LEMMA CommitBlockMembers ==
  ASSUME TypeOK, NEW r \in Requests, NEW c \in Blocks, CommitBlock(r, c), NEW b \in Blocks, b # c
  PROVE  MembersOf(b)' \subseteq MembersOf(b)
<1> SUFFICES ASSUME NEW a \in Addresses, ip'[a].block = b PROVE ip[a].block = b
  BY DEF MembersOf
<1>1. CASE a \in Addrs(req[r].cidr)
  <2>1. ip'[a] = Bought(a, r, c)
    BY <1>1 DEF CommitBlock
  <2> QED BY <2>1 DEF Bought
<1>2. CASE a \notin Addrs(req[r].cidr)
  BY <1>2 DEF CommitBlock
<1> QED BY <1>1, <1>2

(* What becomes of the row of a block that is bought, and of the others. *)
LEMMA CommitBlockBlocks ==
  ASSUME TypeOK, NEW r \in Requests, NEW c \in Blocks, CommitBlock(r, c)
  PROVE  /\ block[c].status = "none" /\ UNCHANGED books
         /\ block'[c].status = "active" /\ block'[c].pool = req[r].pool /\ block'[c].cidr = req[r].cidr
         /\ \A b \in Blocks : b # c => block'[b] = block[b]
  BY DEF CommitBlock, TypeOK

LEMMA EndInvStep ==
  ASSUME TypeOK, EndInv, [Next]_vars
  PROVE  EndInv'
<1>1. ASSUME NEW r \in Requests, NEW c \in Blocks, CommitBlock(r, c) PROVE EndInv'
  <2>1. c \notin ended
    BY <1>1 DEF CommitBlock, EndInv
  <2>2. ASSUME NEW b \in Blocks
        PROVE  /\ block'[b].status = "released" => b \in ended'
               /\ b \in ended' => block'[b].status # "none" /\ MembersOf(b)' = {}
    <3>1. CASE b = c
      BY <1>1, <2>1, <3>1, CommitBlockBlocks DEF books
    <3>2. CASE b # c
      BY <1>1, <3>2, CommitBlockBlocks, CommitBlockMembers DEF books, EndInv
    <3> QED BY <3>1, <3>2
  <2> QED BY <2>2 DEF EndInv
<1>2. ASSUME BlocksCalm, \A b \in Blocks : MembersOf(b)' \subseteq MembersOf(b) PROVE EndInv'
  BY <1>2 DEF BlocksCalm, BlockCalm, EndInv
<1>3. CASE \A r \in Requests, b \in Blocks : ~CommitBlock(r, b)
  <2>1. BlocksCalm
    BY <1>3, BlocksCalmStep
  <2> QED BY <1>2, <1>3, <2>1, MembersLeave, CommitSingleMembers, RowsCalmStep
<1> QED BY <1>1, <1>3

(* No pool is forgotten. *)
LEMMA PoolsStayStep ==
  ASSUME TypeOK, [Next]_vars
  PROVE  PoolsStay
<1>1. ASSUME NEW m \in Admins, NEW q \in task[m].plans, AddPool(m, q) PROVE PoolsStay
  <2>1. q.pool \in Pools
    BY TaskPlans
  <2> QED BY <1>1, <2>1 DEF AddPool, TypeOK, PoolsStay
<1>2. ASSUME NEW m \in Admins, DeletePool(m) PROVE PoolsStay
  BY <1>2 DEF DeletePool, TypeOK, PoolsStay
<1>3. ASSUME PoolsKept PROVE PoolsStay
  BY <1>3 DEF PoolsKept, PoolsStay
<1> QED BY <1>1, <1>2, <1>3, PoolsStep

LEMMA SoldStep ==
  ASSUME TypeOK, ReqInv, EndInv, SoldInv, [Next]_vars
  PROVE  SoldInv'
<1>0. PoolsStay
  BY PoolsStayStep
<1>1. ASSUME NEW b \in Blocks, BlockCalm(b), Open(b)'
      PROVE  block'[b].pool \in Pools /\ pool'[block'[b].pool].status # "none" /\ block'[b].cidr.size > 0
  BY <1>0, <1>1 DEF BlockCalm, SoldInv, PoolsStay
<1>2. ASSUME NEW r \in Requests, NEW c \in Blocks, CommitBlock(r, c) PROVE SoldInv'
  <2>1. req[r].pool \in Pools /\ pool[req[r].pool].status # "none" /\ req[r].cidr.size > 0
    BY <1>2, ChosenType DEF CommitBlock, ReqInv, Request
  <2>2. \A b \in Blocks : b # c => (Open(b)' => Open(b)) /\ block'[b] = block[b]
    BY <1>2, CommitBlockBlocks DEF Open, books
  <2>3. block'[c].pool = req[r].pool /\ block'[c].cidr = req[r].cidr
    BY <1>2, CommitBlockBlocks
  <2> QED BY <1>0, <2>1, <2>2, <2>3 DEF SoldInv, PoolsStay
<1>3. CASE \A r \in Requests, b \in Blocks : ~CommitBlock(r, b)
  BY <1>1, <1>3, BlocksCalmStep DEF BlocksCalm, SoldInv
<1> QED BY <1>2, <1>3

------------------------------------------------------------------------------
(* The counters, operation by operation *)

LEMMA SinglesStay ==
  ASSUME RowsCalm, NEW p
  PROVE  Singles(p)' \subseteq Singles(p)
  BY DEF RowsCalm, RowCalm, Singles, Held

LEMMA SoldStay ==
  ASSUME BlocksCalm, NEW p
  PROVE  /\ SoldOf(p)' \subseteq SoldOf(p)
         /\ \A b \in SoldOf(p)' : block'[b].cidr = block[b].cidr
  BY DEF BlocksCalm, BlockCalm, SoldOf

LEMMA OwedLess ==
  ASSUME TypeOK, Rows, SoldInv, RowsCalm, BlocksCalm, NEW p \in Pools
  PROVE  Owed(p)' \in Nat /\ Owed(p)' <= Owed(p)
<1>1. Cardinality(Singles(p)') \in Nat /\ Cardinality(Singles(p)') <= Cardinality(Singles(p))
  BY SinglesStay, SinglesKept
<1>2. Sum(Sizes, SoldOf(p))' \in Nat /\ Sum(Sizes, SoldOf(p))' <= Sum(Sizes, SoldOf(p))
  BY SoldStay, SoldKept
<1>3. Cardinality(Singles(p)) \in Nat /\ Sum(Sizes, SoldOf(p)) \in Nat
  BY SinglesFinite, SoldFinite
<1> QED BY <1>1, <1>2, <1>3 DEF Owed

(* Pools that were recounted, or that follow another, stay so. *)
LEMMA CountsStay ==
  ASSUME TypeOK, CountInv, PoolsKept, recounted \subseteq recounted',
         \A p \in LivePools \ recounted' : ~Repooled(p) /\ CountersOf(p) => CountersOf(p)'
  PROVE  CountInv'
  BY DEF CountInv, PoolsKept, LivePools, Repooled

(* A step that counts nothing and adds nothing to what is owed. *)
LEMMA QuietCounts ==
  ASSUME TypeOK, Rows, SoldInv, CountInv, RowsCalm, BlocksCalm, UNCHANGED pool, recounted \subseteq recounted'
  PROVE  CountInv'
<1>1. PoolsKept
  BY DEF PoolsKept
<1>2. ASSUME NEW p \in LivePools, CountersOf(p) PROVE CountersOf(p)'
  <2>1. Owed(p) \in Nat /\ p \in Pools
    BY OwedNat DEF LivePools
  <2>2. Owed(p)' \in Nat /\ Owed(p)' <= Owed(p)
    BY <2>1, OwedLess
  <2> QED BY <1>2, <2>1, <2>2, NotCounting
<1> QED BY <1>1, <1>2, CountsStay

(* A pool that is not counted on in a step that adds nothing to what is owed. *)
LEMMA CalmCounts ==
  ASSUME TypeOK, Rows, SoldInv, RowsCalm, BlocksCalm, NEW p \in LivePools, CountersOf(p), pool'[p] = pool[p]
  PROVE  CountersOf(p)'
<1>1. Owed(p) \in Nat /\ p \in Pools
  BY OwedNat DEF LivePools
<1>2. Owed(p)' \in Nat /\ Owed(p)' <= Owed(p)
  BY <1>1, OwedLess
<1> QED BY <1>1, <1>2, NotCounting

LEMMA CommitSingleCounts ==
  ASSUME TypeOK, PoolInv, ReqInv, Rows, SoldInv, CountInv, NEW r \in Requests, CommitSingle(r), PoolsKept
  PROVE  CountInv'
<1> DEFINE a == req[r].cidr.net
           c == req[r].pool
<1>1. req[r] \in Request /\ c \in Pools
  BY ChosenType DEF CommitSingle, Request
<1>2. req[r].cidr = Single(a) /\ a \in Addresses /\ pool[c].status # "none" /\ a \in Addrs(pool[c].cidr)
  <2>1. /\ req[r].cidr = Single(a) /\ Addrs(Single(a)) \subseteq Addresses /\ pool[c].status # "none"
        /\ Addrs(Single(a)) \subseteq Addrs(pool[c].cidr)
    BY DEF CommitSingle, ReqInv
  <2>2. a \in Int
    BY <1>1 DEF Request, Cidr
  <2> QED BY <2>1, <2>2, SingleAddrs
<1>3. /\ ip'[a] = Bought(a, r, NoBlock) /\ Count(c, 1) /\ UNCHANGED <<block, books>>
      /\ \A x \in Addresses : x # a => ip'[x] = ip[x]
  BY <1>2 DEF CommitSingle, TypeOK
<1> HIDE DEF a, c
<1>4. ip'[a].pool = c \/ (ip[a].status # "none" /\ ip'[a].pool = ip[a].pool)
  BY <1>3 DEF Bought, c
<1>5. ASSUME NEW p \in LivePools, ~Repooled(p), CountersOf(p) PROVE CountersOf(p)'
  <2>1. p \in Pools /\ Owed(p) \in Nat
    BY OwedNat DEF LivePools
  <2>2. /\ Singles(p)' \subseteq Singles(p) \union {a}
        /\ ip'[a].pool # p => Singles(p)' \subseteq Singles(p)
    BY <1>3 DEF Singles, Held
  <2>3. Sum(Sizes, SoldOf(p))' \in Nat /\ Sum(Sizes, SoldOf(p))' <= Sum(Sizes, SoldOf(p))
    <3>1. BlocksCalm
      BY <1>3, UnchangedBlocks
    <3> QED BY <3>1, SoldStay, SoldKept
  <2>4. Cardinality(Singles(p)) \in Nat /\ Sum(Sizes, SoldOf(p)) \in Nat
    BY <2>1, SinglesFinite, SoldFinite
  <2>5. CASE p = c
    <3>1. Cardinality(Singles(p)') \in Nat /\ Cardinality(Singles(p)') <= Cardinality(Singles(p)) + 1
      BY <2>1, <2>2, SinglesOneMore
    <3>2. Owed(p)' \in Nat /\ Owed(p)' <= Owed(p) + (IF p = c THEN 1 ELSE 0)
      BY <2>3, <2>4, <2>5, <3>1 DEF Owed
    <3> QED BY <1>3, <1>5, <2>1, <3>2, Counting
  <2>6. CASE p # c
    <3>1. ip'[a].pool # p
      <4> SUFFICES ASSUME ip[a].status # "none", ip[a].pool = p PROVE FALSE
        BY <1>4, <2>6
      <4>1. a \in Addrs(pool[p].cidr)
        BY <1>2 DEF Rows, RowOf
      <4>2. c \notin LivePools
        BY <1>2, <2>6, <4>1 DEF PoolInv
      <4>3. pool[c].status = "gone"
        BY <1>1, <1>2, <4>2 DEF LivePools, TypeOK, PoolRow
      <4> QED BY <1>1, <1>2, <1>5, <4>1, <4>3 DEF Repooled, c
    <3>2. Cardinality(Singles(p)') \in Nat /\ Cardinality(Singles(p)') <= Cardinality(Singles(p))
      BY <2>1, <2>2, <3>1, SinglesKept
    <3>3. Owed(p)' \in Nat /\ Owed(p)' <= Owed(p) + (IF p = c THEN 1 ELSE 0)
      BY <2>3, <2>4, <2>6, <3>2 DEF Owed
    <3> QED BY <1>3, <1>5, <2>1, <3>3, Counting
  <2> QED BY <2>5, <2>6
<1> QED BY <1>3, <1>5, CountsStay DEF books

LEMMA CommitBlockCounts ==
  ASSUME TypeOK, ReqInv, Rows, EndInv, SoldInv, CountInv, NEW r \in Requests, NEW b \in Blocks,
         CommitBlock(r, b), PoolsKept
  PROVE  CountInv'
<1> DEFINE c == req[r].pool
           n == req[r].cidr.size
<1>1. c \in Pools /\ n \in Nat
  BY ChosenType DEF CommitBlock, ReqInv, Request, Cidr
<1>2. Count(c, n) /\ recounted' = recounted /\ ended' = ended
  BY DEF CommitBlock, books
<1>3. /\ block[b].status = "none" /\ block'[b].pool = c /\ block'[b].cidr.size = n
      /\ \A x \in Blocks : x # b => block'[x] = block[x]
  BY CommitBlockBlocks
<1>4. ASSUME NEW a \in Addresses PROVE ip'[a] = ip[a] \/ ip'[a].block = b
  <2>1. CASE a \in Addrs(req[r].cidr)
    <3>1. ip'[a] = Bought(a, r, b)
      BY <2>1 DEF CommitBlock
    <3> QED BY <3>1 DEF Bought
  <2>2. CASE a \notin Addrs(req[r].cidr)
    BY <2>2 DEF CommitBlock
  <2> QED BY <2>1, <2>2
<1> HIDE DEF c, n
<1>5. ASSUME NEW p \in LivePools, CountersOf(p) PROVE CountersOf(p)'
  <2>1. p \in Pools /\ Owed(p) \in Nat
    BY OwedNat DEF LivePools
  <2>2. Singles(p)' \subseteq Singles(p)
    BY <1>4, InventoryAssumptions DEF Singles, Held
  <2>3. Cardinality(Singles(p)') \in Nat /\ Cardinality(Singles(p)') <= Cardinality(Singles(p))
    BY <2>1, <2>2, SinglesKept
  <2>4. Cardinality(Singles(p)) \in Nat /\ Sum(Sizes, SoldOf(p)) \in Nat
    BY <2>1, SinglesFinite, SoldFinite
  <2>5. b \notin SoldOf(p) /\ SizesKept(p)
    BY <1>3 DEF SoldOf, Open, SizesKept
  <2>6. /\ SoldOf(p)' \subseteq SoldOf(p) \union {b}
        /\ p # c => SoldOf(p)' \subseteq SoldOf(p)
    BY <1>2, <1>3 DEF SoldOf, Open
  <2>7. CASE p = c
    <3>1. Sum(Sizes, SoldOf(p))' \in Nat /\ Sum(Sizes, SoldOf(p))' <= Sum(Sizes, SoldOf(p)) + n
      BY <1>1, <1>3, <2>5, <2>6, SoldOneMore
    <3>2. Owed(p)' \in Nat /\ Owed(p)' <= Owed(p) + (IF p = c THEN n ELSE 0)
      BY <1>1, <2>3, <2>4, <2>7, <3>1 DEF Owed
    <3> QED BY <1>1, <1>2, <1>5, <2>1, <3>2, Counting
  <2>8. CASE p # c
    <3>1. Sum(Sizes, SoldOf(p))' \in Nat /\ Sum(Sizes, SoldOf(p))' <= Sum(Sizes, SoldOf(p))
      BY <2>5, <2>6, <2>8, SoldKept DEF SizesKept
    <3>2. Owed(p)' \in Nat /\ Owed(p)' <= Owed(p) + (IF p = c THEN n ELSE 0)
      BY <2>3, <2>4, <2>8, <3>1 DEF Owed
    <3> QED BY <1>1, <1>2, <1>5, <2>1, <3>2, Counting
  <2> QED BY <2>7, <2>8
<1> QED BY <1>2, <1>5, CountsStay

(* A single that its user or the scheduler gives back. *)
LEMMA OneBackCounts ==
  ASSUME TypeOK, Rows, SoldInv, CountInv, PoolsKept, RowsCalm, BlocksCalm, UNCHANGED recounted,
         NEW a \in Addresses, Held(a), ip[a].block = NoBlock, ip'[a].status = "available",
         Count(ip[a].pool, -1)
  PROVE  CountInv'
<1> DEFINE c == ip[a].pool
           n == -1
<1>0. n \in Int /\ Count(c, n)
  OBVIOUS
<1>1. ASSUME NEW p \in LivePools, CountersOf(p) PROVE CountersOf(p)'
  <2>1. p \in Pools /\ Owed(p) \in Nat
    BY OwedNat DEF LivePools
  <2>2. Sum(Sizes, SoldOf(p))' \in Nat /\ Sum(Sizes, SoldOf(p))' <= Sum(Sizes, SoldOf(p))
    BY SoldStay, SoldKept
  <2>3. Cardinality(Singles(p)) \in Nat /\ Sum(Sizes, SoldOf(p)) \in Nat
    BY <2>1, SinglesFinite, SoldFinite
  <2>4. Singles(p)' \subseteq Singles(p) /\ a \notin Singles(p)'
    BY SinglesStay DEF Singles, Held
  <2>5. CASE p = c
    <3>1. a \in Singles(p)
      BY <2>5 DEF Singles
    <3>2. Cardinality(Singles(p)') \in Nat /\ Cardinality(Singles(p)') <= Cardinality(Singles(p)) - 1
      BY <2>1, <2>4, <3>1, SinglesOneLess
    <3>3. Owed(p)' \in Nat /\ Owed(p)' <= Owed(p) + (IF p = c THEN n ELSE 0)
      BY <2>2, <2>3, <2>5, <3>2 DEF Owed
    <3> HIDE DEF c, n
    <3> QED BY <1>0, <1>1, <2>1, <3>3, Counting
  <2>6. CASE p # c
    <3>1. pool'[p] = pool[p]
      BY <2>1, <2>6 DEF Count
    <3> QED BY <1>1, <3>1, CalmCounts
  <2> QED BY <2>5, <2>6
<1> QED BY <1>1, CountsStay

LEMMA ForceCancelPublicIpCounts ==
  ASSUME TypeOK, Rows, SoldInv, CountInv, PoolsKept, BlocksCalm, NEW a \in Addresses, ForceCancelPublicIp(a)
  PROVE  CountInv'
<1>0. RowsCalm /\ ip'[a].status = "available" /\ Count(ip[a].pool, -1)
  BY ForceCancelRowsCalm DEF ForceCancelPublicIp
<1>1. CASE Held(a) /\ ip[a].block = NoBlock
  <2>1. UNCHANGED recounted
    BY <1>1 DEF ForceCancelPublicIp
  <2> QED BY <1>0, <1>1, <2>1, OneBackCounts
<1>2. CASE ~(Held(a) /\ ip[a].block = NoBlock)
  <2>1. recounted' = recounted \union {ip[a].pool}
    BY <1>2 DEF ForceCancelPublicIp
  <2>2. ASSUME NEW p \in LivePools \ recounted', CountersOf(p) PROVE CountersOf(p)'
    <3>1. pool'[p] = pool[p]
      BY <1>0, <2>1, <2>2 DEF Count, LivePools
    <3> QED BY <1>0, <2>2, <3>1, CalmCounts
  <2> QED BY <2>1, <2>2, CountsStay
<1> QED BY <1>1, <1>2

LEMMA FreeMembersCounts ==
  ASSUME TypeOK, Rows, EndInv, SoldInv, CountInv, PoolsKept, NEW b \in Blocks, NEW d \in BOOLEAN,
         FreeMembers(b, d), block[b].status \notin {"none", "purged"}
  PROVE  CountInv'
<1> DEFINE c == block[b].pool
           n == -block[b].cidr.size
<1>0. RowsCalm /\ BlocksCalm
  BY FreeMembersRowsCalm, FreeMembersBlocksCalm
<1>1. n \in Int /\ Count(c, n) /\ block[b].cidr.size \in Int
  BY DEF FreeMembers, TypeOK, BlockRow, Cidr
<1>2. recounted' = IF b \in ended THEN recounted \union {c} ELSE recounted
  BY DEF FreeMembers
<1>3. block'[b].status = "released"
  BY DEF FreeMembers, TypeOK
<1>4. ASSUME NEW p \in LivePools \ recounted', CountersOf(p) PROVE CountersOf(p)'
  <2>1. p \in Pools /\ Owed(p) \in Nat
    BY OwedNat DEF LivePools
  <2>2. CASE p # c
    <3>1. pool'[p] = pool[p]
      BY <1>1, <2>1, <2>2 DEF Count
    <3> QED BY <1>0, <1>4, <3>1, CalmCounts
  <2>3. CASE p = c
    <3>1. b \in SoldOf(p)
      <4>1. b \notin ended
        BY <1>2, <1>4, <2>3
      <4>2. block[b].status \in {"active", "suspended"}
        BY <4>1 DEF EndInv, TypeOK, BlockRow
      <4> QED BY <2>3, <4>1, <4>2 DEF SoldOf, Open
    <3>2. SoldOf(p)' \subseteq SoldOf(p) \ {b}
      BY <1>0, <1>3, SoldStay DEF SoldOf, Open
    <3>3. SizesKept(p)
      BY DEF SizesKept, FreeMembers, TypeOK
    <3>4. Sum(Sizes, SoldOf(p))' \in Nat /\ Sum(Sizes, SoldOf(p))' <= Sum(Sizes, SoldOf(p)) - block[b].cidr.size
      BY <3>1, <3>2, <3>3, SoldOneLess
    <3>5. Cardinality(Singles(p)') \in Nat /\ Cardinality(Singles(p)') <= Cardinality(Singles(p))
      BY <1>0, <2>1, SinglesStay, SinglesKept
    <3>6. Cardinality(Singles(p)) \in Nat /\ Sum(Sizes, SoldOf(p)) \in Nat
      BY <2>1, SinglesFinite, SoldFinite
    <3>7. Sum(Sizes, SoldOf(p))' <= Sum(Sizes, SoldOf(p)) + n
      BY <1>1, <3>4, <3>6
    <3>8. Owed(p)' \in Nat /\ Owed(p)' <= Owed(p) + (IF p = c THEN n ELSE 0)
      <4> HIDE DEF n
      <4> QED BY <1>1, <2>3, <3>4, <3>5, <3>6, <3>7 DEF Owed
    <3> HIDE DEF c, n
    <3> QED BY <1>1, <1>4, <2>1, <3>8, Counting
  <2> QED BY <2>2, <2>3
<1> QED BY <1>2, <1>4, CountsStay

LEMMA DeletePoolCounts ==
  ASSUME TypeOK, Rows, SoldInv, CountInv, RowsCalm, BlocksCalm, NEW m \in Admins, DeletePool(m)
  PROVE  CountInv'
<1>1. \A p \in Pools : p # task[m].pool => pool'[p] = pool[p]
  BY DEF DeletePool, TypeOK
<1>2. \A p \in Pools : p = task[m].pool => pool'[p].status = "gone" /\ pool'[p].cidr = pool[p].cidr
  BY DEF DeletePool, TypeOK
<1>3. recounted' = recounted
  BY DEF DeletePool, books
<1>4. ASSUME NEW p \in Pools, pool'[p].status = "live", p \notin recounted', ~Repooled(p)' PROVE CountersOf(p)'
  <2>1. p # task[m].pool /\ p \in LivePools \ recounted /\ pool'[p] = pool[p]
    BY <1>1, <1>2, <1>3, <1>4 DEF LivePools
  <2>2. ~Repooled(p)
    <3> SUFFICES ASSUME NEW x \in Pools, pool[x].status = "gone",
                        Addrs(pool[x].cidr) \intersect Addrs(pool[p].cidr) # {}
                 PROVE  FALSE
      BY DEF Repooled
    <3>1. pool'[x].status = "gone" /\ pool'[x].cidr = pool[x].cidr
      BY <1>1, <1>2
    <3> QED BY <1>4, <2>1, <3>1 DEF Repooled
  <2> QED BY <2>1, <2>2, CalmCounts DEF CountInv
<1> QED BY <1>4 DEF CountInv, LivePools

LEMMA AddPoolCounts ==
  ASSUME TypeOK, Rows, SoldInv, CountInv, RowsCalm, BlocksCalm, NEW m \in Admins, NEW q \in task[m].plans,
         AddPool(m, q)
  PROVE  CountInv'
<1>1. q \in Plan /\ q.pool \in Pools
  BY TaskPlans
<1>2. /\ pool'[q.pool] = [status |-> "live", cidr |-> q.cidr, available |-> q.cidr.size, allocated |-> 0]
      /\ \A p \in Pools : p # q.pool => pool'[p] = pool[p]
      /\ recounted' = recounted /\ pool[q.pool].status = "none"
  BY <1>1 DEF AddPool, TypeOK, books
<1>3. ASSUME NEW p \in Pools, p # q.pool, pool'[p].status = "live", p \notin recounted', ~Repooled(p)'
      PROVE  CountersOf(p)'
  <2>1. p \in LivePools \ recounted /\ pool'[p] = pool[p]
    BY <1>2, <1>3 DEF LivePools
  <2>2. ~Repooled(p)
    BY <1>2, <1>3, <2>1 DEF Repooled
  <2> QED BY <2>1, <2>2, CalmCounts DEF CountInv
<1>4. CountersOf(q.pool)'
  <2>1. Singles(q.pool) = {} /\ SoldOf(q.pool) = {}
    BY <1>2 DEF Singles, SoldOf, Rows, RowOf, Held, LivePools, SoldInv
  <2>2. Singles(q.pool)' = {} /\ SoldOf(q.pool)' = {}
    BY <2>1, SinglesStay, SoldStay
  <2>3. Sum(Sizes, SoldOf(q.pool))' = 0
    <3> DEFINE g == Sizes'
    <3>1. Sum(Sizes, SoldOf(q.pool))' = Sum(g, {})
      BY <2>2
    <3> HIDE DEF g
    <3> QED BY <3>1, SumEmpty
  <2>4. Owed(q.pool)' = 0
    BY <2>2, <2>3, FS_EmptySet DEF Owed
  <2>5. q.cidr.size \in Int
    BY <1>1 DEF Plan, Cidr
  <2> QED BY <1>2, <2>4, <2>5 DEF CountersOf
<1> QED BY <1>3, <1>4 DEF CountInv, LivePools

LEMMA CountStep ==
  ASSUME TypeOK, PoolInv, ReqInv, Rows, EndInv, SoldInv, CountInv, [Next]_vars
  PROVE  CountInv'
<1> USE DEF books
<1>1. ASSUME NEW m \in Admins, RowsCalm, BlocksCalm, DeletePool(m) \/ \E q \in task[m].plans : AddPool(m, q)
      PROVE  CountInv'
  BY <1>1, DeletePoolCounts, AddPoolCounts
<1>2. ASSUME RowsCalm, BlocksCalm, UNCHANGED <<pool, recounted>> PROVE CountInv'
  BY <1>2, QuietCounts
<1>3. ASSUME PoolsKept, RowsCalm, BlocksCalm, NEW u \in Users, NEW a \in Addresses, ReleasePublicIp(u, a)
      PROVE  CountInv'
  <2>1. /\ Held(a) /\ ip[a].block = NoBlock /\ ip'[a].status = "available" /\ Count(ip[a].pool, -1)
        /\ UNCHANGED recounted
    BY <1>3, ReleaseRowsCalm DEF ReleasePublicIp, Held
  <2> QED BY <1>3, <2>1, OneBackCounts
<1>4. ASSUME PoolsKept, NEW b \in Blocks, ForceCancelIpBlock(b) \/ \E u \in Users : ReleaseIpBlock(u, b)
      PROVE  CountInv'
  BY <1>4, FreeMembersCounts DEF ForceCancelIpBlock, ReleaseIpBlock
<1>5. CASE \E r \in Requests : CommitSingle(r) \/ \E b \in Blocks : CommitBlock(r, b)
  <2>1. ASSUME NEW r \in Requests, CommitSingle(r) PROVE PoolsKept
    BY <2>1, CountKeeps DEF CommitSingle, PoolsKept
  <2>2. ASSUME NEW r \in Requests, NEW b \in Blocks, CommitBlock(r, b) PROVE PoolsKept
    <3>1. req[r].cidr.size \in Int
      BY <2>2, ChosenType DEF CommitBlock, Request, Cidr
    <3> QED BY <2>2, <3>1, CountKeeps DEF CommitBlock, PoolsKept
  <2> QED BY <1>5, <2>1, <2>2, CommitSingleCounts, CommitBlockCounts
<1>6. CASE \A r \in Requests : ~CommitSingle(r) /\ \A b \in Blocks : ~CommitBlock(r, b)
  <2>1. RowsCalm /\ BlocksCalm
    BY <1>6, RowsCalmStep, BlocksCalmStep
  <2>2. CASE \E m \in Admins : DeletePool(m) \/ \E q \in task[m].plans : AddPool(m, q)
    BY <1>1, <2>1, <2>2
  <2>3. CASE \A m \in Admins : ~DeletePool(m) /\ \A q \in task[m].plans : ~AddPool(m, q)
    <3>1. PoolsKept
      BY <2>3, PoolsStep
    <3>2. ASSUME NEW r \in Requests, Purchases(r) PROVE CountInv'
      BY <1>2, <1>6, <2>1, <3>2
      DEF Purchases, ChoosePublicIp, ChooseFirstAvailable, ChooseIpBlock, ChooseGrantIp, ChooseGrantBlock, Rollback
    <3>3. ASSUME NEW u \in Users, Holdings(u) PROVE CountInv'
      BY <1>2, <1>3, <1>4, <2>1, <3>1, <3>3 DEF Holdings, MoveIp, MoveIpBlock, DeleteTunnel
    <3>4. ASSUME Scheduler PROVE CountInv'
      BY <1>2, <1>4, <2>1, <3>1, <3>4, ForceCancelPublicIpCounts
      DEF Scheduler, ChargePublicIp, ChargeIpBlock, ListExpired, ForceCancelTunnel
    <3>5. ASSUME NEW m \in Admins, Administration(m) PROVE CountInv'
      BY <1>2, <2>1, <2>3, <3>5
      DEF Administration, AddSalePlan, CheckAddPool, CheckAddPlan, CheckDeletePool, CheckDeletePlan, Check,
          DeleteSalePlan, GiveUp
    <3> QED BY <1>2, <2>1, <3>2, <3>3, <3>4, <3>5 DEF Next, SetSaleMode, vars
  <2> QED BY <2>2, <2>3
<1> QED BY <1>5, <1>6

------------------------------------------------------------------------------
(* What is owed covers every address that is held: a single counts itself, a *)
(* member of a block is one of the addresses that block was sold with.       *)
LEMMA OwedCoversTaken ==
  ASSUME TypeOK, Rows, BlockInv, EndInv, SoldInv, NEW p \in Pools
  PROVE  Cardinality(Taken(p)) \in Nat /\ Cardinality(Taken(p)) <= Owed(p)
<1> DEFINE S == Singles(p)
           G == SoldOf(p)
           M == Taken(p) \ S
           h == [a \in M |-> ip[a].block]
           one == [a \in M |-> 1]
           zero == [a \in M |-> 0]
           Part(b) == {a \in M : h[a] = b}
           parts == [b \in G |-> Sum(one, Part(b))]
           f == Sizes
<1>1. IsFiniteSet(S) /\ Cardinality(S) \in Nat
  BY SinglesFinite
<1>2. IsFiniteSet(G) /\ (\A b \in G : f[b] \in Nat) /\ Sum(f, G) \in Nat
  BY SoldFinite
<1>3. IsFiniteSet(Taken(p))
  <2>1. Taken(p) \subseteq Addrs(pool[p].cidr)
    BY DEF Taken, Rows, RowOf, Held
  <2>2. IsFiniteSet(Addrs(pool[p].cidr))
    BY AddrsFinite DEF TypeOK, PoolRow
  <2> QED BY <2>1, <2>2, FS_Subset
<1>4. IsFiniteSet(M) /\ Cardinality(M) \in Nat
  <2>1. M \subseteq Taken(p)
    OBVIOUS
  <2> QED BY <1>3, <2>1, FS_Subset, FS_CardinalityType
<1>5. ASSUME NEW a \in M
      PROVE  ip[a].block \in G /\ a \in Addrs(block[ip[a].block].cidr)
  <2>1. a \in Addresses /\ ip[a].pool = p /\ Held(a) /\ ip[a].block # NoBlock
    BY DEF Taken, Singles
  <2>2. ip[a].block \in Blocks
    BY <2>1 DEF TypeOK, Row
  <2>3. a \in MembersOf(ip[a].block)
    BY <2>1 DEF MembersOf
  <2>4. ip[a].block \notin ended
    BY <2>2, <2>3 DEF EndInv
  <2> QED BY <2>1, <2>2, <2>3, <2>4 DEF BlockInv, SoldOf, Open
<1>6. h \in [M -> G]
  BY <1>5
<1>7. ASSUME NEW b \in G PROVE IsFiniteSet(Part(b)) /\ Cardinality(Part(b)) <= f[b] /\ Cardinality(Part(b)) \in Nat
  <2>1. b \in Blocks /\ block[b].cidr \in Cidr /\ block[b].cidr.size > 0 /\ f[b] = block[b].cidr.size
    BY DEF SoldOf, SoldInv, TypeOK, BlockRow, Sizes
  <2>2. Part(b) \subseteq Addrs(block[b].cidr)
    BY <1>5
  <2>3. IsFiniteSet(Addrs(block[b].cidr)) /\ Cardinality(Addrs(block[b].cidr)) = f[b]
    BY <2>1, AddrsFinite
  <2> HIDE DEF Part, f
  <2> QED BY <2>2, <2>3, FS_Subset, FS_CardinalityType
<1>8. \A a \in M : one[a] = 1 /\ zero[a] = 0
  OBVIOUS
<1>9. Sum(parts, G) = Sum(one, M)
  <2>1. Sum([b \in G |-> Sum(one, {a \in M : h[a] = b})], G) = Sum(one, M)
    <3> HIDE DEF M, G, h, one
    <3>1. \A a \in M : one[a] \in Int
      BY <1>8
    <3> QED BY <1>2, <1>4, <1>6, <3>1, SumGroups
  <2> QED BY <2>1
<1>10. PICK up \in Int : up = 1
  OBVIOUS
<1>11. PICK down \in Int : down = -1
  OBVIOUS
<1>12. ASSUME NEW b \in G PROVE parts[b] \in Int /\ f[b] \in Int /\ parts[b] <= f[b]
  <2> DEFINE P == Part(b)
  <2>1. parts[b] = Sum(one, P)
    OBVIOUS
  <2>2. \A a \in P : a \in M
    OBVIOUS
  <2>3. IsFiniteSet(P) /\ Cardinality(P) <= f[b] /\ Cardinality(P) \in Nat
    BY <1>7
  <2>4. f[b] \in Nat
    BY <1>2
  <2> HIDE DEF P, M, one, zero, f, parts
  <2>5. \A a \in P : zero[a] \in Int /\ one[a] \in Int /\ one[a] <= zero[a] + (IF a \in P THEN up ELSE 0)
    BY <1>8, <1>10, <2>2
  <2>6. Sum(one, P) <= Sum(zero, P) + up * Cardinality(P \cap P)
    BY <2>3, <2>5, SumShift
  <2>7. Sum(zero, P) = 0
    BY <1>8, <2>2, <2>3, SumZero
  <2>8. P \cap P = P
    OBVIOUS
  <2>9. Sum(one, P) \in Int
    BY <1>8, <2>2, <2>3, SumInt
  <2>10. Sum(one, P) <= Cardinality(P)
    <3>1. Sum(one, P) <= 0 + up * Cardinality(P)
      BY <2>6, <2>7, <2>8
    <3>2. up * Cardinality(P) = Cardinality(P)
      BY <1>10, <2>3
    <3> QED BY <2>3, <2>9, <3>1, <3>2
  <2> QED BY <2>1, <2>3, <2>4, <2>9, <2>10
<1> HIDE DEF S, M, G, h, one, zero, f, parts, Part
<1>13. Sum(parts, G) <= Sum(f, G)
  BY <1>2, <1>12, SumMonotone
<1>14. Cardinality(M) <= Sum(one, M)
  <2>1. \A a \in M : one[a] \in Int /\ zero[a] \in Int /\ zero[a] <= one[a] + (IF a \in M THEN down ELSE 0)
    BY <1>8, <1>11
  <2>2. Sum(zero, M) <= Sum(one, M) + down * Cardinality(M \cap M)
    BY <1>4, <2>1, SumShift
  <2>3. Sum(zero, M) = 0 /\ Sum(one, M) \in Int /\ M \cap M = M
    BY <1>4, <1>8, SumZero, SumInt
  <2>4. 0 <= Sum(one, M) + down * Cardinality(M)
    BY <2>2, <2>3
  <2>5. down * Cardinality(M) = -Cardinality(M)
    BY <1>4, <1>11
  <2> QED BY <1>4, <2>3, <2>4, <2>5
<1>15. Cardinality(Taken(p)) <= Cardinality(S) + Cardinality(M) /\ Cardinality(Taken(p)) \in Nat
  <2>1. Taken(p) \subseteq S \union M
    BY DEF M
  <2>2. /\ IsFiniteSet(S \union M)
        /\ Cardinality(S \union M) = Cardinality(S) + Cardinality(M) - Cardinality(S \cap M)
    BY <1>1, <1>4, FS_Union
  <2>3. Cardinality(S \cap M) \in Nat
    BY <1>1, FS_Subset, FS_CardinalityType
  <2>4. Cardinality(Taken(p)) <= Cardinality(S \union M)
    BY <2>1, <2>2, FS_Subset
  <2>5. Cardinality(Taken(p)) \in Nat
    BY <1>3, FS_CardinalityType
  <2> QED BY <1>1, <1>4, <2>2, <2>3, <2>4, <2>5
<1>16. Sum(one, M) \in Int
  BY <1>4, <1>8, SumInt
<1>17. Cardinality(Taken(p)) <= Cardinality(S) + Sum(f, G)
  BY <1>1, <1>2, <1>4, <1>9, <1>13, <1>14, <1>15, <1>16
<1>18. Owed(p) = Cardinality(S) + Sum(f, G)
  BY DEF Owed, S, f, G
<1> QED BY <1>15, <1>17, <1>18

LEMMA BooksCountHeld ==
  ASSUME TypeOK, Rows, BlockInv, Books
  PROVE  CountersMatch
<1> SUFFICES ASSUME NEW p \in LivePools \ recounted, ~Repooled(p)
             PROVE  /\ pool[p].available + pool[p].allocated = pool[p].cidr.size
                    /\ pool[p].allocated >= Cardinality(Taken(p))
  BY DEF CountersMatch
<1>1. p \in Pools /\ CountersOf(p) /\ pool[p].allocated \in Nat
  BY DEF Books, CountInv, LivePools, TypeOK, PoolRow
<1>2. Cardinality(Taken(p)) \in Nat /\ Cardinality(Taken(p)) <= Owed(p) /\ Owed(p) \in Nat
  BY <1>1, OwedCoversTaken, OwedNat DEF Books
<1> QED BY <1>1, <1>2 DEF CountersOf

LEMMA InitBooks ==
  ASSUME Init
  PROVE  Books
  BY InventoryAssumptions
  DEF Init, Books, EndInv, SoldInv, Open, CountInv, LivePools, MembersOf, NoRow

(* Whatever purchases, cancellations and deletions race, the counters of a   *)
(* pool add up to its size and count every address that is held, unless the  *)
(* pool counted something down a second time: a release of a block counts as *)
(* many addresses as its purchase did, and an address that several purchases *)
(* got is counted for each of them.                                          *)
THEOREM CountersTheorem == Spec => []CountersMatch
<1>1. Init => Books
  BY InitBooks
<1>2. Inv /\ Books /\ [Next]_vars => Books'
  <2>1. ASSUME Inv, Books, [Next]_vars PROVE Books'
    <3>1. TypeOK /\ PoolInv /\ ReqInv /\ Rows /\ EndInv /\ SoldInv /\ CountInv
      BY <2>1, RowsAre DEF Inv, Books
    <3>2. EndInv' /\ SoldInv' /\ CountInv'
      BY <2>1, <3>1, EndInvStep, SoldStep, CountStep
    <3> QED BY <3>2 DEF Books
  <2> QED BY <2>1
<1>3. Inv /\ Books => CountersMatch
  BY RowsAre, BooksCountHeld DEF Inv
<1> QED BY <1>1, <1>2, <1>3, Invariance, PTL DEF Spec

------------------------------------------------------------------------------
(* The refinement of AddressMarket *)

(* A step after which every row looks the same to the market. *)
Same(a) ==
  /\ ip'[a].status = "allocated" <=> ip[a].status = "allocated"
  /\ ip'[a].status \in {"allocated", "suspended"} <=> ip[a].status \in {"allocated", "suspended"}
  /\ Held(a) => ip'[a].user = ip[a].user

LEMMA SameHolders ==
  ASSUME \A a \in Addresses : Same(a)
  PROVE  /\ [a \in Addresses |-> IF Held(a) THEN ip[a].user ELSE Nobody]' =
              [a \in Addresses |-> IF Held(a) THEN ip[a].user ELSE Nobody]
         /\ {a \in Addresses : ip[a].status = "allocated"}' =
              {a \in Addresses : ip[a].status = "allocated"}
  BY DEF Same, Held

LEMMA Stutter ==
  ASSUME \A a \in Addresses : Same(a), UNCHANGED req
  PROVE  UNCHANGED Market!vars
  BY SameHolders DEF Market!vars

LEMMA EndStep ==
  ASSUME NEW S \in SUBSET Addresses, UNCHANGED req,
         \A a \in S : ip'[a].status \notin {"allocated", "suspended"},
         \A a \in Addresses \ S : Same(a)
  PROVE  Market!Next
<1>1. Market!End(S)
  BY DEF Market!End, Same, Held
<1> QED BY <1>1 DEF Market!Next

LEMMA Untouched ==
  ASSUME UNCHANGED <<ip, req>>
  PROVE  UNCHANGED Market!vars
<1>1. \A a \in Addresses : Same(a)
  BY DEF Same
<1> QED BY <1>1, Stutter

LEMMA FreeMembersImplement ==
  ASSUME NEW b \in Blocks, NEW d \in BOOLEAN, FreeMembers(b, d), UNCHANGED req
  PROVE  Market!Next
<1>1. ASSUME NEW a \in MembersOf(b) PROVE ip'[a].status = "available"
  <2>1. PICK e : ip'[a] = Freed(a, NoBlock, e)
    BY DEF FreeMembers, MembersOf
  <2> QED BY <2>1 DEF Freed
<1>2. \A a \in Addresses \ MembersOf(b) : Same(a)
  BY DEF FreeMembers, MembersOf, Same
<1>3. MembersOf(b) \in SUBSET Addresses
  BY DEF MembersOf
<1> QED BY <1>1, <1>2, <1>3, EndStep

LEMMA OfferStep ==
  ASSUME TypeOK, NEW r \in Requests, NEW u \in Users, NEW k, NEW d, NEW p, NEW c,
         req[r].pc = "idle", Choose(r, k, d, u, p, c), UNCHANGED ip,
         Addrs(c) \subseteq Addresses,
         \A a \in Addrs(c) : ip[a].status # "allocated"
  PROVE  Market!Next
<1>1. /\ req'[r].pc = "chosen" /\ req'[r].user = u /\ req'[r].cidr = c
      /\ \A x \in Requests : x # r => req'[x] = req[x]
  BY DEF Choose, TypeOK
<1>2. Addrs(c) \in SUBSET (Addresses \ {a \in Addresses : ip[a].status = "allocated"})
  OBVIOUS
<1>3. \A a \in Addresses : Same(a)
  BY DEF Same
<1> DEFINE offers == [x \in Requests |->
                       IF req[x].pc = "chosen" THEN [to |-> req[x].user, addrs |-> Addrs(req[x].cidr)]
                       ELSE [to |-> Nobody, addrs |-> {}]]
<1>4. offers[r] = [to |-> Nobody, addrs |-> {}]
  OBVIOUS
<1>5. offers' = [offers EXCEPT ![r] = [to |-> u, addrs |-> Addrs(c)]]
  BY <1>1
<1>6. \E v \in Users, S \in SUBSET (Addresses \ {a \in Addresses : ip[a].status = "allocated"}) :
        offers' = [offers EXCEPT ![r] = [to |-> v, addrs |-> S]]
  BY <1>2, <1>5
<1>7. Market!Offer(r)
  BY <1>3, <1>4, <1>6, SameHolders, Zenon DEF Market!Offer, Market!NoOffer
<1> QED BY <1>7 DEF Market!Next

(* An address of a pool that the searches do not exclude is not allocated. *)
LEMMA NotTaken ==
  ASSUME Rows, PoolInv, NEW p \in LivePools, NEW c, Addrs(c) \subseteq Addrs(pool[p].cidr),
         Addrs(c) \intersect Taken(p) = {}
  PROVE  \A a \in Addrs(c) : a \in Addresses /\ ip[a].status # "allocated"
<1>1. Addrs(c) \subseteq Addresses
  BY PoolAddresses
<1>2. ASSUME NEW a \in Addrs(c), ip[a].status = "allocated" PROVE FALSE
  <2>1. a \in Addresses /\ ip[a].pool = p
    BY <1>1, <1>2, OnePool
  <2> QED BY <1>2, <2>1 DEF Taken, Held
<1> QED BY <1>1, <1>2

LEMMA PurchasesImplement ==
  ASSUME Inv, NEW r \in Requests, Purchases(r)
  PROVE  Market!Next
<1>0. Rows /\ TypeOK /\ PoolInv /\ PlanInv /\ ReqInv
  BY RowsAre DEF Inv
<1>1. ASSUME NEW u \in Users, NEW a \in Int, ChoosePublicIp(r, u, a) \/ ChooseGrantIp(r, u, a)
      PROVE  Market!Next
  <2>1. PICK p \in PoolsOver(Single(a)), d \in BOOLEAN : Choose(r, "single", d, u, p, Single(a))
    BY <1>1 DEF ChoosePublicIp, ChooseGrantIp
  <2>2. p \in LivePools /\ pool[p].cidr \in Cidr /\ CidrContains(pool[p].cidr, Single(a))
    BY <1>0 DEF PoolsOver, LivePools, TypeOK, PoolRow
  <2>3. Addrs(Single(a)) = {a} /\ a \in Addresses
    BY <1>0, <2>2, SingleAddrs, ContainsIsSubset, PoolAddresses
  <2>4. ip[a].status # "allocated" /\ req[r].pc = "idle" /\ UNCHANGED ip
    BY <1>1 DEF ChoosePublicIp, ChooseGrantIp, Held
  <2> QED BY <1>0, <2>1, <2>3, <2>4, OfferStep
<1>2. ASSUME NEW u \in Users, ChooseFirstAvailable(r, u) PROVE Market!Next
  <2>1. PICK p \in LivePools : \E a \in FreeSingles(pool[p].cidr, PlansOf(p), Taken(p)) : ChoosePublicIp(r, u, a)
    BY <1>2 DEF ChooseFirstAvailable
  <2>2. PICK a \in FreeSingles(pool[p].cidr, PlansOf(p), Taken(p)) : ChoosePublicIp(r, u, a)
    BY <2>1
  <2>3. a \in Int
    BY DEF FreeSingles, Addrs
  <2> QED BY <1>1, <2>2, <2>3
<1>3. ASSUME NEW u \in Users, NEW n \in BlockSizes, ChooseIpBlock(r, u, n) PROVE Market!Next
  <2>1. n \in Nat \ {0}
    BY InventoryAssumptions
  <2>2. PICK p \in LivePools : \E c \in FreeBlocks(pool[p].cidr, PlansOf(p), n, Taken(p)) :
                                Choose(r, "block", TRUE, u, p, c)
    BY <1>3 DEF ChooseIpBlock
  <2>3. PICK c \in FreeBlocks(pool[p].cidr, PlansOf(p), n, Taken(p)) : Choose(r, "block", TRUE, u, p, c)
    BY <2>2
  <2>4. Addrs(c) \subseteq Addrs(pool[p].cidr) /\ Addrs(c) \intersect Taken(p) = {}
    BY <1>0, <2>1, ChosenInPool
  <2>5. \A a \in Addrs(c) : a \in Addresses /\ ip[a].status # "allocated"
    BY <1>0, <2>4, NotTaken
  <2>6. req[r].pc = "idle" /\ UNCHANGED ip
    BY <1>3 DEF ChooseIpBlock
  <2> QED BY <1>0, <2>3, <2>5, <2>6, OfferStep
<1>4. ASSUME NEW u \in Users, NEW c \in PlanCidrs, ChooseGrantBlock(r, u, c) PROVE Market!Next
  <2>1. PICK p \in PoolsOver(c) : Addrs(c) \intersect Taken(p) = {} /\ Choose(r, "block", FALSE, u, p, c)
    BY <1>4 DEF ChooseGrantBlock
  <2>2. p \in LivePools /\ pool[p].cidr \in Cidr /\ CidrContains(pool[p].cidr, c) /\ c \in Cidr
    BY <1>0, CidrAssumptions DEF PoolsOver, LivePools, TypeOK, PoolRow
  <2>3. \A a \in Addrs(c) : a \in Addresses /\ ip[a].status # "allocated"
    BY <1>0, <2>1, <2>2, ContainsIsSubset, NotTaken
  <2>4. req[r].pc = "idle" /\ UNCHANGED ip
    BY <1>4 DEF ChooseGrantBlock
  <2> QED BY <1>0, <2>1, <2>3, <2>4, OfferStep
<1>5. ASSUME CommitSingle(r) PROVE Market!Next
  <2>1. req[r] \in Request /\ req[r].cidr \in Cidr
    BY <1>0, <1>5, ChosenType DEF CommitSingle, Request
  <2>2. PICK a : a = req[r].cidr.net
    OBVIOUS
  <2>3. a \in Addresses /\ Addrs(req[r].cidr) = {a}
    <3>1. req[r].cidr = Single(a) /\ Addrs(Single(a)) \subseteq Addresses
      BY <1>0, <1>5, <2>2 DEF CommitSingle, ReqInv
    <3>2. a \in Int
      BY <2>1, <2>2 DEF Cidr
    <3> QED BY <3>1, <3>2, SingleAddrs
  <2>4. ip'[a] = Bought(a, r, NoBlock) /\ \A x \in Addresses : x # a => ip'[x] = ip[x]
    BY <1>0, <1>5, <2>2, <2>3 DEF CommitSingle, TypeOK
  <2>5. ip'[a].status = "allocated" /\ ip'[a].user = req[r].user
    BY <2>4 DEF Bought
  <2>6. req[r].pc = "chosen" /\ req'[r].pc = "idle" /\ \A x \in Requests : x # r => req'[x] = req[x]
    BY <1>0, <1>5 DEF CommitSingle, TypeOK, Idle
  <2>7. Market!Sell(r)
    BY <2>3, <2>4, <2>5, <2>6 DEF Market!Sell, Market!NoOffer, Held
  <2> QED BY <2>7 DEF Market!Next
<1>6. ASSUME NEW b \in Blocks, CommitBlock(r, b) PROVE Market!Next
  <2>1. Addrs(req[r].cidr) \subseteq Addresses
    BY <1>0, <1>6 DEF CommitBlock, ReqInv
  <2>2. ASSUME NEW a \in Addresses, a \in Addrs(req[r].cidr)
        PROVE  ip'[a].status = "allocated" /\ ip'[a].user = req[r].user
    <3>1. ip'[a] = Bought(a, r, b)
      BY <1>6, <2>2 DEF CommitBlock
    <3> QED BY <3>1 DEF Bought
  <2>3. \A a \in Addresses : a \notin Addrs(req[r].cidr) => ip'[a] = ip[a]
    BY <1>6 DEF CommitBlock
  <2>4. req[r].pc = "chosen" /\ req'[r].pc = "idle" /\ \A x \in Requests : x # r => req'[x] = req[x]
    BY <1>0, <1>6 DEF CommitBlock, TypeOK, Idle
  <2>5. Market!Sell(r)
    BY <2>1, <2>2, <2>3, <2>4 DEF Market!Sell, Market!NoOffer, Held
  <2> QED BY <2>5 DEF Market!Next
<1>7. ASSUME Rollback(r) PROVE Market!Next
  <2>1. \A a \in Addresses : Same(a)
    BY <1>7 DEF Rollback, Same
  <2>2. req'[r].pc = "idle" /\ \A x \in Requests : x # r => req'[x] = req[x]
    BY <1>0, <1>7 DEF Rollback, TypeOK, Idle
  <2>3. Market!Withdraw(r)
    BY <2>1, <2>2, SameHolders DEF Market!Withdraw, Market!NoOffer
  <2> QED BY <2>3 DEF Market!Next
<1>8. \A a \in Addresses : a \in Int
  BY InventoryAssumptions
<1> QED BY <1>1, <1>2, <1>3, <1>4, <1>5, <1>6, <1>7, <1>8 DEF Purchases

LEMMA HoldingsImplement ==
  ASSUME Inv, NEW u \in Users, Holdings(u)
  PROVE  Market!Next \/ UNCHANGED Market!vars
<1>0. TypeOK
  BY DEF Inv
<1>1. ASSUME NEW a \in Addresses, ReleasePublicIp(u, a) PROVE Market!Next
  <2>1. ip'[a] = Freed(a, NoBlock, ip[a].due) /\ \A x \in Addresses : x # a => ip'[x] = ip[x]
    BY <1>0, <1>1 DEF ReleasePublicIp, TypeOK
  <2>2. ip'[a].status = "available"
    BY <2>1 DEF Freed
  <2>3. UNCHANGED req /\ \A x \in Addresses \ {a} : Same(x)
    BY <1>1, <2>1 DEF ReleasePublicIp, Same
  <2>4. {a} \in SUBSET Addresses /\ \A x \in {a} : ip'[x].status \notin {"allocated", "suspended"}
    BY <2>2
  <2> QED BY <2>3, <2>4, EndStep
<1>2. ASSUME NEW a \in Addresses, NEW t \in Tunnels \union {Detached}, MoveIp(u, a, t)
      PROVE  UNCHANGED Market!vars
  <2>1. ip[a] \in Row /\ ip'[a] = [ip[a] EXCEPT !.tunnel = t] /\ \A x \in Addresses : x # a => ip'[x] = ip[x]
    BY <1>0, <1>2 DEF MoveIp, TypeOK
  <2>2. ip'[a].status = ip[a].status /\ ip'[a].user = ip[a].user
    BY <2>1 DEF Row
  <2>3. \A x \in Addresses : Same(x)
    BY <2>1, <2>2 DEF Same
  <2> QED BY <1>2, <2>3, Stutter DEF MoveIp
<1>3. ASSUME NEW b \in Blocks, ReleaseIpBlock(u, b) PROVE Market!Next
  BY <1>3, FreeMembersImplement DEF ReleaseIpBlock
<1>4. ASSUME NEW b \in Blocks, NEW t \in Tunnels \union {Detached}, MoveIpBlock(u, b, t)
      PROVE  UNCHANGED Market!vars
  <2>1. ASSUME NEW a \in Addresses PROVE ip'[a].status = ip[a].status /\ ip'[a].user = ip[a].user
    <3>1. ip[a] \in Row /\ (ip'[a] = [ip[a] EXCEPT !.tunnel = t] \/ ip'[a] = ip[a])
      BY <1>0, <1>4 DEF MoveIpBlock, TypeOK
    <3> QED BY <3>1 DEF Row
  <2>2. \A x \in Addresses : Same(x)
    BY <2>1 DEF Same
  <2> QED BY <1>4, <2>2, Stutter DEF MoveIpBlock
<1>5. ASSUME NEW t \in Tunnels, DeleteTunnel(u, t) PROVE UNCHANGED Market!vars
  BY <1>5, Untouched DEF DeleteTunnel
<1> QED BY <1>1, <1>2, <1>3, <1>4, <1>5 DEF Holdings

LEMMA SchedulerImplements ==
  ASSUME Inv, Scheduler
  PROVE  Market!Next \/ UNCHANGED Market!vars
<1>0. TypeOK /\ Rows
  BY RowsAre DEF Inv
<1>1. ASSUME NEW a \in Addresses, ChargePublicIp(a) PROVE Market!Next
  <2>1. ip[a] \in Row /\ (\A x \in Addresses : x # a => ip'[x] = ip[x]) /\ UNCHANGED req
    BY <1>0, <1>1 DEF ChargePublicIp, TypeOK
  <2>2. PICK s \in {"suspended", "allocated"}, d \in BOOLEAN :
          ip' = [ip EXCEPT ![a].status = s, ![a].due = d]
    BY <1>1 DEF ChargePublicIp
  <2>3. ip'[a].status = s /\ ip'[a].user = ip[a].user
    BY <1>0, <2>1, <2>2 DEF TypeOK, Row
  <2>4. Held(a) /\ ip[a].user # Nobody
    BY <1>0, <1>1, InventoryAssumptions DEF ChargePublicIp, Rows, RowOf
  <2>5. CASE s = "suspended"
    <3>1. Market!Lapse(a)
      BY <2>1, <2>3, <2>4, <2>5 DEF Market!Lapse, Held
    <3> QED BY <3>1 DEF Market!Next
  <2>6. CASE s = "allocated"
    <3>1. Market!Restore(a)
      BY <2>1, <2>3, <2>4, <2>6 DEF Market!Restore, Held
    <3> QED BY <3>1 DEF Market!Next
  <2> QED BY <2>5, <2>6
<1>2. ASSUME NEW a \in Addresses, ForceCancelPublicIp(a) PROVE Market!Next
  <2>1. ip'[a] = Freed(a, ip[a].block, FALSE) /\ \A x \in Addresses : x # a => ip'[x] = ip[x]
    BY <1>0, <1>2 DEF ForceCancelPublicIp, TypeOK
  <2>2. ip'[a].status = "available"
    BY <2>1 DEF Freed
  <2>3. UNCHANGED req /\ \A x \in Addresses \ {a} : Same(x)
    BY <1>2, <2>1 DEF ForceCancelPublicIp, Same
  <2>4. {a} \in SUBSET Addresses /\ \A x \in {a} : ip'[x].status \notin {"allocated", "suspended"}
    BY <2>2
  <2> QED BY <2>3, <2>4, EndStep
<1>3. ASSUME NEW b \in Blocks, ForceCancelIpBlock(b) PROVE Market!Next
  BY <1>3, FreeMembersImplement DEF ForceCancelIpBlock
<1>4. ASSUME NEW t \in Tunnels, ForceCancelTunnel(t) PROVE UNCHANGED Market!vars
  <2>1. ASSUME NEW a \in Addresses PROVE ip'[a].status = ip[a].status /\ ip'[a].user = ip[a].user
    <3>1. ip[a] \in Row /\ (ip'[a] = [ip[a] EXCEPT !.tunnel = Detached] \/ ip'[a] = ip[a])
      BY <1>0, <1>4 DEF ForceCancelTunnel, TypeOK
    <3> QED BY <3>1 DEF Row
  <2>2. \A x \in Addresses : Same(x)
    BY <2>1 DEF Same
  <2> QED BY <1>4, <2>2, Stutter DEF ForceCancelTunnel
<1>5. ASSUME NEW b \in Blocks, ChargeIpBlock(b) PROVE UNCHANGED Market!vars
  BY <1>5, Untouched DEF ChargeIpBlock
<1>6. ASSUME NEW x, ListExpired(x) PROVE UNCHANGED Market!vars
  BY <1>6, Untouched DEF ListExpired
<1> QED BY <1>1, <1>2, <1>3, <1>4, <1>5, <1>6 DEF Scheduler

LEMMA AdministrationImplements ==
  ASSUME Inv, NEW m \in Admins, Administration(m)
  PROVE  Market!Next \/ UNCHANGED Market!vars
<1>1. ASSUME DeletePool(m) PROVE Market!Next
  <2> DEFINE S == {a \in Addresses : ip[a].pool = task[m].pool}
  <2>1. \A a \in S : ip'[a].status = "none"
    BY <1>1 DEF DeletePool, NoRow
  <2>2. UNCHANGED req /\ \A a \in Addresses \ S : Same(a)
    BY <1>1 DEF DeletePool, Same
  <2> HIDE DEF S
  <2>3. S \in SUBSET Addresses
    BY DEF S
  <2> QED BY <2>1, <2>2, <2>3, EndStep
<1> QED BY <1>1, Untouched
    DEF Administration, AddPool, AddSalePlan, CheckAddPool, CheckAddPlan, CheckDeletePool, CheckDeletePlan, Check,
        DeleteSalePlan, GiveUp

LEMMA SetSaleModeImplements ==
  ASSUME Inv, NEW a \in Addresses, SetSaleMode(a)
  PROVE  UNCHANGED Market!vars
<1>1. ip'[a].status = "available" /\ \A x \in Addresses : x # a => ip'[x] = ip[x]
  BY DEF SetSaleMode, Inv, TypeOK
<1>2. \A x \in Addresses : Same(x)
  BY <1>1 DEF SetSaleMode, Same, Held
<1> QED BY <1>2, Stutter DEF SetSaleMode

(* The inventory implements the market, for any number of addresses, pools,  *)
(* customers and concurrent requests: an address changes hands only when a   *)
(* purchase or a grant commits that looked at it when it was not held in     *)
(* good standing.                                                            *)
THEOREM Refinement == Spec => ImplementsMarket
<1>1. Init => Market!Init
  BY DEF Init, Market!Init, Market!NoOffer, Held, NoRow, Idle
<1>2. Inv /\ [Next]_vars => [Market!Next]_(Market!vars)
  <2>1. ASSUME Inv, Next PROVE Market!Next \/ UNCHANGED Market!vars
    BY <2>1, PurchasesImplement, HoldingsImplement, SchedulerImplements, AdministrationImplements,
       SetSaleModeImplements DEF Next
  <2>2. ASSUME UNCHANGED vars PROVE UNCHANGED Market!vars
    BY <2>2, Untouched DEF vars
  <2> QED BY <2>1, <2>2
<1> QED BY <1>1, <1>2, Invariance, PTL DEF Spec, ImplementsMarket, Market!Spec

==============================================================================
