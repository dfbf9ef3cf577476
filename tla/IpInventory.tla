------------------------------ MODULE IpInventory ------------------------------
(***************************************************************************)
(* The inventory of public addresses: pools and sale plans an              *)
(* administrator keeps, addresses and blocks that customers buy, move and  *)
(* give back and that the billing scheduler suspends and cancels           *)
(* (packages/provisioning/src/public-ip.ts, ip-block.ts, admin-grant.ts    *)
(* and billing-scheduler.ts, apps/api/src/admin/admin.controller.ts).      *)
(*                                                                         *)
(* A purchase or a grant looks for free addresses with plain SELECTs and   *)
(* then writes: the two are separate steps, and anything may be committed  *)
(* between them.  A paid purchase holds the lock of its wallet meanwhile.  *)
(* The checks of an administrator run outside the transaction they guard,  *)
(* so that several administrators cross each other.  The scheduler works   *)
(* through lists of items it read before, and its ticks may overlap: the   *)
(* timer and the queue of the worker, and every process, start one of its  *)
(* own.  Operations that lock the row they are about are one step.         *)
(*                                                                         *)
(* Whether a wallet covers a price is left open (wallets are in Billing),  *)
(* and so is when a deadline passes.  No code sets the statuses reserved   *)
(* and blacklisted.                                                        *)
(* The calls to the gateways after a change are in GatewaySync.            *)
(***************************************************************************)
EXTENDS SalePlans, FiniteSets

CONSTANTS
  Addresses,    \* the addresses pools are made of
  Users,        \* owners of a credit wallet
  Nobody,       \* user_id IS NULL
  Tunnels,      \* rows of tunnels
  Owner,        \* the user of every tunnel
  Detached,     \* tunnel_id IS NULL
  Pools,        \* ids of rows of ip_pool
  NoPool,
  Blocks,       \* ids of rows of ip_blocks
  NoBlock,      \* block_id IS NULL
  Requests,     \* concurrent purchases and grants
  Admins,       \* administrators who work on pools and plans
  PoolCidrs,    \* CIDRs an administrator may add as a pool
  PlanCidrs,    \* CIDRs an administrator may put on sale
  BlockSizes,   \* VALID_BLOCK_SIZES
  MaxCount      \* bound on available_count and allocated_count

Cidr == [net : Int, size : Int]

ASSUME InventoryAssumptions ==
  /\ Addresses \subseteq Nat
  /\ Nobody \notin Users
  /\ Owner \in [Tunnels -> Users]
  /\ Detached \notin Tunnels
  /\ NoPool \notin Pools
  /\ NoBlock \notin Blocks
  /\ IsFiniteSet(Blocks)
  /\ Blocks \intersect Addresses = {}
  /\ MaxCount \in Nat
  /\ BlockSizes \subseteq Nat \ {0}
ASSUME CidrAssumptions ==
  /\ PoolCidrs \subseteq Cidr
  /\ PlanCidrs \subseteq Cidr
  /\ \A c \in PoolCidrs \union PlanCidrs : c.size > 0
  /\ \A c \in PoolCidrs : Addrs(c) \subseteq Addresses
  /\ \A c, d \in PoolCidrs : c # d => Addrs(c) \intersect Addrs(d) = {}

VARIABLES
  ip,        \* rows of public_ips, by address
  block,     \* rows of ip_blocks
  pool,      \* rows of ip_pool
  plans,     \* rows of ip_sale_plans
  live,      \* tunnels that are not deleted
  req,       \* per request: what it has read and is going to write
  task,      \* per administrator: what is checked and going to be written
  listed,    \* items some tick of the scheduler has on its list of expired ones
  ended,     \* blocks that were given back once (history)
  recounted  \* pools that counted something down a second time (history)

vars == <<ip, block, pool, plans, live, req, task, listed, ended, recounted>>
books == <<ended, recounted>>

Row == [status : {"none", "available", "allocated", "suspended"}, pool : Pools \union {NoPool},
        user : Users \union {Nobody}, tunnel : Tunnels \union {Detached},
        block : Blocks \union {NoBlock}, due : BOOLEAN]
NoRow == [status |-> "none", pool |-> NoPool, user |-> Nobody, tunnel |-> Detached,
          block |-> NoBlock, due |-> FALSE]

BlockRow == [status : {"none", "active", "suspended", "released", "purged"},
             user : Users \union {Nobody}, pool : Pools \union {NoPool}, cidr : Cidr]
Purged == [status |-> "purged", user |-> Nobody, pool |-> NoPool, cidr |-> [net |-> 0, size |-> 0]]
PoolRow == [status : {"none", "live", "gone"}, cidr : Cidr, available : Int, allocated : Nat]
NoCidr == [net |-> 0, size |-> 0]

(* crossed is history: another plan of the pool was inserted between the     *)
(* check for this one and its INSERT.                                        *)
Plan == [pool : Pools, cidr : Cidr, mode : {"single", "block"}, size : BlockSizes \union {0},
         crossed : BOOLEAN]

Request == [pc : {"chosen"}, kind : {"single", "block"}, paid : BOOLEAN,
            user : Users, pool : Pools, cidr : Cidr]
Task == [op : {"none", "add pool", "add plan", "delete plan", "delete pool"},
         pool : Pools \union {NoPool}, plans : SUBSET Plan, crossed : BOOLEAN]
NoTask == [op |-> "none", pool |-> NoPool, plans |-> {}, crossed |-> FALSE]
Idle == [pc |-> "idle"]

Held(a) == ip[a].status \in {"allocated", "suspended"}
PlansOf(p) == {q \in plans : q.pool = p}
LivePools == {p \in Pools : pool[p].status = "live"}
PoolsOver(c) == {p \in LivePools : CidrContains(pool[p].cidr, c)}
Single(a) == [net |-> a, size |-> 1]
MembersOf(b) == {a \in Addresses : ip[a].block = b}

(* What the searches exclude: the rows of the pool that are not available.   *)
Taken(p) == {a \in Addresses : ip[a].pool = p /\ Held(a)}

WalletLocked(u) == \E r \in Requests : req[r].pc = "chosen" /\ req[r].paid /\ req[r].user = u

(* Mutations: the counters are not moved, or in the wrong direction. *)
CountersKept(p, n) == pool[p]
CountedBackwards(p, n) == [pool[p] EXCEPT !.available = pool[p].available + n,
                                          !.allocated = pool[p].allocated - n]

(* available_count and allocated_count after n addresses were taken (n > 0)  *)
(* or given back (n < 0), where the code writes GREATEST(..., 0).            *)
Counted(p, n) ==
  [status |-> pool[p].status, cidr |-> pool[p].cidr,
   available |-> pool[p].available - n,
   allocated |-> IF pool[p].allocated + n < 0 THEN 0 ELSE pool[p].allocated + n]

(* UPDATE ip_pool ... WHERE id = p finds no row once the pool is deleted. *)
Count(p, n) ==
  /\ pool[p].allocated + n <= MaxCount /\ pool[p].available - n <= MaxCount
  /\ pool' = [q \in Pools |-> IF q = p /\ pool[q].status = "live" THEN Counted(q, n) ELSE pool[q]]

------------------------------------------------------------------------------
Init ==
  /\ ip = [a \in Addresses |-> NoRow]
  /\ block = [b \in Blocks |-> [status |-> "none", user |-> Nobody, pool |-> NoPool, cidr |-> NoCidr]]
  /\ pool = [p \in Pools |-> [status |-> "none", cidr |-> NoCidr, available |-> 0, allocated |-> 0]]
  /\ plans = {}
  /\ live = Tunnels
  /\ req = [r \in Requests |-> Idle]
  /\ task = [m \in Admins |-> NoTask]
  /\ listed = {}
  /\ ended = {}
  /\ recounted = {}

------------------------------------------------------------------------------
Choose(r, kind, paid, u, p, c) ==
  req' = [req EXCEPT ![r] = [pc |-> "chosen", kind |-> kind, paid |-> paid, user |-> u,
                             pool |-> p, cidr |-> c]]

(* buyPublicIp up to its first write.  Only an allocated address is refused. *)
ChoosePublicIp(r, u, a) ==
  /\ req[r].pc = "idle"
  /\ ~WalletLocked(u)
  /\ ip[a].status # "allocated"
  /\ \E p \in PoolsOver(Single(a)) :
       /\ IsIpSellableAsSingle(a, PlansOf(p))
       /\ Choose(r, "single", TRUE, u, p, Single(a))
  /\ UNCHANGED <<ip, block, pool, plans, live, task, listed, books>>

(* buyFirstAvailableSingleIp looks for a candidate before that transaction   *)
(* begins.  A candidate that has become stale by then is an address like     *)
(* any other that a customer names.                                          *)
ChooseFirstAvailable(r, u) ==
  \E p \in LivePools : \E a \in FreeSingles(pool[p].cidr, PlansOf(p), Taken(p)) :
    ChoosePublicIp(r, u, a)

(* buyIpBlock up to its first write. *)
ChooseIpBlock(r, u, n) ==
  /\ req[r].pc = "idle"
  /\ ~WalletLocked(u)
  /\ \E p \in LivePools : \E c \in FreeBlocks(pool[p].cidr, PlansOf(p), n, Taken(p)) :
       Choose(r, "block", TRUE, u, p, c)
  /\ UNCHANGED <<ip, block, pool, plans, live, task, listed, books>>

(* adminGrantIp and adminGrantBlock: the administrator names the addresses,  *)
(* sale plans are not consulted and nothing is charged.                      *)
ChooseGrantIp(r, u, a) ==
  /\ req[r].pc = "idle"
  /\ ~Held(a)
  /\ \E p \in PoolsOver(Single(a)) : Choose(r, "single", FALSE, u, p, Single(a))
  /\ UNCHANGED <<ip, block, pool, plans, live, task, listed, books>>

ChooseGrantBlock(r, u, c) ==
  /\ req[r].pc = "idle"
  /\ c.size \in BlockSizes
  /\ IsAligned(c)
  /\ \E p \in PoolsOver(c) : Addrs(c) \intersect Taken(p) = {} /\ Choose(r, "block", FALSE, u, p, c)
  /\ UNCHANGED <<ip, block, pool, plans, live, task, listed, books>>

(* The upsert of an address row: an existing row keeps its pool and its      *)
(* deadline.  A new row needs its pool (foreign key).                        *)
Bought(a, r, b) ==
  [status |-> "allocated", pool |-> IF ip[a].status = "none" THEN req[r].pool ELSE ip[a].pool,
   user |-> req[r].user, tunnel |-> Detached, block |-> b, due |-> ip[a].due]

CommitSingle(r) ==
  /\ req[r].pc = "chosen" /\ req[r].kind = "single"
  /\ pool[req[r].pool].status = "live" \/ ip[req[r].cidr.net].status # "none"
  /\ ip' = [ip EXCEPT ![req[r].cidr.net] = Bought(req[r].cidr.net, r, NoBlock)]
  /\ Count(req[r].pool, 1)
  /\ req' = [req EXCEPT ![r] = Idle]
  /\ UNCHANGED <<block, plans, live, task, listed, books>>

CommitBlock(r, b) ==
  /\ req[r].pc = "chosen" /\ req[r].kind = "block"
  /\ block[b].status = "none"
  /\ pool[req[r].pool].status = "live"
  /\ block' = [block EXCEPT ![b] = [status |-> "active", user |-> req[r].user,
                                    pool |-> req[r].pool, cidr |-> req[r].cidr]]
  /\ ip' = [a \in Addresses |-> IF a \in Addrs(req[r].cidr) THEN Bought(a, r, b) ELSE ip[a]]
  /\ Count(req[r].pool, req[r].cidr.size)
  /\ req' = [req EXCEPT ![r] = Idle]
  /\ UNCHANGED <<plans, live, task, listed, books>>

(* A refusal after the search, a foreign key without its row, a lost         *)
(* connection: the transaction is rolled back.                               *)
Rollback(r) ==
  /\ req[r].pc # "idle"
  /\ req' = [req EXCEPT ![r] = Idle]
  /\ UNCHANGED <<ip, block, pool, plans, live, task, listed, books>>

------------------------------------------------------------------------------
(* Moving and giving back *)

(* Only tunnels that are not deleted are kept apart here; that moveIp also    *)
(* wants its target active is in GatewaySync.                                *)
MayAttach(u, t) == t = Detached \/ (t \in live /\ Owner[t] = u)

MoveIp(u, a, t) ==
  /\ ip[a].user = u
  /\ ip[a].status = "allocated"
  /\ ip[a].block = NoBlock
  /\ ip[a].tunnel # t
  /\ MayAttach(u, t)
  /\ ip' = [ip EXCEPT ![a].tunnel = t]
  /\ UNCHANGED <<block, pool, plans, live, req, task, listed, books>>

(* Mutation: only the members still detached are moved. *)
MoveIpBlockPart(u, b, t) ==
  /\ block[b].status = "active"
  /\ block[b].user = u
  /\ MayAttach(u, t)
  /\ ip' = [a \in Addresses |-> IF ip[a].block = b /\ a = block[b].cidr.net
                                THEN [ip[a] EXCEPT !.tunnel = t] ELSE ip[a]]
  /\ UNCHANGED <<block, pool, plans, live, req, task, listed, books>>

MoveIpBlock(u, b, t) ==
  /\ block[b].status = "active"
  /\ block[b].user = u
  /\ MayAttach(u, t)
  /\ ip' = [a \in Addresses |-> IF ip[a].block = b THEN [ip[a] EXCEPT !.tunnel = t] ELSE ip[a]]
  /\ UNCHANGED <<block, pool, plans, live, req, task, listed, books>>

(* A row given back: a release leaves the deadline, a cancellation clears it. *)
Freed(a, b, due) ==
  [status |-> "available", pool |-> ip[a].pool, user |-> Nobody, tunnel |-> Detached,
   block |-> b, due |-> due]

ReleasePublicIp(u, a) ==
  /\ ip[a].user = u
  /\ ip[a].status = "allocated"
  /\ ip[a].block = NoBlock
  /\ ip[a].tunnel = Detached
  /\ ip' = [ip EXCEPT ![a] = Freed(a, NoBlock, ip[a].due)]
  /\ Count(ip[a].pool, -1)
  /\ UNCHANGED <<block, plans, live, req, task, listed, books>>

(* Counts the whole block down, a second time if it had been given back and  *)
(* was charged back to life.                                                 *)
FreeMembers(b, cancel) ==
  /\ ip' = [a \in Addresses |->
              IF ip[a].block = b THEN Freed(a, NoBlock, ip[a].due /\ ~cancel) ELSE ip[a]]
  /\ block' = [block EXCEPT ![b] = [status |-> "released", user |-> block[b].user,
                                    pool |-> block[b].pool, cidr |-> block[b].cidr]]
  /\ Count(block[b].pool, -block[b].cidr.size)
  /\ ended' = ended \union {b}
  /\ recounted' = IF b \in ended THEN recounted \union {block[b].pool} ELSE recounted

ReleaseIpBlock(u, b) ==
  /\ block[b].status = "active"
  /\ block[b].user = u
  /\ \A a \in MembersOf(b) : ip[a].tunnel = Detached
  /\ FreeMembers(b, FALSE)
  /\ UNCHANGED <<plans, live, req, task, listed>>

------------------------------------------------------------------------------
(* The billing scheduler: chargeOnePublicIp and chargeOneIpBlock, and the    *)
(* lists of expired items that are cancelled one by one.  Any number of      *)
(* ticks may be under way: what one has charged another may have listed.     *)

(* A due item is suspended, or paid and in good standing again.  An address  *)
(* that meanwhile belongs to nobody or to a block is skipped.                *)
ChargePublicIp(a) ==
  /\ Held(a) /\ ip[a].block = NoBlock /\ ~WalletLocked(ip[a].user)
  /\ \/ ip' = [ip EXCEPT ![a].status = "suspended", ![a].due = TRUE]
     \/ ip' = [ip EXCEPT ![a].status = "allocated", ![a].due = FALSE]
  /\ UNCHANGED <<block, pool, plans, live, req, task, listed, books>>

(* Nobody looks at the status again: a block that was released after it was  *)
(* listed comes back to life, without members.  The rows of members are left *)
(* as they are.                                                              *)
ChargeIpBlock(b) ==
  /\ block[b].status \notin {"none", "purged"} /\ ~WalletLocked(block[b].user)
  /\ \E s \in {"active", "suspended"} : block' = [block EXCEPT ![b].status = s]
  /\ UNCHANGED <<ip, pool, plans, live, req, task, listed, books>>

(* An item stays listed: another tick may have it before it as well. *)
ListExpired(x) ==
  /\ \/ x \in Addresses /\ Held(x) /\ ip[x].block = NoBlock /\ ip[x].due
     \/ x \in Blocks /\ block[x].status = "suspended"
  /\ x \notin listed
  /\ listed' = listed \union {x}
  /\ UNCHANGED <<ip, block, pool, plans, live, req, task, books>>

(* forceCancelPublicIp and forceCancelIpBlock look at the row again only to  *)
(* see that it is there.  An address that nobody holds any more, or that     *)
(* counts with the block it belongs to by now, is counted down once too often. *)
ForceCancelPublicIp(a) ==
  /\ a \in listed
  /\ ip[a].status # "none"
  /\ ip' = [ip EXCEPT ![a] = Freed(a, ip[a].block, FALSE)]
  /\ Count(ip[a].pool, -1)
  /\ recounted' = IF Held(a) /\ ip[a].block = NoBlock THEN recounted
                  ELSE recounted \union {ip[a].pool}
  /\ UNCHANGED <<block, plans, live, req, task, listed, ended>>

ForceCancelIpBlock(b) ==
  /\ b \in listed
  /\ block[b].status \notin {"none", "purged"}
  /\ FreeMembers(b, TRUE)
  /\ UNCHANGED <<plans, live, req, task, listed>>

(* deleteTunnel, and forceCancelTunnel, which detaches the addresses only if *)
(* one of them is allocated.                                                 *)
DeleteTunnel(u, t) ==
  /\ t \in live /\ Owner[t] = u
  /\ \A a \in Addresses : ip[a].tunnel = t => ip[a].status # "allocated"
  /\ live' = live \ {t}
  /\ UNCHANGED <<ip, block, pool, plans, req, task, listed, books>>

ForceCancelTunnel(t) ==
  /\ t \in live
  /\ live' = live \ {t}
  /\ ip' = IF \E a \in Addresses : ip[a].tunnel = t /\ ip[a].status = "allocated"
           THEN [a \in Addresses |-> IF ip[a].tunnel = t THEN [ip[a] EXCEPT !.tunnel = Detached] ELSE ip[a]]
           ELSE ip
  /\ UNCHANGED <<block, pool, plans, req, task, listed, books>>

------------------------------------------------------------------------------
(* Administrators.  Each of the four operations on pools and plans reads,    *)
(* checks, and writes later, without a lock: customers and other             *)
(* administrators write in between.                                          *)
Check(m, t) ==
  /\ task[m] = NoTask
  /\ task' = [task EXCEPT ![m] = t]
  /\ UNCHANGED <<ip, block, pool, plans, live, req, listed, books>>

(* A plan the administrator may ask for. *)
Offerable(q, within) ==
  /\ IsAligned(q.cidr)
  /\ CidrContains(within, q.cidr)
  /\ \/ q.mode = "single" /\ q.size = 0
     \/ q.mode = "block" /\ q.size \in BlockSizes /\ q.cidr.size >= q.size

CheckAddPool(m, q) ==
  /\ pool[q.pool].status = "none" /\ q.cidr \in PoolCidrs
  /\ Offerable(q, q.cidr)
  /\ \A x \in LivePools : ~CidrsOverlap(pool[x].cidr, q.cidr)
  /\ Check(m, [op |-> "add pool", pool |-> q.pool, plans |-> {q}, crossed |-> FALSE])

(* A new pool has a default plan that covers it.  Another pool with the same *)
(* range is refused (UNIQUE).                                                *)
AddPool(m, q) ==
  /\ task[m].op = "add pool" /\ q \in task[m].plans
  /\ pool[q.pool].status = "none"
  /\ \A x \in LivePools : pool[x].cidr # q.cidr
  /\ pool' = [pool EXCEPT ![q.pool] = [status |-> "live", cidr |-> q.cidr,
                                       available |-> q.cidr.size, allocated |-> 0]]
  /\ plans' = plans \union {q}
  /\ task' = [task EXCEPT ![m] = NoTask]
  /\ UNCHANGED <<ip, block, live, req, listed, books>>

CheckAddPlan(m, q) ==
  /\ pool[q.pool].status = "live" /\ q.cidr \in PlanCidrs
  /\ Offerable(q, pool[q.pool].cidr)
  /\ \A x \in PlansOf(q.pool) : ~CidrsOverlap(x.cidr, q.cidr)
  /\ Check(m, [op |-> "add plan", pool |-> q.pool, plans |-> {q}, crossed |-> FALSE])

(* The checks of other plans for this pool are stale from now on. *)
Stale(p) ==
  {m \in Admins : task[m].op = "add plan" /\ task[m].pool = p}

Inserted(m, q) == [q EXCEPT !.crossed = task[m].crossed]

(* The INSERT: the pool must be there (foreign key), nothing else.  That no  *)
(* two rows alike in everything are kept is a bound of the model.            *)
AddSalePlan(m, q) ==
  /\ task[m].op = "add plan" /\ q \in task[m].plans
  /\ pool[q.pool].status = "live"
  /\ Inserted(m, q) \notin plans
  /\ plans' = plans \union {Inserted(m, q)}
  /\ task' = [x \in Admins |-> IF x = m THEN NoTask
                               ELSE IF x \in Stale(q.pool) THEN [task[x] EXCEPT !.crossed = TRUE]
                               ELSE task[x]]
  /\ UNCHANGED <<ip, block, pool, live, req, listed, books>>

(* Only allocated addresses strictly inside the plan keep it: with SQL's <<  *)
(* an address is never inside its own /32.                                   *)
CheckDeletePlan(m, q) ==
  /\ \A a \in Addrs(q.cidr) : q.cidr.size > 1 /\ ip[a].pool = q.pool => ip[a].status # "allocated"
  /\ Check(m, [op |-> "delete plan", pool |-> q.pool, plans |-> {q}, crossed |-> FALSE])

(* Another administrator about to delete the same row will find none. *)
DeleteSalePlan(m) ==
  /\ task[m].op = "delete plan"
  /\ plans' = plans \ task[m].plans
  /\ task' = [x \in Admins |-> IF task[x] = task[m] THEN NoTask ELSE task[x]]
  /\ UNCHANGED <<ip, block, pool, live, req, listed, books>>

CheckDeletePool(m, p) ==
  /\ pool[p].status = "live"
  /\ \A a \in Addresses : ip[a].pool = p => ip[a].status # "allocated"
  /\ \A b \in Blocks : block[b].pool = p => block[b].status # "active"
  /\ Check(m, [op |-> "delete pool", pool |-> p, plans |-> {}, crossed |-> FALSE])

(* Deletes every row of the pool, whatever its status is by now.  What is    *)
(* kept of the pool, its range, is history: no operation reads it.           *)
DeletePool(m) ==
  /\ task[m].op = "delete pool"
  /\ LET p == task[m].pool IN
       /\ ip' = [a \in Addresses |-> IF ip[a].pool = p THEN NoRow ELSE ip[a]]
       /\ block' = [b \in Blocks |-> IF block[b].pool = p THEN Purged ELSE block[b]]
       /\ pool' = [pool EXCEPT ![p] = [status |-> "gone", cidr |-> pool[p].cidr,
                                       available |-> 0, allocated |-> 0]]
       /\ plans' = plans \ PlansOf(p)
  /\ task' = [task EXCEPT ![m] = NoTask]
  /\ UNCHANGED <<live, req, listed, books>>

GiveUp(m) ==
  /\ task[m] # NoTask
  /\ task' = [task EXCEPT ![m] = NoTask]
  /\ UNCHANGED <<ip, block, pool, plans, live, req, listed, books>>

(* Gives an address without a row one; sale_mode itself is read by nothing.  *)
SetSaleMode(a) ==
  /\ ip[a].status = "none"
  /\ \E p \in PoolsOver(Single(a)) :
       ip' = [ip EXCEPT ![a] = [status |-> "available", pool |-> p, user |-> Nobody,
                                tunnel |-> Detached, block |-> NoBlock, due |-> FALSE]]
  /\ UNCHANGED <<block, pool, plans, live, req, task, listed, books>>

------------------------------------------------------------------------------
PlanChoices == [pool : Pools, cidr : PoolCidrs \union PlanCidrs, mode : {"single", "block"},
                size : BlockSizes \union {0}, crossed : {FALSE}]

Purchases(r) ==
  \/ \E u \in Users :
       \/ ChooseFirstAvailable(r, u)
       \/ \E a \in Addresses : ChoosePublicIp(r, u, a) \/ ChooseGrantIp(r, u, a)
       \/ \E n \in BlockSizes : ChooseIpBlock(r, u, n)
       \/ \E c \in PlanCidrs : ChooseGrantBlock(r, u, c)
  \/ CommitSingle(r)
  \/ \E b \in Blocks : CommitBlock(r, b)
  \/ Rollback(r)

Holdings(u) ==
  \/ \E a \in Addresses : ReleasePublicIp(u, a) \/ \E t \in Tunnels \union {Detached} : MoveIp(u, a, t)
  \/ \E b \in Blocks : ReleaseIpBlock(u, b) \/ \E t \in Tunnels \union {Detached} : MoveIpBlock(u, b, t)
  \/ \E t \in Tunnels : DeleteTunnel(u, t)

Scheduler ==
  \/ \E a \in Addresses : ChargePublicIp(a) \/ ForceCancelPublicIp(a)
  \/ \E b \in Blocks : ChargeIpBlock(b) \/ ForceCancelIpBlock(b)
  \/ \E x \in Addresses \union Blocks : ListExpired(x)
  \/ \E t \in Tunnels : ForceCancelTunnel(t)

Administration(m) ==
  \/ \E q \in PlanChoices : CheckAddPool(m, q) \/ CheckAddPlan(m, q)
  \/ \E q \in task[m].plans : AddPool(m, q) \/ AddSalePlan(m, q)
  \/ \E p \in Pools : CheckDeletePool(m, p)
  \/ \E q \in plans : CheckDeletePlan(m, q)
  \/ DeleteSalePlan(m) \/ DeletePool(m) \/ GiveUp(m)

Next ==
  \/ \E r \in Requests : Purchases(r)
  \/ \E u \in Users : Holdings(u)
  \/ Scheduler
  \/ \E m \in Admins : Administration(m)
  \/ \E a \in Addresses : SetSaleMode(a)

Spec == Init /\ [][Next]_vars

------------------------------------------------------------------------------
(* The rows, the requests and the tasks have the shape the code gives them. *)
TypeOK ==
  /\ ip \in [Addresses -> Row]
  /\ block \in [Blocks -> BlockRow]
  /\ pool \in [Pools -> PoolRow]
  /\ plans \subseteq Plan
  /\ live \subseteq Tunnels
  /\ req \in [Requests -> Request \union {Idle}]
  /\ task \in [Admins -> Task]
  /\ listed \subseteq Addresses \union Blocks
  /\ ended \subseteq Blocks
  /\ recounted \subseteq Pools \union {NoPool}

(* What a held member of a block shares with the other members: the block is *)
(* still sold, to the same user, and all of it is on one tunnel of that user *)
(* -- whatever purchases, moves, releases and cancellations interleave.      *)
BlocksStayWhole ==
  \A b \in Blocks : \A a \in MembersOf(b) :
    Held(a) => /\ block[b].status \in {"active", "suspended"}
               /\ ip[a].user = block[b].user
               /\ a \in Addrs(block[b].cidr)
               /\ ip[a].tunnel # Detached => Owner[ip[a].tunnel] = ip[a].user
               /\ \A x \in MembersOf(b) : Held(x) => ip[x].tunnel = ip[a].tunnel

(* A pool that has an address another pool, deleted since, had before it. *)
Repooled(p) ==
  \E x \in Pools : pool[x].status = "gone" /\ Addrs(pool[x].cidr) \intersect Addrs(pool[p].cidr) # {}

(* The counters of a pool add up to its size and count every held address,   *)
(* although purchases that race each count the address they all got.  Two    *)
(* kinds of pools are left out: one that counted something down a second     *)
(* time, for a cancellation that a second tick repeated or for a block that  *)
(* was given back and charged back to life, and a range that is made a pool  *)
(* a second time, since what is under way when the first pool is deleted     *)
(* counts on that pool.                                                      *)
CountersMatch ==
  \A p \in LivePools \ recounted : ~Repooled(p) =>
    /\ pool[p].available + pool[p].allocated = pool[p].cidr.size
    /\ pool[p].allocated >= Cardinality(Taken(p))

(* "Plans are non-overlapping": no address is on sale twice, in one pool or  *)
(* in two, as a single and as part of a block -- but for a plan whose check  *)
(* another plan's insertion made stale.                                      *)
SoldOneWay ==
  \A q, x \in plans :
    q # x /\ ~q.crossed /\ ~x.crossed => Addrs(q.cidr) \intersect Addrs(x.cidr) = {}

(* The inventory implements the market: of all these operations only a       *)
(* purchase or a grant gives an address to anyone, and only addresses that   *)
(* were not held in good standing when it looked.                            *)
Market == INSTANCE AddressMarket WITH
  Customers <- Users, Orders <- Requests,
  holder  <- [a \in Addresses |-> IF Held(a) THEN ip[a].user ELSE Nobody],
  good    <- {a \in Addresses : ip[a].status = "allocated"},
  offered <- [r \in Requests |->
                IF req[r].pc = "chosen" THEN [to |-> req[r].user, addrs |-> Addrs(req[r].cidr)]
                ELSE [to |-> Nobody, addrs |-> {}]]
ImplementsMarket == Market!Spec

================================================================================
