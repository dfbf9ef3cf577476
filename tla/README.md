# VPN Hub: TLA+ models, model checking and proofs

This directory models the core of VPN Hub: the control plane in TypeScript that
sells tunnels, public addresses and address blocks against a prepaid wallet, and
the Go agent that puts what was sold into the kernel of a gateway. Paths below
are relative to the root of the repository. `P/` stands for
`packages/provisioning/src/`.

## 1. The system

| Part | State | Operations | Modelled in |
|---|---|---|---|
| Billing scheduler (`P/billing-scheduler.ts`, `packages/billing`) | billing columns of `tunnels`, `public_ips`, `ip_blocks`; `credit_wallets`, `credit_transactions` | `runBillingTick`: charge, suspend, force-cancel, six phases | `Billing`; rows of addresses in `IpInventory` |
| Credit codes (`apps/api/src/codes`) | `credit_codes`, `credit_code_batches`, `credit_code_redemptions`, wallets | create a batch, redeem, pause, revoke, expire | `CodeRedemption` |
| Tunnel lifecycle (`P/provision.ts`, `activate.ts`, `delete-tunnel.ts`, `change-tier.ts`, `apps/api/src/tunnels`) | `tunnels`, gateway counters, private addresses | create, activate (queue job), delete, change tier | `Billing`, `GatewaySync`, `IpInventory` (partly) |
| Single public IPs (`P/public-ip.ts`, `apps/api/src/ips`) | `public_ips`, `ip_pool` counters | buy, buy the first free one, move, release | `IpInventory`, `Billing`, `GatewaySync` |
| IP blocks (`P/ip-block.ts`) | `ip_blocks`, member rows | buy, move, release | `IpInventory`, `Billing` |
| Sale plans (`P/sale-plans.ts`) | `ip_sale_plans` | CIDR arithmetic, the search for something to sell | `SalePlans`, `IpInventory` |
| Admin (`apps/api/src/admin`, `P/admin-grant.ts`) | all tables | adjust credit, override a price, grant, pools, sale plans, sale mode | `IpInventory`, `Billing` (partly) |
| Gateway agent, WireGuard (`gateway-agent/internal/server`, `internal/wg/kernel.go`) | kernel peers, allowed IPs, routes; in-memory records; idempotency cache | create, update, delete and list peers | `GatewayAgent` (partly) |
| Gateway agent, GRE (`internal/server/handlers_gre.go`) | interfaces and their routes; idempotency cache | create, patch, delete, list | `GreAgent` |
| Gateway agent, OpenVPN and SSTP (`internal/wg/openvpn.go`, `sstp.go`) | peers in memory, CCD, `chap-secrets` and routes files, connections | create, update, delete, suspend, resume; reload on start | `DialInAgent` |
| Drift detection (`P/drift.ts`, `P/gre-drift.ts`) | two snapshots | push missing and stale peers, delete orphans | `GatewaySync`, `GreTunnels` |
| GRE tunnels (`P/gre.ts`, `gre-monitor.ts`) | GRE columns of `tunnels`, `current_tunnels`, the endpoint and what it resolved to | buy, activate, delete, change and re-resolve the endpoint | `GreTunnels` |
| Email (`P/email`) | `audit_logs`, cursor, `email_events`, preferences | classify, enqueue, dispatch, retry, park | `EmailPipeline` |
| Workers (`apps/worker-internal`, `apps/worker-gateway`) | `running` flags, queue jobs | timers, BullMQ processors | `Billing`, `GatewaySync`, `GreTunnels`, `EmailPipeline`, `TrafficSampler` |
| Traffic samples (`P/traffic-sampler.ts`, `getTraffic` in `apps/api/src/tunnels`) | `tunnel_stats_last`, `bandwidth_usage`, the `trafficRunning` flag | sample every gateway, add differences, prune, chart | `TrafficSampler` |
| Gateway client (`packages/gateway-client`) | none | HTTPS call with a timeout | `GatewaySync`, `GreTunnels` |
| Connection events, sessions, FRR, portal, scripts | | | not modelled: section 6 |

How the parts interact: API requests and the billing tick run database
transactions on shared rows; after the commit they call the agent over HTTPS,
without any queue (except for the creation of a tunnel, which goes through BullMQ)
and without any order between callers. Drift detection repairs what got lost.
Nothing but PostgreSQL row locks (`SELECT ... FOR UPDATE`) and the UNIQUE
`idempotency_key` of the ledger keeps concurrent transactions apart, and many
checks read a row without locking it.

What makes it hard, and what correctness means:

* *Billing.* A tick lists items without locking them and handles them one
  transaction at a time; meanwhile users pay, release, sell and change tiers, and
  a second tick can run, because the queue job and the scripts bypass the
  `billingRunning` flag of the timer. Correct: the wallet equals the ledger, no cycle is charged
  early or twice, only unpaid items are suspended, only overdue ones are deleted,
  and every due item is handled.
* *Codes.* Requests race for the last use. Correct: counters equal rows, limits
  hold, a revocation takes effect at once, credit is never lost.
* *Gateway.* Calls are lost, late, reordered; the agent forgets its records on a
  restart while the kernel does not; a call may set the device and fail among the routes.
  Correct: no address reaches a stranger's tunnel, and records end up equal to the rows.
* *Inventory.* A purchase looks for something free with plain SELECTs and writes
  later; an administrator checks that a pool or plan is unused and deletes it
  later, while another adds one. Correct: a block is never taken apart, counters count
  everything that is held, plans whose check was not stale stay apart, and an address
  changes hands only by being sold or granted to someone who saw it free of a paying holder.
* *GRE.* The API pushes a tunnel to the agent after it has answered, changes of an
  endpoint wait for DNS and for the agent between reading and writing, and constant
  idempotency keys are answered from a cache. Correct: no /30 twice, a counter that
  does not grow by itself, interfaces and endpoints that end up as the rows and DNS
  say.
* *Email.* A cursor over rows that commit out of order, sends that cannot be undone.
  Correct: what is marked sent was sent, a repetition has a cause, nothing is
  stranded.
* *Traffic.* A counter in the kernel starts from 0 whenever its peer is added; an answer
  of the gateway is stored some statements later. Correct: no byte is on the chart twice, and
  none is missing that no stop or reset can explain.
* *Dial-in gateways.* Customers connect between any two file writes of a call.
  Correct: a suspended customer carries nothing, and nobody who connects carries more than the
  last call said.

The hazards, each at its line with the properties that guard it, are listed in
`PROJECT.json`.

## 2. Modules

| Module | What it is |
|---|---|
| `Billing` | the tick and every operation on billing columns |
| `MCBilling` | instances for TLC |
| `BillingProofs` | eight theorems about `Billing` |
| `CodeRedemption` | codes, wallets and batches |
| `MCCodeRedemption` | instances for TLC |
| `CodeRedemptionProofs` | seven theorems about `CodeRedemption` |
| `GatewayAgent` | the agent and the kernel tables, as operators on its variables |
| `GatewaySync` | extends `GatewayAgent`: rows, clients, the job and drift around the agent |
| `MCGatewaySync` | instances for TLC |
| `GatewaySyncProofs` | three theorems about `GatewaySync` |
| `SalePlans` | CIDR arithmetic and the two searches, as operators |
| `IpInventory` | extends `SalePlans`: pools, plans, addresses, blocks and everyone who changes them |
| `AddressMarket` | the abstract specification that `IpInventory` implements |
| `MCIpInventory` | an instance for TLC, in four scenes |
| `IpInventoryProofs` | five theorems about `IpInventory`, the refinement among them |
| `GreAgent` | the agent's GRE handlers and its cache, as operators |
| `GreTunnels` | extends `GreAgent`: rows, API, drift, endpoints, failures |
| `MCGreTunnels` | an instance for TLC, with the state it starts in |
| `EmailPipeline` | enqueuer, dispatcher, provider |
| `MCEmailPipeline` | an instance for TLC |
| `EmailPipelineProofs` | four theorems about `EmailPipeline` |
| `TrafficSampler` | the sampler, the kernel's counters, the chart |
| `MCTrafficSampler` | an instance for TLC |
| `TrafficSamplerProofs` | the inductive invariant of `TrafficSampler` and three theorems |
| `Sums` | the sum of a function over a finite set |
| `SumTheorems` | what is true of such sums, for every finite set |
| `DialInAgent` | the OpenVPN and SSTP backends |
| `MCDialInAgent` | an instance for TLC |
| `AgentProofs` | the inductive invariants of `GreTunnels` and of `DialInAgent`, and six theorems |

### Billing

An item is a tunnel, a single address or a block. `row[i]` holds its status,
owner, `next_billing_at` (`nb`), `delete_after` (`da`) and grandfathered price. Time
is counted in days, the resolution of `chargeIdempotencyKey`. A transaction that
locks the item row and the wallet is one action; the tick is not: a ticker has a
phase, the rest of the list its SELECT returned, and the `now` it captured.
`ChargeSkipped`, `ChargeSuspends` and `ChargeSucceeds` are the three outcomes of
`chargeOneTunnel`, `chargeOnePublicIp` and `chargeOneIpBlock`, whose differences
are in `Chargeable`; `ForceCancel` stands for the three `forceCancel...`
functions.

`Isolated` is a constant. With `FALSE` everything interleaves. With `TRUE` a tick
overlaps neither another tick nor a user operation that changes ownership or
the cycle; top-ups, price overrides and activation still interleave with it. The
properties that hold only then are stated and proved for `TRUE`, and the runs
with `FALSE` show what goes wrong otherwise (section 4).

### CodeRedemption

`redeem` is one transaction in several steps: `Begin`, `Claim` (the conditional
UPDATE, which takes the code's row lock), `LockWallet`, `Commit`, with `Refuse`,
`OverLimit`, `Conflict` and `Abort` as the ways out. A request holds what it has
read; the rows change on `Commit`. The expiry is compared with the day on which the
transaction began, which is what `NOW()` returns in PostgreSQL. `Spend` is any
other transaction on the same wallet.

### GatewayAgent and GatewaySync

`GatewayAgent` keeps the kernel (`peers`, `allowed`, `routes`) apart from the
agent's memory (`meta`, `replayed`), because a restart clears one and not the
other. The kernel's own rules are part of the model: an allowed IP belongs to one
peer, and the link route of an address is one entry. A call sets the device, then one
route after the other, and stores its record last; `CreateFails` and `UpdateFails` are
the calls whose error return comes in between. `torn` is history: the peers whose last
call ended so. `UpdatePeer` first stores an empty record of a peer it does not know, a
`Stub`, which a failing call leaves behind.

`GatewaySync` adds the rows and everyone who acts on them. A client executes an
operation; where the code reads a row without a lock and acts on it later
(`deleteTunnel`, `buyPublicIp`, phase 4 of the tick, the target of `moveIp`) the
operation is two steps with `txn` in between. `calls` is what the client still
has to do after its commit; `late` are calls whose caller timed out and which the
agent may still carry out. `CallBreaks`, `LateCallBreaks` and `DriftBreaks` are calls
that fail half-way in the agent. `LoadJob`, `CallAgent` and `SaveActive` are
`activateTunnel`; `DriftList` to `DriftEnd` are `reconcileGateway`.

The model is restricted to one gateway, WireGuard, and single addresses.

### SalePlans, IpInventory and AddressMarket

An address is an integer, a CIDR its network address and size, as `parseCidr`
returns them; `ParseCidr` keeps the 32-bit shift. The searches return the set of
possible results, because no SELECT has an ORDER BY. `ip`, `block`, `pool` and
`plans` are the tables. A purchase or grant is `Choose...` (what its SELECTs saw)
and a later write; the rest of `req` is what it holds meanwhile. `task` is, per
administrator, an addition or deletion of a pool or plan between its check and its write;
several cross. `listed` are the items some billing tick has on its list: an item stays
there, because ticks overlap and another may have it as well. Three things are history:
`crossed` marks an addition, and the plan it inserts, if another plan of the pool was
inserted after its check; `ended` are the blocks that were given back once, which
`chargeOneIpBlock` may bring back to life, since it does not look at the status;
`recounted` are the pools that counted something down a second time, for such a block or for a
cancellation that two ticks both carry out. `AddressMarket` has a holder per address, the addresses held
in good standing and the offers that are open; `Market` is the refinement mapping
(an offer is a request that has chosen, good standing is 'allocated').

### GreAgent and GreTunnels

The same split as for WireGuard, with the difference that this agent keeps no record:
it lists interfaces and routes from the kernel. All tunnels of a gateway have its
address as their local one and no key, so the kernel refuses a second interface with the
same remote (`Taken`), in `ip link add` as in `ip tunnel change`; an address routed to another
interface refuses `ip route add`; and a PATCH may stop on the way (`PatchStops`). `act` is the push that follows a
purchase, `edit` and `refresh` are changes of endpoints by requests and by the worker,
each a record of what was read that goes through DNS, the agent and the UPDATE; `push`
are the calls after a move, `del` the deletions in progress, `drift` a pass with
its snapshot and a task per tunnel. `created` and `removed` are the cached answers to
`gre-activate-<id>` and `gre-delete-<id>`.

### EmailPipeline

`at` is the time a transaction began, which is what `created_at` holds, so that
rows may become visible in another order than that of the cursor. A scan and a batch are
variables of their own because the worker may die between any two of their
statements. A group is one instant event, or the pending digest events of a user.

### TrafficSampler

A run of the sampler is one step per call and query (`pc`): the gateways are read, an
answer is taken (`stats`), matched with the rows of live tunnels (`samples`), and each
sample is compared with `last`, replaces it and is added to `usage`. Time counts
five-minute buckets. `counter` is what the kernel counts, from 0 again after
`AddPeer`. Three variables are history: `carried`, what a tunnel has carried in all;
`baseline`, its counter when it was first sampled (the code keeps no row for that
one); and `disturbed`, the tunnels of which a difference was lost: the counter was
reset above 0, a run was stopped between the two writes, or rows were pruned.
`ChartTotal` is `getTraffic`: a sum over the rows of a range, bar by bar.

### DialInAgent

A call is the sequence of its steps (`Script`), in the order of the code, under
the mutex of the manager; connections come and go between any two of them. `backend` is
chosen initially. A peer may be created, updated, suspended, resumed and deleted in any order
and with any addresses. The hook of an SSTP connection is several steps: pppd brings the
interface up, the hook opens the routes file (`HookReads`) and routes one line at a time
(`HookRoutes`, from `lines`). `told` is what the last call asked for; `torn` are the peers whose
last call was cut short or hid a failure (a write, a kill, a route command); `loose` those whose connection
may keep what their last call did not name (section 4), until it ends. The properties speak of the others. The
module's own names carry `Dial` (`DialInit`, `DialNext`, `DialSpec`, `DialTypeOK`), so that a
module can extend it and `GreTunnels` together.

## 3. What the passing runs check

| Run | Shows |
|---|---|
| `billing_interleaved` | two overlapping ticks, an address and a block: types (no negative wallet), `LedgerAccountsForBalance`, `SuspendedHasDeadline` |
| `billing_isolated` | a tunnel, an address and a block, with a crash or failing item: `NoEarlyRenewal`, `SuspendedOnlyUnpaid`, `RenewalsBehindNextBilling` (although successive owners of an address share idempotency keys), `CancelledOnlyOverdue`, `GoneStaysGone`, `DueIsHandled`, `OverdueIsEnded` |
| `codes_race` | two users, two requests, three codes in two batches: counters, limits, wallets, batch totals, 'exhausted', `RedeemedOnlyWhileValid` against revocation and expiry, and `SomeoneGoesOn`: the requests never all wait for each other's locks |
| `sync_converges` | two clients, the job and drift on two tunnels and an address that two customers may buy: types, `AttachedToOwnTunnel`, `AllowedWithinRecord`, `RecordsConverge`, with one fault, which may be a call that fails half-way |
| `inventory` | two requests, two customers, two administrators, overlapping ticks, a pool of two addresses sold singly or as a block: types, `BlocksStayWhole`, `CountersMatch`, `SoldOneWay`, `ImplementsMarket` |
| `gre_routes` | a tunnel that serves an address and a second one with its endpoint or another, an address that moves between them, calls that are refused or stop half-way: `LinksApart`, `GreConverges` |
| `gre_endpoints` | one tunnel, two hosts, two editors, two deletions, DNS that moves: types, `CountsNoneTooMany`, `EndpointFollowsDns` |
| `email` | an instant, a digest and a skipped row: `SentIsDelivered`, `DuplicatesNeedFaults`, `NoInstantStranded`, `InstantMailSettles` |
| `dial_in` | two customers, an address, either backend, calls in any order: `SuspendedCarriesNothing`, `CarriesOnlyWhatWasTold` |
| `traffic` | a WireGuard and a GRE tunnel of one gateway, with stops, failed calls, resets, deletion and pruning anywhere: `NeverOvercounts` for every range and width, `ExactUnlessDisturbed` |

Bounds. Billing: a cycle and a period of grace of one day each, and a clock that reaches
day two, let an item be bought, fall due, be suspended, be paid for or deleted,
released, sold again and fall due a second time; balances of up to one or two
units cover paying for none, one or both of the items that are due. The order of
the periods in the code (31 days and 3) makes no difference to the properties:
the theorems of section 5 hold for all. Codes: two requests, two users and two days.
`MaxBatches` lets one of two batches be created: a one-use and a two-use code, so that
the last use is contested from both sides, or a code with a limit per user only.
`codes_race` uses the symmetry of users and of requests, which occur in no constant.
Gateway: two tunnels and one address, which is what two updates need to cross. The run
begins in one of four states that a few operations lead to (`Starts`: one tunnel or two, an
address attached, unattached or suspended) and allows two more operations of two clients,
so that any two cross between check and write: a move and a release, a sale, another move, a
suspension or a cancellation; with one fault anywhere. For longer sequences
the safety properties rest on the theorems. Inventory: one block of two addresses is
the smallest that can be torn; `MaxCount` bounds what racing purchases may count. Everything
at once would be too much for one run, so `scene`, which no step changes, selects who acts: in `sale` the
administrator who makes the pool, requests and customers, two of requests and
administrator at a time, with nothing cancelled and no plan for the lower half; in `ticks` the overlapping
ticks beside one purchase at a time, with no live tunnel; in `race` two purchases at a time and two
blocks, with no live tunnel and no administrator or tick's list; in `plans` two
administrators and no customer. `sale` and `ticks` have one block and count at most two and three. `ticks` and `race` begin where the
pool is made and its plan deleted, so that all of it is for sale either way.
That no two plans are alike in everything bounds the plans (`AddSalePlan`).
GRE: two /30s and `MaxTunnels` one, so that the limit is met and passed
by a named gateway; `Budget` bounds what users, DNS and failures do: two events
are enough for a deletion that crosses a lost call, a move that fails half-way, or
a change of host that crosses a change of DNS. `gre_routes` begins in a state in which one of the
two tunnels serves the address (`Serving`); two hosts, so that the second tunnel has the
endpoint of the first or not, and DNS may bring both to one address. Email: `ScanLimit`, `BatchSize` and `MaxRetries`
are two, so that limits are met with three rows. Dial-in: `MaxTorn` bounds how many
peers are cut short at the same time, one, so that the other peer shows what a torn one does to it;
one address, because each is routed by itself and two customers contend for it.
Traffic: two buckets, a retention of one and two bytes
between the two tunnels, so that one row is added to twice, two rows are pruned apart, and a counter
that was reset meets a larger last value; two slots for runs, of which `trafficRunning` lets
one be used.
`MaxBytes`, `MaxBucket`, `MaxDay`, `MaxBalance`, `MaxFaults`, `MaxOps`, `MaxBatches`, `MaxCount`, `Budget` and
`MaxTorn` bound the state space only. The clock of billing stops at `MaxDay`, so its liveness
speaks of the items that become due before it.

Only `inventory` switches deadlock checking off: when a pool's counter has reached its
bound, or a scene has nobody left who acts, the bounded system may stop.

Sizes (distinct states; two workers): `sync_converges` 555,549 in two minutes, `inventory`
431,776 in as much, `dial_in` 1,721,703, `gre_routes` 215,474, both within a minute.

Fairness. Billing: the timer of `worker-internal` fires for ever and a tick that
runs goes on, so `StartTick`, `NextPhase`, `EndTick` and the handling of each
listed item are weakly fair; days pass; users, admins and faults owe nothing.
Gateway: drift is weakly fair (its timer), commits, calls after a commit and the queue's
jobs too, and a delayed call is carried out some day; operations and faults are not fair.
GRE: what the API has started goes on, drift passes go on and start again, and cached
answers expire (24 hours). `RefreshStale` is strongly fair: the hourly refresh
visits every active row, but the monitor may occupy the slot in between.
Email: the timers run the enqueuer and the dispatcher for ever and back-off delays end.

## 4. Where code and documents disagree

In two runs TLC finds violated what the repository says of the program.

| Run | Property | What happens |
|---|---|---|
| `billing_overlapping_ticks` | `NoEarlyRenewal` | the charge transactions do not compare `next_billing_at` with `now` once they hold the lock; two ticks charge two cycles |
| `sync_deleted_tunnel` | `NoAddressOnDeletedTunnel` | `moveIp` and `deleteTunnel` cross without a lock, and the address stays attached to a deleted tunnel |

The models also have the following behaviours, which no run is kept for.

* Drift compares the records of the agent with the rows (`P/drift.ts:113-121`), not the
  kernel, although `P/drift.ts:1` says "reconcile DB ↔ gateway kernel". `UpdatePeer` removes
  the route of every address that leaves a record (`kernel.go:216`), also one which another
  peer has taken over: after two updates that crossed, the records agree (`RecordsConverge`)
  and a route of `routes` is missing for good.
* A call of the agent that fails among its routes leaves the device with allowed IPs that its
  record does not show (`kernel.go:211-224`, `170-175`); drift, which compares the record, leaves them there if
  the record agrees with the rows. `AllowedWithinRecord` leaves such peers out (`torn`) until a call goes through. An
  `UpdatePeer` of an unknown peer that fails at the device leaves a stub, and drift's `CreatePeer` of that
  peer is then answered 409 for ever (`Barred`), because a stub has no private address.
* Drift's two snapshots may be so far apart that it deletes, as an orphan, a peer that became
  active in between; the next run brings it back.
* With `Isolated = FALSE`, `CancelledOnlyOverdue` fails as well: `forceCancelTunnel`
  does not look at `delete_after` again, so a tunnel paid for after the SELECT of
  phase 4 is deleted. `GoneStaysGone` fails too: `chargeOneIpBlock` has no status
  condition, so a block released while a tick has it on its list is charged and
  becomes active again.
* `buyPublicIp` refuses only an 'allocated' row and keeps `delete_after`: an address
  bought while suspended is cancelled on its former owner's deadline. This is why
  `CancelledOnlyOverdue` speaks of tunnels and blocks only.
* Every retry of `suspend` sends a notice with a newly computed day, while the
  deadline stays the first one (`P/billing-scheduler.ts:360-387`; notices are not
  in the model).
* `redeem` decides from the user's own count whether a code is 'exhausted'
  (`codes.service.ts:324`), so a code used up by several users stays 'active';
  `ExhaustedIsUsedUp` is the direction that holds. The ledger key
  `redeem-<code>-<user>` allows one redemption per user whatever
  `max_uses_per_user` says (`Conflict`).
* A crash between the commit of a tunnel and the enqueue of its job
  (`ClientFails` before `Enqueue`) leaves the paid tunnel in 'provisioning'; drift
  detection looks at active tunnels only.
* `deletePool` looks for 'allocated' addresses and 'active' blocks only and so purges those
  of suspended customers, while `apps/api/src/admin/admin.controller.ts:603-604` calls what
  remains "historical (released) data, safe to purge".
* Two administrators who add overlapping plans at the same time pass each other's checks, which are
  separate statements from the INSERT (`admin.controller.ts:860-872`), and an address is on sale
  twice. `SoldOneWay` is therefore about plans whose check no other insertion made stale (`crossed`). The same
  holds of pools, where UNIQUE stops equal ranges only; the model
  assumes that different ranges in `PoolCidrs` are disjoint (`CidrAssumptions`).
* `chargeOneIpBlock` locks the block and does not look at its status, so one released
  while a tick has it on its list comes back to life without members, and when it is released or
  cancelled again counts its pool down a second time. `forceCancelPublicIp` in two
  overlapping ticks does so too. `CountersMatch` leaves pools out to which
  this happened (`recounted`); in the others it holds over overlapping ticks.
* Purchases that race for one address each count it: `available_count` is then too
  low for good. `CountersMatch` is the direction that holds, and of pools whose range no deleted
  pool had before: a purchase or a cancellation under way when the first pool is
  deleted meets rows of the second, and can count down there what it never counted up
  (`Repooled`; TLC finds it with two pools over the same range).
* `forceCancelTunnel` says "Unassign all attached IPs first" and does so only if one of
  them is 'allocated' (`P/billing-scheduler.ts:465`).
* `parseCidr` computes sizes with a 32-bit shift: a /1 has a negative size, which
  `cidrContains` accepts (`P/sale-plans.ts:27`).
* `gre.ts:9-11` and `tunnels.controller.ts:104-105` say that drift pushes tunnels in 'provisioning'
  again; `gre-drift.ts` selects active ones only, so a purchase whose push is lost stays
  there. `change-tier.ts` says that drift repairs a failed push of a new
  speed; the GRE drift does not compare speeds.
* The constant key `gre-activate-<id>` is answered from the cache for 24 hours, also after
  the interface is gone: drift marks the row active and succeeds only once the
  answer has expired (`GreConverges` needs that fairness). `MarkActive` has no
  condition: it makes a suspended or deleted row read 'active'.
* GRE interfaces of a gateway differ by their remotes alone, which nothing in the API checks: the second
  of two tunnels with one endpoint is never created, two tunnels that swap their endpoints are never
  changed, since each blocks the other's `ip tunnel change`, and two that swap addresses stay as they are,
  because a PATCH adds before it removes and stops at the first address that is still routed elsewhere.
  `GreConverges` and `EndpointFollowsDns` allow for a tunnel whose remote or address another
  interface has (`Claimed`, `Taken`) and ask for everything of the others.
* Two deletions of one tunnel both count it down, so `current_tunnels` may be too low
  and a gateway overfull; a customer who names the gateway passes `max_tunnels` anyway.
* An audit row that commits after the cursor has passed its `created_at`, or shares it with
  the last row of a full scan, is never mailed. `billing.suspend` and
  `billing.cancel` are listed as instant (`P/email/classifier.ts:33`) but their rows name
  no user and are skipped. A digest takes the retry count of its first event, so a
  later one may run out of attempts unsent.
* `sstp.go:267` says that the kill makes sure that "a suspend/delete takes effect now"; `DeletePeer`
  kills before it rewrites `chap-secrets` and removes the routes file, so a customer
  who reconnects in between stays connected with the addresses. OpenVPN's
  `DeletePeer` does not kill a peer it has forgotten over a restart; either backend forgets a
  suspension over a restart. `ip route del` names no device and takes the address from
  whoever has it. (`CarriesOnlyWhatWasTold` therefore speaks of peers that are
  not deleted, and `SuspendedCarriesNothing` of those the agent lists as suspended.)
* A peer that is created while its customer is connected, with other addresses than before
  (drift re-creates with the rows' present ones after a restart) or after a deletion, keeps the old
  ones: OpenVPN's `CreatePeer` does not kill (`openvpn.go:187-201`), and SSTP's passes
  no stale addresses (`sstp.go:309`). An SSTP update during ip-up.d has its removed address routed again,
  by the hook that has read it before (`sstp-ip-up.d:5`). Either lasts until the
  customer reconnects: `loose`. `runOK` drops the error of a route command (`sstp.go:196-206`), so a call
  may answer ok and leave an address where it was: counted as `torn`.

* The header of the traffic sampler says "ON CONFLICT DO NOTHING [...] so a mid-tick worker restart
  can't double-count" (`P/traffic-sampler.ts:9`); the code adds to the row. It does not count twice all the same
  (`NeverOvercounts`), because the last counter is replaced before the row is written; a restart
  between the two loses the difference instead. A gateway whose token cannot be
  decrypted ends the whole run (`buildGatewayClient` is outside the `try`), so the gateways after it are not
  sampled: `RunFails`. Two processes that sample would count twice; the model has one, as
  the deployment has.

Read and not modelled: the debounce of connection events shows a customer who reconnects within
30 seconds as offline.

## 5. What is proved

All theorems hold for every value of the constants that satisfies the named
assumptions (`BillingKinds`, `BillingNumbers`, `CodeAssumptions`,
`AgentAssumptions`, `SyncAssumptions`, `InventoryAssumptions`, `CidrAssumptions`,
`GreAssumptions`, `EmailAssumptions`, `TrafficAssumptions`, `DialInAssumptions`): any number of users, items, tickers,
requests, clients, addresses, tunnels, rows, any prices, periods and sizes.

* `SumTheorems`. The provers have no induction over finite sets that could be instantiated. Of the
  subsets a fact about sums fails of, though, one is minimal (the strict
  subset ordering of a finite set is well-founded, a theorem of the library that takes a
  set, not an operator), and what holds of all its proper subsets is
  carried over to it. Even that `Sum` satisfies its recursive equation is obtained
  in this way, since its definition is a CHOOSE. The lemmas say how a sum follows the change of a
  value, a new or a lost element, a bound on every value, and a partition into groups.
* `BillingProofs`. `TypeCorrect`, `DeadlineTheorem` and `LedgerTheorem` hold for every
  interleaving; the ledger is a set of renewals whose keys are new, so a charge adds one
  amount to the user's sum and takes it from the wallet. `NoEarlyRenewalTheorem`, `RenewalsBehindTheorem`,
  `SuspendedOnlyUnpaidTheorem`, `CancelledOnlyOverdueTheorem` and
  `GoneStaysGoneTheorem` assume `Isolated`. None of the latter is inductive alone:
  the invariant adds what is true of the lists a tick still holds (an item of a charge
  phase is billed and its cycle has begun; one of a cancel phase is suspended,
  unpaid and overdue) and that only one tick runs. Those facts fail as soon as
  ticks overlap, which is what the runs of section 4 show.
* `CodeRedemptionProofs`. `TypeCorrect`, `UsesMatchTheorem`, `WithinLimitsTheorem`,
  `ExhaustedTheorem`, `RedeemedOnlyWhileValidTheorem`, `CreditTheorem` and `BatchTotalsTheorem`. The invariant says what the locks buy: at most
  one request is past `Claim` for a code, and what it has read about the code,
  its counter and its user's redemptions, is still so; that at most one is past `LockWallet` for a wallet, and the
  balance it has read is still the balance.
* `GatewaySyncProofs`. `TypeCorrect`; `AllowedTheorem`, whose property is inductive
  over the agent's operations and their failures: a call that stops among its routes puts the peer
  among `torn` in the step that widens its allowed IPs, and one that goes through stores the very list
  it has set; and `AttachTheorem`, whose invariant adds that an
  address being moved still belongs to the owner of its target: the lock of
  `moveIp` keeps every sale, suspension and cancellation of that address out.

* `IpInventoryProofs`. `TypeCorrect`, `BlocksStayWholeTheorem`, `SoldOneWayTheorem`,
  `CountersTheorem` and `Refinement`: `Spec => Market!Spec`. The inductive invariant adds to the types and to
  `BlocksStayWhole` what rows, plans, requests and tasks have in common: rows that are sold have an
  owner and lie in the pool they name, an address that is not a member of a sold block names none,
  plans lie inside a live pool, and what a request has chosen are addresses inside
  its pool. `SoldOneWay` rests on `TaskInv`: the plan an administrator is about to add, unless its task is
  marked as crossed, is apart from every plan of its pool, since whatever was
  inserted after the check has marked it. The refinement needs one step per action: each is a step of the
  market or leaves the mapped variables alone. `CountersMatch` is far from inductive: a
  block counts down its size although some of its addresses were bought by others since, and
  one that was released and charged back to life does so again. The invariant compares the counter of a pool that is
  not in `recounted` with what is owed for it (`Owed`): one for every single address held from it, and the
  size of every sold block that was not given back, members or not. `EndInv` says
  that a block given back keeps no members, `SoldInv` that an open one names a pool and a
  size, `CountInv` that the counter covers what is owed. Each step changes both alike, or lowers what is owed by more, or
  puts the pool into `recounted`; held addresses are never more than what is owed for them.
* `AgentProofs`, on GRE. `TypeCorrect`, `LinksApartTheorem`, `CountsTheorem`. `LinksApart`
  mentions neither the processes nor deleted rows; the invariant adds that the /30s of
  all rows differ, deleted ones included, and that whoever is about to push, mark, change
  or delete a tunnel (the API, drift, editors, deletions) has seen a row that was bought, so that no
  late step gives an interface to a row without a /30. The counter is bounded
  by the cardinality of the tunnels that exist, a deletion of a deleted row included.
* `AgentProofs`, on the dial-in backends. `DialTypeCorrect`, `SuspendedTheorem`, `CarriesOnlyTheorem`, for either
  backend and any number of customers and addresses; `DialInAssumptions` says only that the
  name for "routed to nobody" is no customer's. The two properties speak of customers nothing is under way for,
  and are lost sight of as soon as a call begins. The invariant `DialInv` follows the call.
  What is left of it is an end of the plan it began with (`OnPlan`; TLC checked the whole invariant on
  the instance of `dial_in` before it was proved). `Progress` says what the steps that are behind have brought
  about and later ones, connections and restarts leave standing: the record, the file, the
  login, the cut connection, and for calls that do not cut it, what the customer may
  carry until `ip route` has run. `Kept` says what a customer keeps between calls: a file
  as empty as the record says, since the next connection is served from the file and
  not from the record, nothing beyond the last order unless the peer is loose, what a hook has read and not routed
  included, and for SSTP a login exactly while active. A call
  begins from `Kept`, and when its last step is done `Progress` gives `Kept` back (`EndsKept`). The
  theorems on both kinds of peers are in one module, without sharing any state.
* `EmailPipelineProofs`. `TypeCorrect`, `SentIsDeliveredTheorem`, `DuplicatesTheorem`,
  `NoInstantStrandedTheorem`, for digests of any size, which the instance does not reach. The invariant
  says that the groups of a batch are disjoint and still pending, and how often
  every event can have been delivered at each point of sending and marking. `TypeCorrect` bounds
  times and the cursor by the number of rows: every transaction has a row that none before it had, and
  the latest time is always the time of a row.

* `TrafficSamplerProofs`. `TypeCorrect`, `NeverOvercountsTheorem`, `ExactTheorem`. Neither property is
  inductive, because a reading is in flight while the counter goes on or starts again. The invariant keeps an
  account: what is recorded, what a reading in flight will add to the last
  one, and what the counter has grown by since that reading, together never exceed what was
  carried; for tunnels that were not disturbed the readings are in order, last, in flight, counter. That a chart
  adds up to its rows, for any range and width, is the lemma on groups of `SumTheorems`.

Only model-checked. Liveness (`DueIsHandled`, `OverdueIsEnded`, `RecordsConverge`,
`GreConverges`, `EndpointFollowsDns`, `InstantMailSettles`) and ENABLED (`SomeoneGoesOn`),
which this prover does not reach. Every other property of a passing run is a theorem. The types of
`EmailPipeline` (`TypeOK`) and `DialInAgent` (`DialTypeOK`) are the other way round: proved, and not part of a run.

## 6. Not modelled

Left out of the modules above: the scope `link` with which OpenVPN's routes are
removed, the reuse of a ppp interface's name by another customer and what ip-down.d does besides deleting the
routes of the file, the private-address conflict of the dial-in `CreatePeer`, audit rows (other than as the source of emails), notices
and texts, `last_billed_at`, `suspended_at`, the price fallback for rows without a price,
users without a wallet, the private addresses of WireGuard tunnels (their rows keep them after
deletion, as GRE rows keep their /30), speed shaping, a second concurrent drift
run, several gateways, blackhole routes. Whether a wallet covers a purchase is open in `IpInventory`. Waiting for
locks in opposite orders (`buyPublicIp` and the scheduler) is resolved by PostgreSQL, which aborts one
of the two: the models have the abort, not the wait. The agent's GRE handlers run
without a lock; each is one step here. `removeTunnel` is not modelled: nothing enqueues its job.
`DialInAgent` leaves open who calls the agent: any call may come at any time.

Not modelled at all, and why:

* Connection events: a debounced log that nothing else reads.
* Sessions and sign-in: access control, on which no modelled operation depends beyond
  the user it names.
* FRR and BGP sync: one SELECT replaces the whole list through an external program.
* The memory backend (a test double), PKI and shaping of the agent: external programs, no
  state that another part relies on.
* Read-only endpoints, the portal and the scripts: queries and presentation.

## 7. Running

    tlc -workers 2 -config billing_isolated.cfg MCBilling
    tlc -workers 2 -config gre_routes.cfg MCGreTunnels
    tlapm BillingProofs.tla

Runs are named after their `.cfg`; `PROJECT.json` lists module, properties and
expected result of each, and the mutations with which each property was seen to fail.
