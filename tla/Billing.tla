------------------------------- MODULE Billing -------------------------------
(***************************************************************************)
(* Recurring billing of tunnels, single public IPs and IP blocks           *)
(* (packages/provisioning/src/billing-scheduler.ts) together with the user *)
(* and admin operations that write the same rows.                          *)
(*                                                                         *)
(* A database transaction that locks its item row and then the wallet row  *)
(* (SELECT ... FOR UPDATE on both) is one action: nothing it reads can     *)
(* change before it commits.  What is NOT atomic is runBillingTick itself: *)
(* every phase SELECTs a list of items without locking them and then works *)
(* through the list, one transaction per item.  A ticker therefore keeps   *)
(* the phase it is in, the items of its list it has not yet handled, and   *)
(* the `now` it captured when the tick began.                              *)
(*                                                                         *)
(* Time is counted in days, the resolution of the idempotency key.         *)
(*                                                                         *)
(* Left to other modules or left out: attachment of IPs to tunnels (a      *)
(* release also requires the item to be detached), suspended_at, and the   *)
(* price fallback for rows that were never given a price.  Every user has  *)
(* a wallet.                                                               *)
(***************************************************************************)
EXTENDS Integers, Sums

CONSTANTS
  Users,          \* owners of a credit wallet
  Tunnels,        \* rows of tunnels
  Ips,            \* rows of public_ips that belong to no block
  Blocks,         \* rows of ip_blocks
  Tickers,        \* callers of runBillingTick (worker timer, queue job, script)
  Prices,         \* prices the catalogue or an admin override may give
  Adjustments,    \* amounts an admin or a redeemed code adds to a wallet
  CycleDays,      \* BILLING_CYCLE_DAYS
  GraceDays,      \* days between suspension and deletion
  Isolated,       \* TRUE: no tick overlaps another tick or an ownership change
  NoUser,         \* user_id IS NULL
  MaxDay,         \* bound on the clock
  MaxBalance,     \* bound on a wallet
  MaxFaults       \* bound on exceptions and worker crashes

Items == Tunnels \union Ips \union Blocks

(* SQL NULL in a date column. *)
Null == -1

ASSUME BillingKinds ==
  /\ Tunnels \intersect Ips = {}
  /\ Tunnels \intersect Blocks = {}
  /\ Ips \intersect Blocks = {}
  /\ NoUser \notin Users
ASSUME BillingNumbers ==
  /\ CycleDays \in Nat \ {0}
  /\ GraceDays \in Nat \ {0}
  /\ MaxDay \in Nat
  /\ MaxBalance \in Nat
  /\ MaxFaults \in Nat
  /\ Prices \subseteq Nat
  /\ Adjustments \subseteq Int \ {0}
  /\ Isolated \in BOOLEAN

VARIABLES
  now,        \* the current day
  balance,    \* credit_wallets.balance_satang
  posted,     \* per user, the sum of the ledger rows that are not renewals
  row,        \* the billing columns of every item
  renewals,   \* ledger rows written by the scheduler; item and cycle are the key
  phase,      \* per ticker: 0 idle, 1..3 charge, 4..6 cancel
  todo,       \* per ticker: items of the phase's SELECT not yet handled
  tnow,       \* per ticker: the `now` captured at the start of the tick
  faults      \* exceptions and crashes so far

wallets == <<balance, posted>>
ticks == <<phase, todo, tnow>>
vars == <<now, balance, posted, row, renewals, phase, todo, tnow, faults>>

Statuses == {"none", "provisioning", "active", "allocated", "suspended",
             "deleted", "available", "released"}

Row == [status : Statuses, user : Users \union {NoUser},
        nb : Int, da : Int, price : Prices \union {Null}]

Renewal == [item : Items, cycle : Int, user : Users \union {NoUser}, amount : Prices \union {Null}]

LiveStatus(i) == IF i \in Ips THEN "allocated" ELSE "active"
GoneStatus(i) == CASE i \in Tunnels -> "deleted"
                   [] i \in Ips     -> "available"
                   [] OTHER         -> "released"

Billed(i) == row[i].status \in {LiveStatus(i), "suspended"}

------------------------------------------------------------------------------
(* packages/billing *)

NextBillingAt(d) == d + CycleDays
DeleteAfter(d) == d + GraceDays

(* Mutation: the conflict on the idempotency key is not noticed. *)
AlreadyChargedNever(i) == FALSE

(* chargeIdempotencyKey names the kind, the id and the day of the cycle, so  *)
(* a ledger row with the same item and cycle makes the INSERT a no-op.       *)
AlreadyCharged(i) == \E r \in renewals : r.item = i /\ r.cycle = row[i].nb

(* Mutation: the balance is not compared with the price. *)
CanPayAlways(i) == TRUE

CanPay(i) == balance[row[i].user] >= row[i].price

------------------------------------------------------------------------------
(* What the transactions write into an item row. *)

(* Mutations: a renewal forgets the deadline, or forgets to open a cycle. *)
RenewedKeepsDeadline(i) ==
  [status |-> LiveStatus(i), user |-> row[i].user, nb |-> NextBillingAt(row[i].nb),
   da |-> row[i].da, price |-> row[i].price]
RenewedSameCycle(i) ==
  [status |-> LiveStatus(i), user |-> row[i].user, nb |-> row[i].nb,
   da |-> Null, price |-> row[i].price]

Renewed(i) ==
  [status |-> LiveStatus(i), user |-> row[i].user, nb |-> NextBillingAt(row[i].nb),
   da |-> Null, price |-> row[i].price]

(* Mutation: suspension sets no deadline. *)
SuspendedForever(i, t) == [row[i] EXCEPT !.status = "suspended"]

Suspended(i, t) ==
  [status |-> "suspended", user |-> row[i].user, nb |-> row[i].nb,
   da |-> IF row[i].da = Null THEN DeleteAfter(t) ELSE row[i].da,
   price |-> row[i].price]

Cancelled(i) ==
  [status |-> GoneStatus(i),
   user |-> IF i \in Ips THEN NoUser ELSE row[i].user,
   nb |-> IF i \in Ips THEN Null ELSE row[i].nb,
   da |-> Null, price |-> row[i].price]

(* The rows the charge transaction finds once it holds the lock: a tunnel    *)
(* that is not deleted, an IP that has an owner, a block in any status.      *)
Chargeable(i) ==
  CASE i \in Tunnels -> row[i].status \notin {"none", "deleted"}
    [] i \in Ips     -> row[i].user # NoUser
    [] OTHER         -> row[i].status # "none"

(* forceCancelTunnel looks for deleted_at IS NULL; the other two only check  *)
(* that the row exists.                                                      *)
Cancellable(i) == row[i].status # "none" /\ (i \in Tunnels => row[i].status # "deleted")

------------------------------------------------------------------------------
(* The SELECTs of runBillingTick. *)

(* Mutation: items are due one day early. *)
DueOneDayEarly(S, t) ==
  {i \in S : /\ Billed(i)
             /\ i \in Ips => row[i].user # NoUser
             /\ row[i].nb # Null /\ row[i].nb <= t + 1
             /\ row[i].da = Null \/ row[i].da > t}

Due(S, t) ==
  {i \in S : /\ Billed(i)
             /\ i \in Ips => row[i].user # NoUser
             /\ row[i].nb # Null /\ row[i].nb <= t
             /\ row[i].da = Null \/ row[i].da > t}

(* Mutation: the cancel phase overlooks suspended items. *)
ExpiredNotSuspended(S, t) ==
  {i \in S : row[i].status = LiveStatus(i) /\ row[i].da # Null /\ row[i].da <= t}

Expired(S, t) ==
  {i \in S : /\ IF i \in Tunnels THEN row[i].status \notin {"none", "deleted"} ELSE Billed(i)
             /\ row[i].da # Null /\ row[i].da <= t}

(* Mutation: the address phase looks at the wrong table. *)
SelectedNoIps(p, t) ==
  CASE p \in {1, 2} -> Due(Tunnels, t)
    [] p = 3 -> Due(Blocks, t)
    [] p = 4 -> Expired(Tunnels, t)
    [] p = 5 -> Expired(Ips, t)
    [] OTHER -> Expired(Blocks, t)

Selected(p, t) ==
  CASE p = 1 -> Due(Tunnels, t)
    [] p = 2 -> Due(Ips, t)
    [] p = 3 -> Due(Blocks, t)
    [] p = 4 -> Expired(Tunnels, t)
    [] p = 5 -> Expired(Ips, t)
    [] OTHER -> Expired(Blocks, t)

NoTick == \A k \in Tickers : phase[k] = 0

(* In an isolated system ticks do not overlap each other, and users take     *)
(* ownership of rows or give it up only while no tick is running.            *)
Undisturbed == Isolated => NoTick

------------------------------------------------------------------------------
Init ==
  /\ now = 0
  /\ balance = [u \in Users |-> 0]
  /\ posted = [u \in Users |-> 0]
  /\ row = [i \in Items |-> [status |-> IF i \in Ips THEN "available" ELSE "none",
                             user |-> NoUser, nb |-> Null, da |-> Null, price |-> Null]]
  /\ renewals = {}
  /\ phase = [k \in Tickers |-> 0]
  /\ todo = [k \in Tickers |-> {}]
  /\ tnow = [k \in Tickers |-> 0]
  /\ faults = 0

NewDay ==
  /\ now < MaxDay
  /\ now' = now + 1
  /\ UNCHANGED <<wallets, row, renewals, ticks, faults>>

------------------------------------------------------------------------------
(* runBillingTick *)

StartTick(k) ==
  /\ phase[k] = 0
  /\ Undisturbed
  /\ phase' = [phase EXCEPT ![k] = 1]
  /\ tnow' = [tnow EXCEPT ![k] = now]
  /\ todo' = [todo EXCEPT ![k] = Selected(1, now)]
  /\ UNCHANGED <<now, wallets, row, renewals, faults>>

NextPhase(k) ==
  /\ phase[k] \in 1..5
  /\ todo[k] = {}
  /\ phase' = [phase EXCEPT ![k] = @ + 1]
  /\ todo' = [todo EXCEPT ![k] = Selected(phase[k] + 1, tnow[k])]
  /\ UNCHANGED <<now, wallets, row, renewals, tnow, faults>>

EndTick(k) ==
  /\ phase[k] = 6
  /\ todo[k] = {}
  /\ phase' = [phase EXCEPT ![k] = 0]
  /\ tnow' = [tnow EXCEPT ![k] = 0]
  /\ UNCHANGED <<now, wallets, row, renewals, todo, faults>>

(* The try/catch around every item: the loop goes on without it. *)
ItemFails(k, i) ==
  /\ i \in todo[k]
  /\ faults < MaxFaults
  /\ faults' = faults + 1
  /\ todo' = [todo EXCEPT ![k] = @ \ {i}]
  /\ UNCHANGED <<now, wallets, row, renewals, phase, tnow>>

(* The worker process dies between two transactions of a tick. *)
WorkerCrash(k) ==
  /\ phase[k] # 0
  /\ faults < MaxFaults
  /\ faults' = faults + 1
  /\ phase' = [phase EXCEPT ![k] = 0]
  /\ todo' = [todo EXCEPT ![k] = {}]
  /\ tnow' = [tnow EXCEPT ![k] = 0]
  /\ UNCHANGED <<now, wallets, row, renewals>>

Take(k, i, phases) ==
  /\ phase[k] \in phases
  /\ i \in todo[k]
  /\ todo' = [todo EXCEPT ![k] = @ \ {i}]
  /\ UNCHANGED <<now, phase, tnow, faults>>

(* chargeOneTunnel, chargeOnePublicIp, chargeOneIpBlock: three outcomes. *)
ChargeSkipped(k, i) ==
  /\ Take(k, i, 1..3)
  /\ Chargeable(i) => CanPay(i) /\ AlreadyCharged(i)
  /\ UNCHANGED <<wallets, row, renewals>>

ChargeSuspends(k, i) ==
  /\ Take(k, i, 1..3)
  /\ Chargeable(i)
  /\ ~CanPay(i)
  /\ row' = [row EXCEPT ![i] = Suspended(i, tnow[k])]
  /\ UNCHANGED <<wallets, renewals>>

ChargeSucceeds(k, i) ==
  /\ Take(k, i, 1..3)
  /\ Chargeable(i)
  /\ CanPay(i)
  /\ ~AlreadyCharged(i)
  /\ balance' = [balance EXCEPT ![row[i].user] = @ - row[i].price]
  /\ renewals' = renewals \union
       {[item |-> i, cycle |-> row[i].nb, user |-> row[i].user, amount |-> row[i].price]}
  /\ row' = [row EXCEPT ![i] = Renewed(i)]
  /\ UNCHANGED posted

(* forceCancelTunnel, forceCancelPublicIp, forceCancelIpBlock. *)
ForceCancel(k, i) ==
  /\ Take(k, i, 4..6)
  /\ row' = IF Cancellable(i) THEN [row EXCEPT ![i] = Cancelled(i)] ELSE row
  /\ UNCHANGED <<wallets, renewals>>

Handle(k, i) == ChargeSkipped(k, i) \/ ChargeSuspends(k, i) \/ ChargeSucceeds(k, i) \/ ForceCancel(k, i)

------------------------------------------------------------------------------
(* Users and admins *)

Post(u, amount) ==
  /\ balance[u] + amount \in 0..MaxBalance
  /\ balance' = [balance EXCEPT ![u] = @ + amount]
  /\ posted' = [posted EXCEPT ![u] = @ + amount]

(* adjustCredit; a redeemed code credits the wallet in the same way. *)
AdjustCredit(u, amount) ==
  /\ Post(u, amount)
  /\ UNCHANGED <<now, row, renewals, ticks, faults>>

(* overridePrice *)
OverridePrice(i, p) ==
  /\ i \in Ips \/ row[i].status # "none"
  /\ i \in Tunnels => row[i].status # "deleted"
  /\ row' = [row EXCEPT ![i].price = p]
  /\ UNCHANGED <<now, wallets, renewals, ticks, faults>>

(* createTunnel: the row waits in 'provisioning' for the gateway. *)
CreateTunnel(u, i, p) ==
  /\ Undisturbed
  /\ row[i].status = "none"
  /\ Post(u, -p)
  /\ row' = [row EXCEPT ![i] = [status |-> "provisioning", user |-> u,
                                nb |-> NextBillingAt(now), da |-> Null, price |-> p]]
  /\ UNCHANGED <<now, renewals, ticks, faults>>

(* Mutation: the UPDATE brings a deleted row back. *)
ActivateAnyRow(i) ==
  /\ row[i].status \in {"provisioning", "deleted"}
  /\ row' = [row EXCEPT ![i].status = "active"]
  /\ UNCHANGED <<now, wallets, renewals, ticks, faults>>

(* activateTunnel, once the gateway has the peer.  Its UPDATE also reaches a *)
(* row deleted meanwhile, but deleted_at stays set and billing tests that;   *)
(* GatewaySync has that interleaving.                                        *)
ActivateTunnel(i) ==
  /\ row[i].status = "provisioning"
  /\ row' = [row EXCEPT ![i].status = "active"]
  /\ UNCHANGED <<now, wallets, renewals, ticks, faults>>

(* buyPublicIp refuses only an 'allocated' row, and its upsert leaves        *)
(* delete_after as it was.  GatewaySync has the race of two buyers.          *)
BuyPublicIp(u, i, p) ==
  /\ Undisturbed
  /\ row[i].status # "allocated"
  /\ Post(u, -p)
  /\ row' = [row EXCEPT ![i] = [status |-> "allocated", user |-> u,
                                nb |-> NextBillingAt(now), da |-> row[i].da, price |-> p]]
  /\ UNCHANGED <<now, renewals, ticks, faults>>

(* buyIpBlock inserts a new ip_blocks row. *)
BuyIpBlock(u, i, p) ==
  /\ Undisturbed
  /\ row[i].status = "none"
  /\ Post(u, -p)
  /\ row' = [row EXCEPT ![i] = [status |-> "active", user |-> u,
                                nb |-> NextBillingAt(now), da |-> Null, price |-> p]]
  /\ UNCHANGED <<now, renewals, ticks, faults>>

(* changeTunnelTier: the new tier is charged in full and starts a new cycle. *)
ChangeTunnelTier(i, p) ==
  /\ Undisturbed
  /\ row[i].status \notin {"none", "deleted", "provisioning"}
  /\ Post(row[i].user, -p)
  /\ row' = [row EXCEPT ![i] = [status |-> "active", user |-> row[i].user,
                                nb |-> NextBillingAt(now), da |-> Null, price |-> p]]
  /\ UNCHANGED <<now, renewals, ticks, faults>>

(* deleteTunnel leaves the billing dates of the soft-deleted row alone. *)
DeleteTunnel(i) ==
  /\ Undisturbed
  /\ row[i].status \notin {"none", "deleted"}
  /\ row' = [row EXCEPT ![i].status = "deleted"]
  /\ UNCHANGED <<now, wallets, renewals, ticks, faults>>

(* releasePublicIp does not touch delete_after. *)
ReleasePublicIp(i) ==
  /\ Undisturbed
  /\ row[i].status = "allocated"
  /\ row' = [row EXCEPT ![i] = [status |-> "available", user |-> NoUser,
                                nb |-> Null, da |-> row[i].da, price |-> row[i].price]]
  /\ UNCHANGED <<now, wallets, renewals, ticks, faults>>

ReleaseIpBlock(i) ==
  /\ Undisturbed
  /\ row[i].status = "active"
  /\ row' = [row EXCEPT ![i].status = "released"]
  /\ UNCHANGED <<now, wallets, renewals, ticks, faults>>

------------------------------------------------------------------------------
Tick(k) ==
  \/ StartTick(k) \/ NextPhase(k) \/ EndTick(k) \/ WorkerCrash(k)
  \/ \E i \in Items : Handle(k, i) \/ ItemFails(k, i)

Operate ==
  \/ \E u \in Users, a \in Adjustments : AdjustCredit(u, a)
  \/ \E i \in Items, p \in Prices : OverridePrice(i, p)
  \/ \E i \in Tunnels :
       \/ ActivateTunnel(i) \/ DeleteTunnel(i)
       \/ \E p \in Prices : ChangeTunnelTier(i, p) \/ \E u \in Users : CreateTunnel(u, i, p)
  \/ \E i \in Ips :
       ReleasePublicIp(i) \/ \E u \in Users, p \in Prices : BuyPublicIp(u, i, p)
  \/ \E i \in Blocks :
       ReleaseIpBlock(i) \/ \E u \in Users, p \in Prices : BuyIpBlock(u, i, p)

Next == NewDay \/ Operate \/ \E k \in Tickers : Tick(k)

Spec == Init /\ [][Next]_vars

(* The worker's timer keeps firing and a running tick goes on: every step of *)
(* a ticker is eventually taken once it stays possible.  Days pass.  Users   *)
(* owe nobody a step.                                                        *)
FairSpec ==
  /\ Spec
  /\ WF_vars(NewDay)
  /\ \A k \in Tickers :
       /\ WF_vars(StartTick(k))
       /\ WF_vars(NextPhase(k))
       /\ WF_vars(EndTick(k))
       /\ \A i \in Items : WF_vars(Handle(k, i))

------------------------------------------------------------------------------
(* Properties that hold however ticks and users interleave. *)

TypeOK ==
  /\ now \in 0..MaxDay
  /\ balance \in [Users -> 0..MaxBalance]
  /\ posted \in [Users -> Int]
  /\ row \in [Items -> Row]
  /\ \A i \in Items : Chargeable(i) => row[i].user \in Users /\ row[i].price \in Prices
  /\ renewals \subseteq Renewal
  /\ phase \in [Tickers -> 0..6]
  /\ todo \in [Tickers -> SUBSET Items]
  /\ tnow \in [Tickers -> 0..MaxDay]
  /\ faults \in 0..MaxFaults

(* Money: every wallet holds exactly what the ledger says it was given less  *)
(* what the ledger says it was charged.  A charge that drains the wallet     *)
(* without adding its ledger row (a second charge under a key that is        *)
(* already there) or the reverse breaks it.                                  *)
LedgerAccountsForBalance ==
  \A u \in Users :
    balance[u] = posted[u] - Sum([r \in renewals |-> r.amount], {r \in renewals : r.user = u})

(* A suspended item always has an owner and a deadline: it cannot be parked  *)
(* in 'suspended' where neither the charge nor the cancel phase ends it.     *)
SuspendedHasDeadline ==
  \A i \in Items : row[i].status = "suspended" => row[i].user # NoUser /\ row[i].da # Null

------------------------------------------------------------------------------
(* Properties that hold when ticks are isolated. *)

(* No cycle is charged before it begins: the scheduler never takes money for *)
(* a cycle that starts in the future, however often it is re-run.            *)
NoEarlyRenewal == \A r \in renewals : r.cycle <= now

(* The next cycle of a billed item is later than every cycle the ledger      *)
(* holds for it.  Otherwise its charge is skipped as a duplicate on every    *)
(* tick, and the item is neither paid for nor suspended ever again.          *)
RenewalsBehindNextBilling ==
  \A i \in Items, r \in renewals : Billed(i) /\ r.item = i => r.cycle < row[i].nb

(* An item is suspended only while a cycle that has begun is unpaid. *)
SuspendedOnlyUnpaid ==
  \A i \in Items : row[i].status = "suspended" => row[i].nb <= now

Overdue(i) == row[i].status = "suspended" /\ row[i].da <= now /\ row[i].nb <= now

CancelStep(k, i) ==
  /\ phase[k] \in 4..6
  /\ i \in todo[k] /\ i \notin todo'[k]
  /\ row'[i] # row[i]

(* The scheduler cancels a tunnel or a block only if it is suspended, unpaid *)
(* and past the deadline that suspension set.  Single addresses are left     *)
(* out: one bought while suspended keeps its former owner's deadline.        *)
CancelledOnlyOverdue ==
  [][\A k \in Tickers, i \in Tunnels \union Blocks : CancelStep(k, i) => Overdue(i)]_vars

(* What was given up stays given up: no step brings a deleted tunnel or a    *)
(* released block back.                                                      *)
GoneStaysGone ==
  [][\A i \in Tunnels \union Blocks :
       row[i].status = GoneStatus(i) => row'[i].status = GoneStatus(i)]_vars

------------------------------------------------------------------------------
(* Liveness, under FairSpec with isolated ticks. *)

(* An item whose cycle has begun is eventually renewed, suspended or given   *)
(* up: the scheduler never forgets one.                                      *)
DueIsHandled ==
  \A i \in Items :
    (row[i].status = LiveStatus(i) /\ row[i].nb # Null /\ row[i].nb <= now)
      ~> (~Billed(i) \/ row[i].nb > now \/ row[i].status = "suspended")

(* A suspended item past its deadline does not stay suspended. *)
OverdueIsEnded ==
  \A i \in Items : Overdue(i) ~> row[i].status # "suspended"

==============================================================================
