---------------------------- MODULE BillingProofs ----------------------------
(***************************************************************************)
(* Theorems about Billing for every set of users, items and tickers, every *)
(* price and every length of the cycle and of the grace period.            *)
(*                                                                         *)
(* TypeCorrect and DeadlineTheorem hold whatever overlaps.  The others     *)
(* take `Isolated` as a hypothesis; IsolatedInv is the inductive invariant *)
(* they follow from.                                                       *)
(***************************************************************************)
EXTENDS Billing, SumTheorems, TLAPS

(* Ticks exclude each other, and a running tick looks at a day that has come. *)
TicksExclusive ==
  /\ \A k, l \in Tickers : phase[k] # 0 /\ phase[l] # 0 => k = l
  /\ \A k \in Tickers : tnow[k] <= now
  /\ \A k \in Tickers : phase[k] = 0 => todo[k] = {}

(* What a charge phase selected is still owed when its turn comes. *)
ChargeListFresh ==
  \A k \in Tickers, i \in Items :
    phase[k] \in 1..3 /\ i \in todo[k] => Billed(i) /\ row[i].nb <= tnow[k]

(* What a cancel phase selected is still overdue when its turn comes. *)
CancelListFresh ==
  \A k \in Tickers, i \in Tunnels \union Blocks :
    phase[k] \in 4..6 /\ i \in todo[k] => Overdue(i)

Open(i) == row[i].status \notin {"none", GoneStatus(i)}

(* What an item's row says agrees with the calendar and with the ledger: a   *)
(* suspended row is owned, has a deadline and is unpaid; only suspension     *)
(* gives a tunnel or a block a deadline; and the next cycle of a row that is *)
(* in use is later than every cycle already charged to it.                   *)
ItemInv(i) ==
  /\ row[i].status = "suspended" => row[i].user # NoUser /\ row[i].da # Null /\ row[i].nb <= now
  /\ i \notin Ips /\ row[i].da # Null => row[i].status \in {"suspended", GoneStatus(i)}
  /\ Open(i) => \A r \in renewals : r.item = i => r.cycle < row[i].nb

IsolatedInv ==
  /\ TypeOK
  /\ NoEarlyRenewal
  /\ \A i \in Items : ItemInv(i)
  /\ TicksExclusive
  /\ ChargeListFresh
  /\ CancelListFresh

------------------------------------------------------------------------------
(* The rows a transaction writes are rows. *)

(* Renewed, Suspended and Cancelled keep the shape of the row they change.   *)
LEMMA WrittenRows ==
  ASSUME TypeOK, NEW i \in Items, NEW t \in Int
  PROVE  /\ Renewed(i) \in Row
         /\ Suspended(i, t) \in Row
         /\ Cancelled(i) \in Row
         /\ Renewed(i).user = row[i].user /\ Renewed(i).price = row[i].price
         /\ Suspended(i, t).user = row[i].user /\ Suspended(i, t).price = row[i].price
         /\ Cancelled(i).price = row[i].price
         /\ i \notin Ips => Cancelled(i).user = row[i].user
         /\ i \in Ips => Cancelled(i).user = NoUser
  <1>1. row[i] \in Row
    BY DEF TypeOK
  <1>2. CycleDays \in Int /\ GraceDays \in Int /\ Null \in Int
    BY BillingNumbers DEF Null
  <1>3. LiveStatus(i) \in Statuses /\ GoneStatus(i) \in Statuses
    BY DEF LiveStatus, GoneStatus, Statuses
  <1>4. Renewed(i) \in Row /\ Renewed(i).user = row[i].user /\ Renewed(i).price = row[i].price
    BY <1>1, <1>2, <1>3 DEF Renewed, NextBillingAt, Row
  <1>5. Suspended(i, t) \in Row /\ Suspended(i, t).user = row[i].user
        /\ Suspended(i, t).price = row[i].price
    BY <1>1, <1>2 DEF Suspended, DeleteAfter, Row, Statuses
  <1>6. /\ Cancelled(i) \in Row
        /\ Cancelled(i).price = row[i].price
        /\ i \notin Ips => Cancelled(i).user = row[i].user
        /\ i \in Ips => Cancelled(i).user = NoUser
    BY <1>1, <1>2, <1>3 DEF Cancelled, Row, Statuses
  <1> QED
    BY <1>4, <1>5, <1>6

(* One transaction writes one row, and a row that can be charged names an    *)
(* owner with a wallet and a price.                                          *)
LEMMA WriteRow ==
  ASSUME TypeOK, NEW i \in Items, NEW r \in Row,
         row' = [row EXCEPT ![i] = r],
         \/ r.user \in Users /\ r.price \in Prices
         \/ i \in Ips /\ r.user = NoUser
         \/ i \in Tunnels /\ r.status = "deleted"
  PROVE  /\ row' \in [Items -> Row]
         /\ \A j \in Items : Chargeable(j)' => row'[j].user \in Users /\ row'[j].price \in Prices
         /\ row'[i] = r
         /\ \A j \in Items : j # i => row'[j] = row[j]
  <1>1. row' \in [Items -> Row] /\ row'[i] = r /\ \A j \in Items : j # i => row'[j] = row[j]
    BY DEF TypeOK
  <1>2. ASSUME NEW j \in Items, Chargeable(j)'
        PROVE  row'[j].user \in Users /\ row'[j].price \in Prices
    <2>1. CASE j # i
      <3>1. Chargeable(j)
        BY <1>1, <1>2, <2>1 DEF Chargeable
      <3> QED
        BY <1>1, <2>1, <3>1 DEF TypeOK
    <2>2. CASE j = i
      BY <1>1, <1>2, <2>2, BillingKinds DEF Chargeable
    <2> QED
      BY <2>1, <2>2
  <1> QED
    BY <1>1, <1>2

(* A wallet transaction that passes its balance check keeps the wallet.      *)
LEMMA PostTyped ==
  ASSUME TypeOK, NEW u \in Users, NEW a \in Int, Post(u, a)
  PROVE  balance' \in [Users -> 0..MaxBalance] /\ posted' \in [Users -> Int]
  BY DEF TypeOK, Post

LEMMA SelectedTyped ==
  ASSUME NEW p, NEW t
  PROVE  Selected(p, t) \subseteq Items
  BY DEF Selected, Due, Expired, Items

(* The rest of TypeOK, for actions that touch neither clock nor tickers.     *)
LEMMA TypeRest ==
  ASSUME TypeOK, UNCHANGED <<now, renewals, ticks, faults>>,
         balance' \in [Users -> 0..MaxBalance], posted' \in [Users -> Int],
         row' \in [Items -> Row],
         \A j \in Items : Chargeable(j)' => row'[j].user \in Users /\ row'[j].price \in Prices
  PROVE  TypeOK'
  BY DEF TypeOK, ticks

(* Initially every wallet is empty and nothing is owned. *)
LEMMA TypeInit == Init => TypeOK
  <1> SUFFICES ASSUME Init PROVE TypeOK
    OBVIOUS
  <1>1. row \in [Items -> Row]
    BY DEF Init, Row, Statuses, Null
  <1>2. \A i \in Items : ~Chargeable(i)
    BY BillingKinds DEF Init, Chargeable, Items
  <1> QED
    BY <1>1, <1>2, BillingNumbers DEF Init, TypeOK, Null

(* Steps of a ticker that write no row: they move through the phases.        *)
LEMMA TypeTickerOnly ==
  ASSUME TypeOK, NEW k \in Tickers,
         UNCHANGED <<now, wallets, row, renewals>>,
         phase' \in [Tickers -> 0..6], todo' \in [Tickers -> SUBSET Items],
         tnow' \in [Tickers -> 0..MaxDay], faults' \in 0..MaxFaults
  PROVE  TypeOK'
  <1>1. \A i \in Items : Chargeable(i)' <=> Chargeable(i)
    BY DEF Chargeable
  <1> QED
    BY <1>1 DEF TypeOK, wallets

(* Handling one item of a list keeps every type. *)
LEMMA TypeHandle ==
  ASSUME TypeOK, NEW k \in Tickers, NEW i \in Items, Handle(k, i)
  PROVE  TypeOK'
  <1>1. /\ todo' \in [Tickers -> SUBSET Items] /\ UNCHANGED <<now, phase, tnow, faults>>
        /\ tnow[k] \in Int
    BY DEF Handle, ChargeSkipped, ChargeSuspends, ChargeSucceeds, ForceCancel, Take, TypeOK
  <1>2. CASE ChargeSkipped(k, i)
    BY <1>1, <1>2, TypeTickerOnly DEF ChargeSkipped, TypeOK
  <1>3. CASE ChargeSuspends(k, i)
    <2>1. Chargeable(i) /\ row[i].user \in Users /\ row[i].price \in Prices
      BY <1>3 DEF ChargeSuspends, TypeOK
    <2>2. /\ row' \in [Items -> Row]
          /\ \A j \in Items : Chargeable(j)' => row'[j].user \in Users /\ row'[j].price \in Prices
      BY <1>1, <1>3, <2>1, WrittenRows, WriteRow DEF ChargeSuspends
    <2> QED
      BY <1>1, <1>3, <2>2 DEF ChargeSuspends, TypeOK, wallets
  <1>4. CASE ChargeSucceeds(k, i)
    <2>1. row[i].user \in Users /\ row[i].price \in Prices /\ row[i].nb \in Int
      BY <1>4 DEF ChargeSucceeds, TypeOK, Row
    <2>2. /\ row' \in [Items -> Row]
          /\ \A j \in Items : Chargeable(j)' => row'[j].user \in Users /\ row'[j].price \in Prices
      <3>1. Renewed(i) \in Row /\ Renewed(i).user \in Users /\ Renewed(i).price \in Prices
        BY <1>1, <2>1, WrittenRows
      <3> QED
        BY <1>4, <3>1, WriteRow DEF ChargeSucceeds
    <2>3. balance' \in [Users -> 0..MaxBalance]
      <3>1. row[i].price \in Nat /\ balance[row[i].user] \in 0..MaxBalance
            /\ balance[row[i].user] >= row[i].price
        BY <1>4, <2>1, BillingNumbers DEF ChargeSucceeds, CanPay, TypeOK
      <3>2. balance[row[i].user] - row[i].price \in 0..MaxBalance
        BY <3>1, BillingNumbers
      <3> QED
        BY <1>4, <2>1, <3>2 DEF ChargeSucceeds, TypeOK
    <2>4. renewals' \subseteq Renewal
      <3>1. [item |-> i, cycle |-> row[i].nb, user |-> row[i].user, amount |-> row[i].price] \in Renewal
        BY <2>1 DEF Renewal
      <3> QED
        BY <1>4, <3>1 DEF ChargeSucceeds, TypeOK
    <2> QED
      BY <1>1, <1>4, <2>2, <2>3, <2>4 DEF ChargeSucceeds, TypeOK
  <1>5. CASE ForceCancel(k, i)
    <2>1. CASE Cancellable(i)
      <3>1. /\ Cancelled(i) \in Row /\ Cancelled(i).price = row[i].price
            /\ i \notin Ips => Cancelled(i).user = row[i].user
            /\ i \in Ips => Cancelled(i).user = NoUser
        BY <1>1, WrittenRows
      <3>2. i \notin Ips => row[i].user \in Users /\ row[i].price \in Prices
        BY <2>1 DEF Cancellable, Chargeable, TypeOK
      <3>3. /\ row' \in [Items -> Row]
            /\ \A j \in Items : Chargeable(j)' => row'[j].user \in Users /\ row'[j].price \in Prices
        BY <1>5, <2>1, <3>1, <3>2, WriteRow DEF ForceCancel
      <3> QED
        BY <1>1, <1>5, <3>3 DEF ForceCancel, TypeOK, wallets
    <2>2. CASE ~Cancellable(i)
      BY <1>1, <1>5, <2>2, TypeTickerOnly DEF ForceCancel, TypeOK
    <2> QED
      BY <2>1, <2>2
  <1> QED
    BY <1>2, <1>3, <1>4, <1>5 DEF Handle

(* Every step of a ticker keeps every type. *)
LEMMA TypeTick ==
  ASSUME TypeOK, NEW k \in Tickers, Tick(k)
  PROVE  TypeOK'
  <1>1. CASE StartTick(k)
    <2>1. todo' \in [Tickers -> SUBSET Items]
      BY <1>1, SelectedTyped DEF StartTick, TypeOK
    <2> QED
      BY <1>1, <2>1, TypeTickerOnly DEF StartTick, TypeOK
  <1>2. CASE NextPhase(k)
    <2>1. todo' \in [Tickers -> SUBSET Items]
      BY <1>2, SelectedTyped DEF NextPhase, TypeOK
    <2> QED
      BY <1>2, <2>1, TypeTickerOnly DEF NextPhase, TypeOK
  <1>3. CASE EndTick(k)
    BY <1>3, TypeTickerOnly, BillingNumbers DEF EndTick, TypeOK
  <1>4. CASE WorkerCrash(k)
    BY <1>4, TypeTickerOnly, BillingNumbers DEF WorkerCrash, TypeOK
  <1>5. ASSUME NEW i \in Items, Handle(k, i) PROVE TypeOK'
    BY <1>5, TypeHandle
  <1>6. ASSUME NEW i \in Items, ItemFails(k, i) PROVE TypeOK'
    BY <1>6, TypeTickerOnly, BillingNumbers DEF ItemFails, TypeOK
  <1> QED
    BY <1>1, <1>2, <1>3, <1>4, <1>5, <1>6 DEF Tick

(* A new or rewritten row of an owner with a wallet. *)
LEMMA OwnedRow ==
  ASSUME NEW s \in Statuses, NEW u \in Users, NEW p \in Prices, NEW n \in Int, NEW d \in Int
  PROVE  [status |-> s, user |-> u, nb |-> n, da |-> d, price |-> p] \in Row
  BY DEF Row

(* Every operation of a user or an admin keeps every type. *)
LEMMA TypeOperate ==
  ASSUME TypeOK, Operate
  PROVE  TypeOK'
  <1>0. /\ NextBillingAt(now) \in Int /\ Null \in Int /\ Prices \subseteq Int
        /\ Tunnels \subseteq Items /\ Ips \subseteq Items /\ Blocks \subseteq Items
        /\ row \in [Items -> Row]
        /\ \A i \in Items : row[i].da \in Int
    BY BillingNumbers DEF NextBillingAt, TypeOK, Null, Items, Row
  <1>1. ASSUME NEW u \in Users, NEW a \in Adjustments, AdjustCredit(u, a) PROVE TypeOK'
    <2>1. a \in Int
      BY BillingNumbers
    <2>2. balance' \in [Users -> 0..MaxBalance] /\ posted' \in [Users -> Int]
      BY <1>1, <2>1, PostTyped DEF AdjustCredit
    <2>3. \A j \in Items : Chargeable(j)' => row'[j].user \in Users /\ row'[j].price \in Prices
      BY <1>1 DEF AdjustCredit, TypeOK, Chargeable
    <2> QED
      BY <1>0, <1>1, <2>2, <2>3, TypeRest DEF AdjustCredit
  <1>2. ASSUME NEW i \in Items, NEW p \in Prices, OverridePrice(i, p) PROVE TypeOK'
    <2>1. [row[i] EXCEPT !.price = p] \in Row /\ row' = [row EXCEPT ![i] = [row[i] EXCEPT !.price = p]]
      BY <1>0, <1>2 DEF OverridePrice, Row
    <2>2. i \notin Ips => row[i].user \in Users
      BY <1>2 DEF OverridePrice, Chargeable, TypeOK
    <2>3. row[i].user \in Users \/ (i \in Ips /\ row[i].user = NoUser)
      BY <2>2, <1>0 DEF Row
    <2>4. [row[i] EXCEPT !.price = p].user = row[i].user /\ [row[i] EXCEPT !.price = p].price = p
      BY <1>0 DEF Row
    <2>5. /\ row' \in [Items -> Row]
          /\ \A j \in Items : Chargeable(j)' => row'[j].user \in Users /\ row'[j].price \in Prices
      BY <2>1, <2>3, <2>4, WriteRow
    <2> QED
      BY <1>0, <1>2, <2>5, TypeRest DEF OverridePrice, wallets, TypeOK
  <1>3. ASSUME NEW i \in Tunnels, ActivateTunnel(i) PROVE TypeOK'
    <2>1. [row[i] EXCEPT !.status = "active"] \in Row
          /\ row' = [row EXCEPT ![i] = [row[i] EXCEPT !.status = "active"]]
      BY <1>0, <1>3 DEF ActivateTunnel, Row, Statuses
    <2>2. row[i].user \in Users /\ row[i].price \in Prices
      BY <1>0, <1>3, BillingKinds DEF ActivateTunnel, Chargeable, TypeOK
    <2>3. [row[i] EXCEPT !.status = "active"].user = row[i].user
          /\ [row[i] EXCEPT !.status = "active"].price = row[i].price
      BY <1>0 DEF Row
    <2>4. /\ row' \in [Items -> Row]
          /\ \A j \in Items : Chargeable(j)' => row'[j].user \in Users /\ row'[j].price \in Prices
      BY <1>0, <2>1, <2>2, <2>3, WriteRow
    <2> QED
      BY <1>0, <1>3, <2>4, TypeRest DEF ActivateTunnel, wallets, TypeOK
  <1>4. ASSUME NEW i \in Tunnels, DeleteTunnel(i) PROVE TypeOK'
    <2>1. [row[i] EXCEPT !.status = "deleted"] \in Row
          /\ [row[i] EXCEPT !.status = "deleted"].status = "deleted"
          /\ row' = [row EXCEPT ![i] = [row[i] EXCEPT !.status = "deleted"]]
      BY <1>0, <1>4 DEF DeleteTunnel, Row, Statuses
    <2>2. /\ row' \in [Items -> Row]
          /\ \A j \in Items : Chargeable(j)' => row'[j].user \in Users /\ row'[j].price \in Prices
      BY <1>0, <2>1, WriteRow
    <2> QED
      BY <1>0, <1>4, <2>2, TypeRest DEF DeleteTunnel, wallets, TypeOK
  <1>5. ASSUME NEW i \in Tunnels, NEW p \in Prices, ChangeTunnelTier(i, p) PROVE TypeOK'
    <2>1. row[i].user \in Users
      BY <1>0, <1>5, BillingKinds DEF ChangeTunnelTier, Chargeable, TypeOK
    <2>2. balance' \in [Users -> 0..MaxBalance] /\ posted' \in [Users -> Int]
      BY <1>0, <1>5, <2>1, PostTyped DEF ChangeTunnelTier
    <2>3. /\ row' \in [Items -> Row]
          /\ \A j \in Items : Chargeable(j)' => row'[j].user \in Users /\ row'[j].price \in Prices
      BY <1>0, <1>5, <2>1, OwnedRow, WriteRow DEF ChangeTunnelTier, Statuses
    <2> QED
      BY <1>0, <1>5, <2>2, <2>3, TypeRest DEF ChangeTunnelTier
  <1>6. ASSUME NEW i \in Tunnels, NEW p \in Prices, NEW u \in Users, CreateTunnel(u, i, p) PROVE TypeOK'
    <2>1. balance' \in [Users -> 0..MaxBalance] /\ posted' \in [Users -> Int]
      BY <1>0, <1>6, PostTyped DEF CreateTunnel
    <2>2. /\ row' \in [Items -> Row]
          /\ \A j \in Items : Chargeable(j)' => row'[j].user \in Users /\ row'[j].price \in Prices
      BY <1>0, <1>6, OwnedRow, WriteRow DEF CreateTunnel, Statuses
    <2> QED
      BY <1>0, <1>6, <2>1, <2>2, TypeRest DEF CreateTunnel
  <1>7. ASSUME NEW i \in Ips, ReleasePublicIp(i) PROVE TypeOK'
    <2>1. [status |-> "available", user |-> NoUser, nb |-> Null, da |-> row[i].da, price |-> row[i].price] \in Row
      BY <1>0 DEF Row, Statuses
    <2>2. /\ row' \in [Items -> Row]
          /\ \A j \in Items : Chargeable(j)' => row'[j].user \in Users /\ row'[j].price \in Prices
      BY <1>0, <1>7, <2>1, WriteRow DEF ReleasePublicIp
    <2> QED
      BY <1>0, <1>7, <2>2, TypeRest DEF ReleasePublicIp, wallets, TypeOK
  <1>8. ASSUME NEW i \in Ips, NEW p \in Prices, NEW u \in Users, BuyPublicIp(u, i, p) PROVE TypeOK'
    <2>1. balance' \in [Users -> 0..MaxBalance] /\ posted' \in [Users -> Int]
      BY <1>0, <1>8, PostTyped DEF BuyPublicIp
    <2>2. /\ row' \in [Items -> Row]
          /\ \A j \in Items : Chargeable(j)' => row'[j].user \in Users /\ row'[j].price \in Prices
      BY <1>0, <1>8, OwnedRow, WriteRow DEF BuyPublicIp, Statuses
    <2> QED
      BY <1>0, <1>8, <2>1, <2>2, TypeRest DEF BuyPublicIp
  <1>9. ASSUME NEW i \in Blocks, NEW p \in Prices, NEW u \in Users, BuyIpBlock(u, i, p) PROVE TypeOK'
    <2>1. balance' \in [Users -> 0..MaxBalance] /\ posted' \in [Users -> Int]
      BY <1>0, <1>9, PostTyped DEF BuyIpBlock
    <2>2. /\ row' \in [Items -> Row]
          /\ \A j \in Items : Chargeable(j)' => row'[j].user \in Users /\ row'[j].price \in Prices
      BY <1>0, <1>9, OwnedRow, WriteRow DEF BuyIpBlock, Statuses
    <2> QED
      BY <1>0, <1>9, <2>1, <2>2, TypeRest DEF BuyIpBlock
  <1>10. ASSUME NEW i \in Blocks, ReleaseIpBlock(i) PROVE TypeOK'
    <2>1. [row[i] EXCEPT !.status = "released"] \in Row
          /\ row' = [row EXCEPT ![i] = [row[i] EXCEPT !.status = "released"]]
      BY <1>0, <1>10 DEF ReleaseIpBlock, Row, Statuses
    <2>2. row[i].user \in Users /\ row[i].price \in Prices
      BY <1>0, <1>10, BillingKinds DEF ReleaseIpBlock, Chargeable, TypeOK
    <2>3. [row[i] EXCEPT !.status = "released"].user = row[i].user
          /\ [row[i] EXCEPT !.status = "released"].price = row[i].price
      BY <1>0 DEF Row
    <2>4. /\ row' \in [Items -> Row]
          /\ \A j \in Items : Chargeable(j)' => row'[j].user \in Users /\ row'[j].price \in Prices
      BY <1>0, <2>1, <2>2, <2>3, WriteRow
    <2> QED
      BY <1>0, <1>10, <2>4, TypeRest DEF ReleaseIpBlock, wallets, TypeOK
  <1> QED
    BY <1>1, <1>2, <1>3, <1>4, <1>5, <1>6, <1>7, <1>8, <1>9, <1>10 DEF Operate

LEMMA TypeStep ==
  ASSUME TypeOK, [Next]_vars
  PROVE  TypeOK'
  <1>1. CASE NewDay
    <2>1. \A i \in Items : Chargeable(i)' <=> Chargeable(i)
      BY <1>1 DEF NewDay, Chargeable
    <2> QED
      BY <1>1, <2>1, BillingNumbers DEF NewDay, TypeOK, wallets, ticks
  <1>2. CASE Operate
    BY <1>2, TypeOperate
  <1>3. ASSUME NEW k \in Tickers, Tick(k) PROVE TypeOK'
    BY <1>3, TypeTick
  <1>4. CASE UNCHANGED vars
    <2>1. \A i \in Items : Chargeable(i)' <=> Chargeable(i)
      BY <1>4 DEF vars, Chargeable
    <2> QED
      BY <1>4, <2>1 DEF vars, TypeOK
  <1> QED
    BY <1>1, <1>2, <1>3, <1>4 DEF Next

(* No transaction, in any order, overdraws a wallet or leaves a row that can *)
(* be charged without an owner and a price.                                  *)
THEOREM TypeCorrect == Spec => []TypeOK
  BY TypeInit, TypeStep, PTL DEF Spec

------------------------------------------------------------------------------
(* Suspension and its deadline, whatever overlaps. *)

(* A row whose status, owner and deadline are untouched, or that ends up in  *)
(* another status, or that suspension wrote, satisfies SuspendedHasDeadline. *)
LEMMA DeadlineStep ==
  ASSUME TypeOK, SuspendedHasDeadline, [Next]_vars, NEW j \in Items, row'[j].status = "suspended"
  PROVE  row'[j].user # NoUser /\ row'[j].da # Null
  <1>0. /\ row \in [Items -> Row] /\ row[j] \in Row
        /\ Tunnels \subseteq Items /\ Ips \subseteq Items /\ Blocks \subseteq Items
        /\ row[j].status = "suspended" => row[j].user # NoUser /\ row[j].da # Null
    BY DEF TypeOK, Items, SuspendedHasDeadline
  <1>1. CASE row'[j] = row[j]
    BY <1>0, <1>1
  <1>2. ASSUME NEW k \in Tickers, NEW i \in Items, Handle(k, i)
        PROVE  row'[j].user # NoUser /\ row'[j].da # Null
    <2>1. CASE ChargeSuspends(k, i) /\ i = j
      <3>1. row'[j] = Suspended(j, tnow[k]) /\ Chargeable(j)
        BY <1>0, <2>1 DEF ChargeSuspends
      <3>2. row[j].user # NoUser
        BY <3>1, BillingKinds DEF TypeOK
      <3>3. tnow[k] \in Nat /\ GraceDays \in Nat
        BY BillingNumbers DEF TypeOK
      <3> QED
        BY <3>1, <3>2, <3>3 DEF Suspended, DeleteAfter, Null
    <2>2. CASE ~(ChargeSuspends(k, i) /\ i = j)
      <3>1. row'[j] = row[j] \/ row'[j] = Renewed(j) \/ row'[j] = Cancelled(j)
        BY <1>0, <1>2, <2>2 DEF Handle, ChargeSkipped, ChargeSuspends, ChargeSucceeds, ForceCancel
      <3>2. Renewed(j).status # "suspended" /\ Cancelled(j).status # "suspended"
        BY DEF Renewed, Cancelled, LiveStatus, GoneStatus
      <3> QED
        BY <1>1, <3>1, <3>2
    <2> QED
      BY <2>1, <2>2
  <1>3. ASSUME NEW i \in Items, NEW p \in Prices, OverridePrice(i, p)
        PROVE  row'[j].user # NoUser /\ row'[j].da # Null
    <2>1. row'[j] = row[j] \/ row'[j] = [row[j] EXCEPT !.price = p]
      BY <1>0, <1>3 DEF OverridePrice
    <2>2. [row[j] EXCEPT !.price = p].status = row[j].status /\ [row[j] EXCEPT !.price = p].user = row[j].user
          /\ [row[j] EXCEPT !.price = p].da = row[j].da
      BY <1>0 DEF Row
    <2> QED
      BY <1>0, <2>1, <2>2
  <1>4. ASSUME Operate, \A i \in Items, p \in Prices : ~OverridePrice(i, p)
        PROVE  row'[j].user # NoUser /\ row'[j].da # Null
    <2>1. row'[j] = row[j] \/ row'[j].status # "suspended"
      <3>1. \A s \in Statuses : [row[j] EXCEPT !.status = s].status = s
        BY <1>0 DEF Row
      <3>2. CASE \E i \in Tunnels : ActivateTunnel(i) \/ DeleteTunnel(i)
        BY <1>0, <3>1, <3>2 DEF ActivateTunnel, DeleteTunnel, Statuses
      <3>3. CASE \E i \in Blocks : ReleaseIpBlock(i)
        BY <1>0, <3>1, <3>3 DEF ReleaseIpBlock, Statuses
      <3>4. CASE \E i \in Tunnels, p \in Prices :
                   ChangeTunnelTier(i, p) \/ \E u \in Users : CreateTunnel(u, i, p)
        BY <1>0, <3>4 DEF ChangeTunnelTier, CreateTunnel
      <3>5. CASE \E i \in Ips : ReleasePublicIp(i) \/ \E u \in Users, p \in Prices : BuyPublicIp(u, i, p)
        BY <1>0, <3>5 DEF ReleasePublicIp, BuyPublicIp
      <3>6. CASE \E i \in Blocks, u \in Users, p \in Prices : BuyIpBlock(u, i, p)
        BY <1>0, <3>6 DEF BuyIpBlock
      <3>7. CASE \E u \in Users, a \in Adjustments : AdjustCredit(u, a)
        BY <3>7 DEF AdjustCredit
      <3> QED
        BY <1>4, <3>2, <3>3, <3>4, <3>5, <3>6, <3>7 DEF Operate
    <2> QED
      BY <1>1, <2>1
  <1>5. CASE NewDay \/ UNCHANGED vars
    BY <1>1, <1>5 DEF NewDay, vars
  <1>6. ASSUME NEW k \in Tickers, Tick(k), \A i \in Items : ~Handle(k, i)
        PROVE  row'[j].user # NoUser /\ row'[j].da # Null
    BY <1>1, <1>6 DEF Tick, StartTick, NextPhase, EndTick, WorkerCrash, ItemFails
  <1> QED
    BY <1>2, <1>3, <1>4, <1>5, <1>6 DEF Next

(* However ticks and users overlap, a suspended item has an owner and a      *)
(* deadline, so that one of the two phases of the next tick deals with it.   *)
THEOREM DeadlineTheorem == Spec => []SuspendedHasDeadline
  <1>1. Init => SuspendedHasDeadline
    BY DEF Init, SuspendedHasDeadline
  <1>2. TypeOK /\ SuspendedHasDeadline /\ [Next]_vars => SuspendedHasDeadline'
    BY DeadlineStep DEF SuspendedHasDeadline
  <1> QED
    BY <1>1, <1>2, TypeCorrect, PTL DEF Spec

------------------------------------------------------------------------------
(* Money, whatever overlaps. *)

(* A set of ledger rows can be added up only while it is finite. *)
LedgerInv == IsFiniteSet(renewals) /\ LedgerAccountsForBalance

Amounts == [r \in renewals |-> r.amount]
RenewalsOf(u) == {r \in renewals : r.user = u}

(* A step leaves money and ledger alone, posts one amount to one wallet, or  *)
(* charges one item.                                                         *)
LEMMA LedgerCases ==
  ASSUME TypeOK, [Next]_vars
  PROVE  \/ UNCHANGED <<balance, posted, renewals>>
         \/ renewals' = renewals /\ \E u \in Users, a \in Int : Post(u, a)
         \/ \E k \in Tickers, i \in Items : ChargeSucceeds(k, i)
  <1>0. /\ Prices \subseteq Nat /\ Adjustments \subseteq Int /\ \A p \in Prices : -p \in Int
        /\ Tunnels \subseteq Items
    BY BillingNumbers DEF Items
  <1>1. CASE NewDay \/ UNCHANGED vars
    BY <1>1 DEF NewDay, vars, wallets
  <1>2. CASE \E u \in Users, a \in Adjustments : AdjustCredit(u, a)
    BY <1>0, <1>2 DEF AdjustCredit
  <1>3. CASE \E i \in Items, p \in Prices : OverridePrice(i, p)
    BY <1>3 DEF OverridePrice, wallets
  <1>4. CASE \E i \in Tunnels : ActivateTunnel(i) \/ DeleteTunnel(i)
    BY <1>4 DEF ActivateTunnel, DeleteTunnel, wallets
  <1>5. CASE \E i \in Tunnels, p \in Prices : ChangeTunnelTier(i, p)
    <2>1. PICK i \in Tunnels, p \in Prices : ChangeTunnelTier(i, p)
      BY <1>5
    <2>2. row[i].user \in Users
      BY <1>0, <2>1, BillingKinds DEF ChangeTunnelTier, Chargeable, TypeOK
    <2> QED
      BY <1>0, <2>1, <2>2 DEF ChangeTunnelTier
  <1>6. CASE \E i \in Tunnels, p \in Prices, u \in Users : CreateTunnel(u, i, p)
    BY <1>0, <1>6 DEF CreateTunnel
  <1>7. CASE \E i \in Ips : ReleasePublicIp(i)
    BY <1>7 DEF ReleasePublicIp, wallets
  <1>8. CASE \E i \in Ips, u \in Users, p \in Prices : BuyPublicIp(u, i, p)
    BY <1>0, <1>8 DEF BuyPublicIp
  <1>9. CASE \E i \in Blocks : ReleaseIpBlock(i)
    BY <1>9 DEF ReleaseIpBlock, wallets
  <1>10. CASE \E i \in Blocks, u \in Users, p \in Prices : BuyIpBlock(u, i, p)
    BY <1>0, <1>10 DEF BuyIpBlock
  <1>11. ASSUME NEW k \in Tickers, Tick(k), \A i \in Items : ~ChargeSucceeds(k, i)
         PROVE  UNCHANGED <<balance, posted, renewals>>
    BY <1>11 DEF Tick, StartTick, NextPhase, EndTick, WorkerCrash, ItemFails, Handle,
                 ChargeSkipped, ChargeSuspends, ForceCancel, wallets
  <1> QED
    BY <1>1, <1>2, <1>3, <1>4, <1>5, <1>6, <1>7, <1>8, <1>9, <1>10, <1>11 DEF Next, Operate

(* What the rows of one user add up to, before and after a charge: the row   *)
(* is new because the key was free, and it counts for its owner only.        *)
LEMMA ChargeAddsUp ==
  ASSUME TypeOK, IsFiniteSet(renewals), NEW k \in Tickers, NEW i \in Items, ChargeSucceeds(k, i),
         NEW u \in Users
  PROVE  /\ IsFiniteSet(renewals')
         /\ Sum(Amounts', RenewalsOf(u)') =
              Sum(Amounts, RenewalsOf(u)) + (IF u = row[i].user THEN row[i].price ELSE 0)
         /\ Sum(Amounts, RenewalsOf(u)) \in Int
  <1> DEFINE new == [item |-> i, cycle |-> row[i].nb, user |-> row[i].user, amount |-> row[i].price]
             new_rows == renewals \union {new}
             f == [r \in renewals |-> r.amount]
             g == [r \in new_rows |-> r.amount]
             S == {r \in renewals : r.user = u}
  <1>1. renewals' = new_rows /\ new \notin renewals
    BY DEF ChargeSucceeds, AlreadyCharged
  <1>2. row[i].price \in Int /\ \A r \in renewals : r.amount \in Int
    <2>1. Prices \subseteq Int /\ Null \in Int
      BY BillingNumbers DEF Null
    <2> QED
      BY <2>1 DEF ChargeSucceeds, TypeOK, Renewal
  <1>3. IsFiniteSet(S) /\ IsFiniteSet(new_rows)
    BY FS_Subset, FS_AddElement
  <1>4. /\ \A r \in S : f[r] = g[r] /\ f[r] \in Int /\ g[r] \in Int
        /\ new \notin S /\ g[new] = row[i].price
    BY <1>1, <1>2
  <1>5. {r \in new_rows : r.user = u} = IF u = row[i].user THEN S \union {new} ELSE S
    OBVIOUS
  <1>6. /\ Amounts' = g /\ RenewalsOf(u)' = {r \in new_rows : r.user = u}
        /\ Amounts = f /\ RenewalsOf(u) = S
    BY <1>1 DEF Amounts, RenewalsOf
  <1> HIDE DEF new, new_rows, f, g, S
  <1>7. Sum(g, S) = Sum(f, S) /\ Sum(f, S) \in Int
    BY <1>3, <1>4, SumSame, SumInt
  <1>8. Sum(g, S \union {new}) = g[new] + Sum(g, S)
    BY <1>2, <1>3, <1>4, SumAdd
  <1>9. CASE u = row[i].user
    <2>1. {r \in new_rows : r.user = u} = S \union {new}
      BY <1>5, <1>9
    <2>2. Sum(g, {r \in new_rows : r.user = u}) = row[i].price + Sum(f, S)
      BY <1>4, <1>7, <1>8, <2>1
    <2>3. Sum(g, {r \in new_rows : r.user = u}) = Sum(f, S) + row[i].price
      BY <1>2, <1>7, <2>2
    <2> QED
      BY <1>1, <1>3, <1>6, <1>7, <1>9, <2>3
  <1>10. CASE u # row[i].user
    <2>1. {r \in new_rows : r.user = u} = S
      BY <1>5, <1>10
    <2>2. Sum(g, {r \in new_rows : r.user = u}) = Sum(f, S)
      BY <1>7, <2>1
    <2>3. Sum(f, S) = Sum(f, S) + 0
      BY <1>7
    <2> QED
      BY <1>1, <1>3, <1>6, <1>7, <1>10, <2>2, <2>3
  <1> QED
    BY <1>9, <1>10

LEMMA LedgerStep ==
  ASSUME TypeOK, LedgerInv, [Next]_vars
  PROVE  LedgerInv'
  <1>1. CASE UNCHANGED <<balance, posted, renewals>>
    BY <1>1 DEF LedgerInv, LedgerAccountsForBalance
  <1>2. CASE renewals' = renewals /\ \E u \in Users, a \in Int : Post(u, a)
    <2>1. PICK u \in Users, a \in Int : Post(u, a)
      BY <1>2
    <2>2. \A v \in Users : Sum(Amounts, RenewalsOf(v)) \in Int
      <3>1. \A r \in renewals : r.amount \in Int
        <4>1. Prices \subseteq Int /\ Null \in Int
          BY BillingNumbers DEF Null
        <4> QED
          BY <4>1 DEF TypeOK, Renewal
      <3>2. \A v \in Users : IsFiniteSet(RenewalsOf(v))
        BY FS_Subset DEF LedgerInv, RenewalsOf
      <3>3. \A v \in Users : \A r \in RenewalsOf(v) : Amounts[r] \in Int
        BY <3>1 DEF Amounts, RenewalsOf
      <3> QED
        BY <3>2, <3>3, SumInt
    <2>3. \A v \in Users : balance[v] = posted[v] - Sum(Amounts, RenewalsOf(v))
      BY DEF LedgerInv, LedgerAccountsForBalance, Amounts, RenewalsOf
    <2>4. /\ \A v \in Users : posted[v] \in Int /\ balance[v] \in Int
          /\ balance' = [balance EXCEPT ![u] = @ + a] /\ posted' = [posted EXCEPT ![u] = @ + a]
          /\ DOMAIN balance = Users /\ DOMAIN posted = Users
      BY <2>1, BillingNumbers DEF TypeOK, Post
    <2>5. \A v \in Users : balance'[v] = posted'[v] - Sum(Amounts, RenewalsOf(v))
      BY <2>2, <2>3, <2>4
    <2>6. Amounts' = Amounts /\ \A v : RenewalsOf(v)' = RenewalsOf(v)
      BY <1>2 DEF Amounts, RenewalsOf
    <2> QED
      BY <1>2, <2>5, <2>6 DEF LedgerInv, LedgerAccountsForBalance, Amounts, RenewalsOf
  <1>3. CASE \E k \in Tickers, i \in Items : ChargeSucceeds(k, i)
    <2>1. PICK k \in Tickers, i \in Items : ChargeSucceeds(k, i)
      BY <1>3
    <2>2. IsFiniteSet(renewals)
      BY DEF LedgerInv
    <2>3. /\ balance' = [balance EXCEPT ![row[i].user] = @ - row[i].price]
          /\ row[i].user \in Users /\ row[i].price \in Int /\ posted' = posted
          /\ DOMAIN balance = Users
          /\ \A v \in Users : posted[v] \in Int /\ balance[v] \in Int
      <3>1. Prices \subseteq Int
        BY BillingNumbers
      <3>2. /\ balance' = [balance EXCEPT ![row[i].user] = @ - row[i].price] /\ posted' = posted
            /\ row[i].user \in Users /\ row[i].price \in Prices
        BY <2>1 DEF ChargeSucceeds, TypeOK
      <3>3. DOMAIN balance = Users /\ \A v \in Users : posted[v] \in Int /\ balance[v] \in Int
        BY BillingNumbers DEF TypeOK
      <3> QED
        BY <3>1, <3>2, <3>3
    <2>4. ASSUME NEW v \in Users
          PROVE  balance'[v] = posted'[v] - Sum(Amounts', RenewalsOf(v)')
      <3>1. balance[v] = posted[v] - Sum(Amounts, RenewalsOf(v))
        BY DEF LedgerInv, LedgerAccountsForBalance, Amounts, RenewalsOf
      <3>2. /\ Sum(Amounts', RenewalsOf(v)') =
                 Sum(Amounts, RenewalsOf(v)) + (IF v = row[i].user THEN row[i].price ELSE 0)
            /\ Sum(Amounts, RenewalsOf(v)) \in Int
        BY <2>1, <2>2, ChargeAddsUp
      <3> QED
        BY <2>3, <3>1, <3>2
    <2>5. IsFiniteSet(renewals')
      BY <2>1, <2>2, <2>3, ChargeAddsUp
    <2> QED
      BY <2>4, <2>5 DEF LedgerInv, LedgerAccountsForBalance, Amounts, RenewalsOf
  <1> QED
    BY <1>1, <1>2, <1>3, LedgerCases

(* However ticks, retries and purchases overlap, every wallet holds what the *)
(* ledger says: no charge drains a wallet without its row, no row is written *)
(* without its charge.                                                       *)
THEOREM LedgerTheorem == Spec => []LedgerAccountsForBalance
  <1>1. Init => LedgerInv
    <2> SUFFICES ASSUME Init PROVE LedgerInv
      OBVIOUS
    <2>1. renewals = {} /\ \A u \in Users : balance[u] = 0 /\ posted[u] = 0
      BY DEF Init
    <2>2. IsFiniteSet(renewals) /\ \A u \in Users : {r \in renewals : r.user = u} = {}
      BY <2>1, FS_EmptySet
    <2>3. \A u \in Users : Sum([r \in renewals |-> r.amount], {r \in renewals : r.user = u}) = 0
      BY <2>2, SumEmpty
    <2> QED
      BY <2>1, <2>2, <2>3 DEF LedgerInv, LedgerAccountsForBalance
  <1>2. TypeOK /\ LedgerInv /\ [Next]_vars => LedgerInv'
    BY LedgerStep
  <1>3. LedgerInv => LedgerAccountsForBalance
    BY DEF LedgerInv
  <1> QED
    BY <1>1, <1>2, <1>3, TypeCorrect, PTL DEF Spec

------------------------------------------------------------------------------
(* Isolated ticks. *)

SameBilling(j) ==
  /\ row'[j].status = row[j].status /\ row'[j].user = row[j].user
  /\ row'[j].nb = row[j].nb /\ row'[j].da = row[j].da

(* The facts about types the steps below use. *)
LEMMA Typed ==
  ASSUME TypeOK
  PROVE  /\ now \in Int
         /\ \A i \in Items : /\ row[i].nb \in Int /\ row[i].da \in Int
                             /\ row[i].status \in Statuses
         /\ \A r \in renewals : r.cycle \in Int /\ r.item \in Items
         /\ \A k \in Tickers : tnow[k] \in Nat /\ phase[k] \in 0..6 /\ todo[k] \subseteq Items
  BY DEF TypeOK, Row, Renewal

(* An item that keeps its dates and gets no new ledger row keeps ItemInv as  *)
(* days pass.                                                                *)
LEMMA ItemKept ==
  ASSUME TypeOK, TypeOK', now <= now', NEW j \in Items, ItemInv(j), SameBilling(j),
         \A r \in renewals' : r.item = j => r \in renewals
  PROVE  ItemInv(j)'
  <1>1. now \in Int /\ now' \in Int /\ row[j].nb \in Int
    BY Typed DEF TypeOK
  <1>2. Open(j)' <=> Open(j)
    BY DEF Open, SameBilling, GoneStatus
  <1> QED
    BY <1>1, <1>2 DEF ItemInv, SameBilling, GoneStatus

(* Lists stay fresh while items only leave them and the rest is untouched.   *)
LEMMA ListsKept ==
  ASSUME TypeOK, TypeOK', TicksExclusive, ChargeListFresh, CancelListFresh,
         now <= now', UNCHANGED <<phase, tnow>>,
         \A k \in Tickers : todo'[k] \subseteq todo[k],
         \A k \in Tickers, j \in Items : j \in todo'[k] => SameBilling(j)
  PROVE  TicksExclusive' /\ ChargeListFresh' /\ CancelListFresh'
  <1>1. now \in Int /\ now' \in Int /\ \A k \in Tickers : tnow[k] \in Int
    BY Typed DEF TypeOK
  <1>2. TicksExclusive'
    <2>1. \A k \in Tickers : tnow'[k] <= now'
      BY <1>1 DEF TicksExclusive
    <2> QED
      BY <2>1 DEF TicksExclusive
  <1>3. ChargeListFresh'
    <2> SUFFICES ASSUME NEW k \in Tickers, NEW j \in Items, phase'[k] \in 1..3, j \in todo'[k]
                 PROVE  Billed(j)' /\ row'[j].nb <= tnow'[k]
      BY DEF ChargeListFresh
    <2>1. SameBilling(j) /\ Billed(j) /\ row[j].nb <= tnow[k]
      BY DEF ChargeListFresh
    <2> QED
      BY <2>1 DEF SameBilling, Billed, LiveStatus
  <1>4. CancelListFresh'
    <2> SUFFICES ASSUME NEW k \in Tickers, NEW j \in Tunnels \union Blocks,
                        phase'[k] \in 4..6, j \in todo'[k]
                 PROVE  Overdue(j)'
      BY DEF CancelListFresh
    <2>1. SameBilling(j) /\ Overdue(j) /\ j \in Items
      BY DEF CancelListFresh, Items
    <2>2. row[j].nb \in Int /\ row[j].da \in Int
      BY <2>1, Typed
    <2> QED
      BY <1>1, <2>1, <2>2 DEF SameBilling, Overdue
  <1> QED
    BY <1>2, <1>3, <1>4

(* Users and admins.  A step that writes one row and no ledger row of the    *)
(* scheduler keeps the invariant if the row it writes is in order and is on  *)
(* nobody's list.                                                            *)
LEMMA WriteKept ==
  ASSUME IsolatedInv, TypeOK', UNCHANGED <<now, renewals, phase, tnow>>,
         \A k \in Tickers : todo'[k] \subseteq todo[k],
         NEW i \in Items, ItemInv(i)', \A k \in Tickers : i \notin todo'[k],
         \A j \in Items : j # i => row'[j] = row[j]
  PROVE  IsolatedInv'
  <1>1. now \in Int
    BY Typed DEF IsolatedInv
  <1>2. \A j \in Items : j # i => SameBilling(j)
    BY DEF SameBilling
  <1>3. \A j \in Items : ItemInv(j)'
    BY <1>1, <1>2, ItemKept DEF IsolatedInv
  <1>4. TicksExclusive' /\ ChargeListFresh' /\ CancelListFresh'
    BY <1>1, <1>2, ListsKept DEF IsolatedInv
  <1>5. NoEarlyRenewal'
    BY DEF IsolatedInv, NoEarlyRenewal
  <1> QED
    BY <1>3, <1>4, <1>5 DEF IsolatedInv

(* A row written today with a cycle that starts CycleDays from now is later  *)
(* than every cycle in the ledger, since none of those is in the future.     *)
LEMMA FreshCycle ==
  ASSUME TypeOK, NoEarlyRenewal
  PROVE  \A r \in renewals : r.cycle < NextBillingAt(now)
  BY Typed, BillingNumbers DEF NoEarlyRenewal, NextBillingAt

(* Operations that need the ticks to be out of the way write one row that is *)
(* on no list.                                                               *)
LEMMA OwnershipStep ==
  ASSUME Isolated, IsolatedInv, TypeOK', Undisturbed, NEW i \in Items, ItemInv(i)',
         UNCHANGED <<now, renewals, ticks>>,
         \A j \in Items : j # i => row'[j] = row[j]
  PROVE  IsolatedInv'
  <1>1. \A k \in Tickers : todo'[k] = {}
    BY DEF Undisturbed, NoTick, IsolatedInv, TicksExclusive, ticks
  <1> QED
    BY <1>1, WriteKept DEF ticks

(* Every operation of a user or an admin keeps the invariant. *)
LEMMA IsolatedOperate ==
  ASSUME Isolated, IsolatedInv, TypeOK', Operate
  PROVE  IsolatedInv'
  <1>0. /\ TypeOK /\ row \in [Items -> Row] /\ now \in Int
        /\ Tunnels \subseteq Items /\ Ips \subseteq Items /\ Blocks \subseteq Items
        /\ \A j \in Items : ItemInv(j)
        /\ \A r \in renewals : r.cycle < NextBillingAt(now)
    BY Typed, FreshCycle DEF IsolatedInv, TypeOK, Items
  <1>1. ASSUME NEW u \in Users, NEW a \in Adjustments, AdjustCredit(u, a) PROVE IsolatedInv'
    <2>1. UNCHANGED <<now, renewals, phase, tnow, todo, row>>
      BY <1>1 DEF AdjustCredit, ticks
    <2>2. \A j \in Items : SameBilling(j)
      BY <2>1 DEF SameBilling
    <2>3. TicksExclusive' /\ ChargeListFresh' /\ CancelListFresh' /\ \A j \in Items : ItemInv(j)'
      BY <1>0, <2>1, <2>2, ItemKept, ListsKept DEF IsolatedInv
    <2> QED
      BY <2>1, <2>3 DEF IsolatedInv, NoEarlyRenewal
  <1>2. ASSUME NEW i \in Items, NEW p \in Prices, OverridePrice(i, p) PROVE IsolatedInv'
    <2>1. UNCHANGED <<now, renewals, phase, tnow, todo>>
      BY <1>2 DEF OverridePrice, ticks
    <2>2. \A j \in Items : SameBilling(j)
      <3>1. \A j \in Items : row'[j] = row[j] \/ row'[j] = [row[j] EXCEPT !.price = p]
        BY <1>0, <1>2 DEF OverridePrice
      <3>2. \A j \in Items : LET r == [row[j] EXCEPT !.price = p] IN
              /\ r.status = row[j].status /\ r.user = row[j].user
              /\ r.nb = row[j].nb /\ r.da = row[j].da
        BY <1>0 DEF Row
      <3> QED
        BY <3>1, <3>2 DEF SameBilling
    <2>3. TicksExclusive' /\ ChargeListFresh' /\ CancelListFresh' /\ \A j \in Items : ItemInv(j)'
      BY <1>0, <2>1, <2>2, ItemKept, ListsKept DEF IsolatedInv
    <2> QED
      BY <2>1, <2>3 DEF IsolatedInv, NoEarlyRenewal
  <1>3. ASSUME NEW i \in Tunnels, ActivateTunnel(i) PROVE IsolatedInv'
    <2>1. /\ row' = [row EXCEPT ![i] = [row[i] EXCEPT !.status = "active"]]
          /\ row[i].status = "provisioning"
          /\ UNCHANGED <<now, renewals, phase, tnow, todo>>
      BY <1>3 DEF ActivateTunnel, ticks
    <2>2. row'[i].status = "active" /\ row'[i].nb = row[i].nb /\ row'[i].da = row[i].da
      BY <1>0, <2>1 DEF Row
    <2>3. Open(i) /\ row[i].da = Null
      BY <1>0, <2>1, BillingKinds DEF Open, GoneStatus, ItemInv
    <2>4. ItemInv(i)'
      BY <1>0, <2>1, <2>2, <2>3 DEF ItemInv
    <2>5. \A k \in Tickers : i \notin todo'[k]
      <3> SUFFICES ASSUME NEW k \in Tickers, i \in todo[k] PROVE FALSE
        BY <2>1
      <3>1. phase[k] \in 1..3 \/ phase[k] \in 4..6
        BY <1>0, Typed DEF IsolatedInv, TicksExclusive
      <3>2. ~Billed(i) /\ ~Overdue(i)
        BY <1>0, <2>1, BillingKinds DEF Billed, LiveStatus, Overdue
      <3> QED
        BY <1>0, <3>1, <3>2 DEF IsolatedInv, ChargeListFresh, CancelListFresh
    <2> QED
      BY <1>0, <2>1, <2>4, <2>5, WriteKept
  <1>4. ASSUME NEW i \in Tunnels, DeleteTunnel(i) PROVE IsolatedInv'
    <2>1. /\ row' = [row EXCEPT ![i] = [row[i] EXCEPT !.status = "deleted"]]
          /\ Undisturbed /\ UNCHANGED <<now, renewals, ticks>>
      BY <1>4 DEF DeleteTunnel
    <2>2. row'[i].status = "deleted" /\ GoneStatus(i) = "deleted"
      BY <1>0, <2>1, BillingKinds DEF Row, GoneStatus
    <2>3. ItemInv(i)'
      BY <2>2 DEF ItemInv, Open, GoneStatus
    <2> QED
      BY <1>0, <2>1, <2>3, OwnershipStep
  <1>5. ASSUME NEW i \in Tunnels, NEW p \in Prices,
               ChangeTunnelTier(i, p) \/ \E u \in Users : CreateTunnel(u, i, p)
        PROVE  IsolatedInv'
    <2>1. /\ \A j \in Items : j # i => row'[j] = row[j]
          /\ row'[i].status # "suspended" /\ row'[i].da = Null /\ row'[i].nb = NextBillingAt(now)
          /\ Undisturbed /\ UNCHANGED <<now, renewals, ticks>>
      BY <1>0, <1>5 DEF ChangeTunnelTier, CreateTunnel
    <2>2. ItemInv(i)'
      BY <1>0, <2>1 DEF ItemInv
    <2> QED
      BY <1>0, <2>1, <2>2, OwnershipStep
  <1>6. ASSUME NEW i \in Ips, ReleasePublicIp(i) PROVE IsolatedInv'
    <2>1. /\ \A j \in Items : j # i => row'[j] = row[j]
          /\ row'[i].status = "available"
          /\ Undisturbed /\ UNCHANGED <<now, renewals, ticks>>
      BY <1>0, <1>6 DEF ReleasePublicIp
    <2>2. ItemInv(i)'
      BY <2>1, BillingKinds DEF ItemInv, Open, GoneStatus
    <2> QED
      BY <1>0, <2>1, <2>2, OwnershipStep
  <1>7. ASSUME NEW i \in Ips, NEW p \in Prices, NEW u \in Users, BuyPublicIp(u, i, p) PROVE IsolatedInv'
    <2>1. /\ \A j \in Items : j # i => row'[j] = row[j]
          /\ row'[i].status = "allocated" /\ row'[i].nb = NextBillingAt(now)
          /\ Undisturbed /\ UNCHANGED <<now, renewals, ticks>>
      BY <1>0, <1>7 DEF BuyPublicIp
    <2>2. ItemInv(i)'
      BY <1>0, <2>1 DEF ItemInv
    <2> QED
      BY <1>0, <2>1, <2>2, OwnershipStep
  <1>8. ASSUME NEW i \in Blocks, NEW p \in Prices, NEW u \in Users, BuyIpBlock(u, i, p) PROVE IsolatedInv'
    <2>1. /\ \A j \in Items : j # i => row'[j] = row[j]
          /\ row'[i].status = "active" /\ row'[i].da = Null /\ row'[i].nb = NextBillingAt(now)
          /\ Undisturbed /\ UNCHANGED <<now, renewals, ticks>>
      BY <1>0, <1>8 DEF BuyIpBlock
    <2>2. ItemInv(i)'
      BY <1>0, <2>1 DEF ItemInv
    <2> QED
      BY <1>0, <2>1, <2>2, OwnershipStep
  <1>9. ASSUME NEW i \in Blocks, ReleaseIpBlock(i) PROVE IsolatedInv'
    <2>1. /\ row' = [row EXCEPT ![i] = [row[i] EXCEPT !.status = "released"]]
          /\ Undisturbed /\ UNCHANGED <<now, renewals, ticks>>
      BY <1>9 DEF ReleaseIpBlock
    <2>2. row'[i].status = "released" /\ GoneStatus(i) = "released"
      BY <1>0, <2>1, BillingKinds DEF Row, GoneStatus
    <2>3. ItemInv(i)'
      BY <2>2 DEF ItemInv, Open, GoneStatus
    <2> QED
      BY <1>0, <2>1, <2>3, OwnershipStep
  <1> QED
    BY <1>1, <1>2, <1>3, <1>4, <1>5, <1>6, <1>7, <1>8, <1>9 DEF Operate

(* In an isolated system a ticker that holds an item is the only one that    *)
(* runs, so handling the item takes it off every list.                       *)
LEMMA IsolatedHandle ==
  ASSUME IsolatedInv, TypeOK', NEW k \in Tickers, NEW i \in Items, Handle(k, i)
  PROVE  IsolatedInv'
  <1>0. /\ TypeOK /\ row \in [Items -> Row] /\ now \in Int /\ ItemInv(i)
        /\ row[i].nb \in Int /\ tnow[k] \in Nat /\ tnow[k] <= now
    BY Typed DEF IsolatedInv, TypeOK, TicksExclusive
  <1>1. /\ i \in todo[k] /\ phase[k] \in 1..6
        /\ todo' = [todo EXCEPT ![k] = @ \ {i}]
        /\ UNCHANGED <<now, phase, tnow>>
    BY DEF Handle, ChargeSkipped, ChargeSuspends, ChargeSucceeds, ForceCancel, Take
  <1>2. \A l \in Tickers : todo'[l] \subseteq todo[l] /\ i \notin todo'[l]
    <2>1. \A l \in Tickers : l # k => todo[l] = {}
      BY <1>1 DEF IsolatedInv, TicksExclusive
    <2> QED
      BY <1>0, <1>1, <2>1 DEF TypeOK
  <1>3. CASE row' = row /\ renewals' = renewals
    <2>1. \A j \in Items : j # i => row'[j] = row[j]
      BY <1>3
    <2>2. ItemInv(i)'
      BY <1>0, <1>1, <1>3 DEF ItemInv, Open
    <2> QED
      BY <1>1, <1>2, <1>3, <2>1, <2>2, WriteKept
  <1>4. CASE ChargeSuspends(k, i)
    <2>1. /\ row'[i] = Suspended(i, tnow[k]) /\ \A j \in Items : j # i => row'[j] = row[j]
          /\ renewals' = renewals /\ Chargeable(i) /\ phase[k] \in 1..3
      BY <1>0, <1>4 DEF ChargeSuspends, Take
    <2>2. Billed(i) /\ row[i].nb <= tnow[k] /\ row[i].user # NoUser
      BY <1>0, <1>1, <2>1, BillingKinds DEF IsolatedInv, ChargeListFresh, TypeOK
    <2>3. DeleteAfter(tnow[k]) # Null
      BY <1>0, BillingNumbers DEF DeleteAfter, Null
    <2>4. Open(i)
      BY <2>2 DEF Open, Billed, LiveStatus, GoneStatus
    <2>5. ItemInv(i)'
      BY <1>0, <1>1, <2>1, <2>2, <2>3, <2>4 DEF ItemInv, Suspended
    <2> QED
      BY <1>1, <1>2, <2>1, <2>5, WriteKept
  <1>5. CASE ChargeSucceeds(k, i)
    <2>1. /\ row'[i] = Renewed(i) /\ \A j \in Items : j # i => row'[j] = row[j]
          /\ renewals' = renewals \union
               {[item |-> i, cycle |-> row[i].nb, user |-> row[i].user, amount |-> row[i].price]}
          /\ phase[k] \in 1..3
      BY <1>0, <1>5 DEF ChargeSucceeds, Take
    <2>2. Billed(i) /\ row[i].nb <= tnow[k]
      BY <1>1, <2>1 DEF IsolatedInv, ChargeListFresh
    <2>3. Open(i)
      BY <2>2 DEF Open, Billed, LiveStatus, GoneStatus
    <2>4. \A r \in renewals' : r.item = i => r.cycle < row'[i].nb
      <3>1. \A r \in renewals : r.item = i => r.cycle < row[i].nb /\ r.cycle \in Int
        BY <1>0, <2>3, Typed DEF ItemInv
      <3>2. row'[i].nb = row[i].nb + CycleDays /\ CycleDays \in Nat \ {0}
        BY <2>1, BillingNumbers DEF Renewed, NextBillingAt
      <3> QED
        BY <1>0, <2>1, <3>1, <3>2
    <2>5. ItemInv(i)'
      BY <2>1, <2>4 DEF ItemInv, Renewed, LiveStatus
    <2>6. \A j \in Items : ItemInv(j)'
      <3> SUFFICES ASSUME NEW j \in Items, j # i PROVE ItemInv(j)'
        BY <2>5
      <3>1. SameBilling(j) /\ \A r \in renewals' : r.item = j => r \in renewals
        BY <2>1 DEF SameBilling
      <3> QED
        BY <1>0, <1>1, <3>1, ItemKept DEF IsolatedInv
    <2>7. NoEarlyRenewal'
      BY <1>0, <1>1, <2>1, <2>2 DEF NoEarlyRenewal, IsolatedInv
    <2>8. \A l \in Tickers, j \in Items : j \in todo'[l] => SameBilling(j)
      BY <1>2, <2>1 DEF SameBilling
    <2>9. TicksExclusive' /\ ChargeListFresh' /\ CancelListFresh'
      BY <1>0, <1>1, <1>2, <2>8, ListsKept DEF IsolatedInv
    <2> QED
      BY <2>6, <2>7, <2>9 DEF IsolatedInv
  <1>6. CASE ForceCancel(k, i) /\ Cancellable(i)
    <2>1. /\ row'[i] = Cancelled(i) /\ \A j \in Items : j # i => row'[j] = row[j]
          /\ renewals' = renewals
      BY <1>0, <1>6 DEF ForceCancel
    <2>2. ItemInv(i)'
      BY <2>1 DEF ItemInv, Cancelled, Open, GoneStatus
    <2> QED
      BY <1>1, <1>2, <2>1, <2>2, WriteKept
  <1> QED
    BY <1>3, <1>4, <1>5, <1>6 DEF Handle, ChargeSkipped, ForceCancel

(* Moving through the phases: a list is fresh at the moment it is selected.  *)
LEMMA IsolatedTick ==
  ASSUME Isolated, IsolatedInv, TypeOK', NEW k \in Tickers, Tick(k)
  PROVE  IsolatedInv'
  <1>0. /\ TypeOK /\ row \in [Items -> Row] /\ now \in Nat
        /\ \A i \in Items : ItemInv(i) /\ row[i].nb \in Int /\ row[i].da \in Int
        /\ \A l \in Tickers : tnow[l] \in Nat /\ phase[l] \in 0..6
        /\ phase \in [Tickers -> 0..6] /\ todo \in [Tickers -> SUBSET Items]
        /\ tnow \in [Tickers -> 0..MaxDay]
    BY Typed DEF IsolatedInv, TypeOK
  <1>1. ASSUME UNCHANGED <<row, renewals, now>>,
               TicksExclusive', ChargeListFresh', CancelListFresh'
        PROVE  IsolatedInv'
    <2>1. \A i \in Items : ItemInv(i)'
      BY <1>0, <1>1 DEF ItemInv, Open
    <2> QED
      BY <1>1, <2>1 DEF IsolatedInv, NoEarlyRenewal
  <1>2. ASSUME NEW t \in Int, t <= now, NEW p \in 1..6, NEW i \in Selected(p, t)
        PROVE  /\ p \in 1..3 => Billed(i) /\ row[i].nb <= t
               /\ p \in 4..6 /\ i \notin Ips => Overdue(i)
    <2>1. i \in Items
      BY SelectedTyped
    <2>2. p \in 1..3 => Billed(i) /\ row[i].nb <= t
      BY DEF Selected, Due
    <2>3. ASSUME p \in 4..6, i \notin Ips PROVE Overdue(i)
      <3>1. /\ IF i \in Tunnels THEN row[i].status \notin {"none", "deleted"} ELSE Billed(i)
            /\ row[i].da # Null /\ row[i].da <= t
        BY <2>3 DEF Selected, Expired
      <3>2. row[i].status # GoneStatus(i)
        BY <2>1, <2>3, <3>1, BillingKinds DEF Billed, LiveStatus, GoneStatus
      <3>3. row[i].status = "suspended" /\ row[i].nb <= now
        BY <1>0, <2>1, <2>3, <3>1, <3>2 DEF ItemInv
      <3> QED
        BY <1>0, <1>2, <2>1, <3>1, <3>3 DEF Overdue
    <2> QED
      BY <2>2, <2>3
  <1>3. CASE StartTick(k)
    <2>1. /\ \A l \in Tickers : phase[l] = 0 /\ todo[l] = {}
          /\ phase'[k] = 1 /\ tnow'[k] = now /\ todo'[k] = Selected(1, now)
          /\ \A l \in Tickers : l # k => phase'[l] = 0 /\ todo'[l] = {} /\ tnow'[l] = tnow[l]
          /\ UNCHANGED <<row, renewals, now>>
      BY <1>0, <1>3 DEF StartTick, Undisturbed, NoTick, IsolatedInv, TicksExclusive
    <2>2. TicksExclusive'
      BY <1>0, <2>1 DEF IsolatedInv, TicksExclusive
    <2>3. ChargeListFresh'
      BY <1>0, <1>2, <2>1 DEF ChargeListFresh, Billed
    <2>4. CancelListFresh'
      BY <2>1 DEF CancelListFresh
    <2> QED
      BY <1>1, <2>1, <2>2, <2>3, <2>4
  <1>4. CASE NextPhase(k)
    <2>1. /\ phase[k] \in 1..5 /\ phase'[k] = phase[k] + 1
          /\ todo'[k] = Selected(phase[k] + 1, tnow[k])
          /\ \A l \in Tickers : l # k => phase'[l] = 0 /\ todo'[l] = {}
          /\ UNCHANGED <<row, renewals, now, tnow>>
          /\ tnow[k] <= now
      BY <1>0, <1>4 DEF NextPhase, IsolatedInv, TicksExclusive
    <2>2. TicksExclusive'
      BY <1>0, <2>1 DEF IsolatedInv, TicksExclusive
    <2>3. phase[k] + 1 \in 1..6
      BY <2>1
    <2>4. ChargeListFresh'
      BY <1>0, <1>2, <2>1, <2>3 DEF ChargeListFresh, Billed
    <2>5. CancelListFresh'
      <3> SUFFICES ASSUME NEW l \in Tickers, NEW i \in Tunnels \union Blocks,
                          phase'[l] \in 4..6, i \in todo'[l]
                   PROVE  Overdue(i)'
        BY DEF CancelListFresh
      <3>1. l = k /\ i \notin Ips /\ i \in Selected(phase[k] + 1, tnow[k]) /\ phase[k] + 1 \in 4..6
        BY <2>1, BillingKinds
      <3>2. Overdue(i)
        BY <1>0, <1>2, <2>1, <2>3, <3>1
      <3> QED
        BY <2>1, <3>2 DEF Overdue
    <2> QED
      BY <1>1, <2>1, <2>2, <2>4, <2>5
  <1>5. CASE EndTick(k) \/ WorkerCrash(k)
    <2>1. /\ phase[k] # 0 /\ phase' = [phase EXCEPT ![k] = 0] /\ todo'[k] = {}
          /\ tnow' = [tnow EXCEPT ![k] = 0]
          /\ \A l \in Tickers : l # k => todo'[l] = todo[l]
          /\ row' = row /\ renewals' = renewals /\ now' = now
      BY <1>0, <1>5 DEF EndTick, WorkerCrash
    <2>2. \A l \in Tickers : l # k => phase[l] = 0 /\ todo[l] = {}
      BY <2>1 DEF IsolatedInv, TicksExclusive
    <2>3. \A l \in Tickers : phase'[l] = 0
      BY <1>0, <2>1, <2>2
    <2>4. \A l \in Tickers : todo'[l] = {}
      BY <2>1, <2>2
    <2>5. \A l \in Tickers : tnow'[l] <= now'
      BY <1>0, <2>1 DEF IsolatedInv, TicksExclusive
    <2>6. TicksExclusive'
      BY <2>3, <2>4, <2>5 DEF TicksExclusive
    <2>7. ChargeListFresh' /\ CancelListFresh'
      BY <2>3, <2>4 DEF ChargeListFresh, CancelListFresh
    <2> QED
      BY <1>1, <2>1, <2>6, <2>7
  <1>6. ASSUME NEW i \in Items, ItemFails(k, i) PROVE IsolatedInv'
    <2>1. /\ UNCHANGED <<row, renewals, now, phase, tnow>>
          /\ \A l \in Tickers : todo'[l] \subseteq todo[l]
      BY <1>0, <1>6 DEF ItemFails
    <2>2. \A j \in Items : SameBilling(j)
      BY <2>1 DEF SameBilling
    <2>3. TicksExclusive' /\ ChargeListFresh' /\ CancelListFresh'
      BY <1>0, <2>1, <2>2, ListsKept DEF IsolatedInv
    <2> QED
      BY <1>1, <2>1, <2>3
  <1>7. ASSUME NEW i \in Items, Handle(k, i) PROVE IsolatedInv'
    BY <1>7, IsolatedHandle
  <1> QED
    BY <1>3, <1>4, <1>5, <1>6, <1>7 DEF Tick

LEMMA IsolatedStep ==
  ASSUME Isolated, IsolatedInv, [Next]_vars
  PROVE  IsolatedInv'
  <1>0. TypeOK /\ TypeOK' /\ now \in Int
    BY TypeStep, Typed DEF IsolatedInv
  <1>1. ASSUME NewDay \/ UNCHANGED vars PROVE IsolatedInv'
    <2>1. now <= now' /\ UNCHANGED <<row, renewals, phase, todo, tnow>>
      BY <1>0, <1>1 DEF NewDay, vars, ticks
    <2>2. \A j \in Items : SameBilling(j)
      BY <2>1 DEF SameBilling
    <2>3. TicksExclusive' /\ ChargeListFresh' /\ CancelListFresh' /\ \A j \in Items : ItemInv(j)'
      BY <1>0, <2>1, <2>2, ItemKept, ListsKept DEF IsolatedInv
    <2>4. NoEarlyRenewal'
      BY <1>0, <2>1, Typed DEF IsolatedInv, NoEarlyRenewal, TypeOK
    <2> QED
      BY <1>0, <2>3, <2>4 DEF IsolatedInv
  <1>2. CASE Operate
    BY <1>0, <1>2, IsolatedOperate
  <1>3. ASSUME NEW k \in Tickers, Tick(k) PROVE IsolatedInv'
    BY <1>0, <1>3, IsolatedTick
  <1> QED
    BY <1>1, <1>2, <1>3 DEF Next

LEMMA IsolatedInit == Init => IsolatedInv
  <1> SUFFICES ASSUME Init PROVE IsolatedInv
    OBVIOUS
  <1>1. TypeOK
    BY TypeInit
  <1>2. \A i \in Items : ItemInv(i)
    BY DEF Init, ItemInv, Open
  <1>3. TicksExclusive /\ ChargeListFresh /\ CancelListFresh /\ NoEarlyRenewal
    BY DEF Init, TicksExclusive, ChargeListFresh, CancelListFresh, NoEarlyRenewal
  <1> QED
    BY <1>1, <1>2, <1>3 DEF IsolatedInv

LEMMA IsolatedInvariant == ASSUME Isolated PROVE Spec => []IsolatedInv
  BY IsolatedInit, IsolatedStep, PTL DEF Spec

(* With isolated ticks no cycle is charged before it begins, so a re-run of  *)
(* the scheduler never charges twice for what is owed once.                  *)
THEOREM NoEarlyRenewalTheorem == ASSUME Isolated PROVE Spec => []NoEarlyRenewal
  <1>1. IsolatedInv => NoEarlyRenewal
    BY DEF IsolatedInv
  <1> QED
    BY <1>1, IsolatedInvariant, PTL

(* With isolated ticks the key of an item's next charge is never in the      *)
(* ledger already: no item escapes billing because its charge is taken for   *)
(* a duplicate, even when an IP is sold again under the same address.        *)
THEOREM RenewalsBehindTheorem == ASSUME Isolated PROVE Spec => []RenewalsBehindNextBilling
  <1>1. IsolatedInv => RenewalsBehindNextBilling
    BY BillingKinds DEF IsolatedInv, ItemInv, RenewalsBehindNextBilling, Open, Billed, LiveStatus, GoneStatus
  <1> QED
    BY <1>1, IsolatedInvariant, PTL

(* With isolated ticks an item is suspended only while a begun cycle is      *)
(* unpaid.                                                                   *)
THEOREM SuspendedOnlyUnpaidTheorem == ASSUME Isolated PROVE Spec => []SuspendedOnlyUnpaid
  <1>1. IsolatedInv => SuspendedOnlyUnpaid
    BY DEF IsolatedInv, ItemInv, SuspendedOnlyUnpaid
  <1> QED
    BY <1>1, IsolatedInvariant, PTL

(* With isolated ticks the scheduler cancels a tunnel or a block only if it  *)
(* is suspended, unpaid and past its deadline.                               *)
THEOREM CancelledOnlyOverdueTheorem == ASSUME Isolated PROVE Spec => CancelledOnlyOverdue
  <1>1. IsolatedInv /\ [Next]_vars =>
          [\A k \in Tickers, i \in Tunnels \union Blocks : CancelStep(k, i) => Overdue(i)]_vars
    BY DEF IsolatedInv, CancelListFresh, CancelStep
  <1> QED
    BY <1>1, IsolatedInvariant, PTL DEF Spec, CancelledOnlyOverdue

(* What one step may do to a tunnel or a block that is gone: at most change  *)
(* the price an admin sees.                                                  *)
LEMMA GoneStep ==
  ASSUME IsolatedInv, [Next]_vars, NEW i \in Tunnels \union Blocks, row[i].status = GoneStatus(i)
  PROVE  row'[i].status = GoneStatus(i)
  <1>0. /\ i \in Items /\ row \in [Items -> Row] /\ ~Billed(i)
        /\ Tunnels \subseteq Items /\ Ips \subseteq Items /\ Blocks \subseteq Items
        /\ row[i].status \in {"deleted", "released"}
        /\ i \in Tunnels => row[i].status = "deleted"
        /\ i \in Blocks => row[i].status = "released"
        /\ i \notin Ips
    BY BillingKinds DEF IsolatedInv, TypeOK, Items, Billed, GoneStatus, LiveStatus
  <1>1. CASE row'[i] = row[i]
    BY <1>1
  <1>2. ASSUME NEW k \in Tickers, NEW j \in Items, Handle(k, j)
        PROVE  row'[i].status = GoneStatus(i)
    <2>1. CASE phase[k] \in 1..3
      <3>1. j # i
        BY <1>0, <1>2, <2>1
        DEF IsolatedInv, ChargeListFresh, Handle, ChargeSkipped, ChargeSuspends, ChargeSucceeds, ForceCancel, Take
      <3> QED
        BY <1>0, <1>1, <1>2, <2>1, <3>1
        DEF Handle, ChargeSkipped, ChargeSuspends, ChargeSucceeds, ForceCancel, Take
    <2>2. CASE phase[k] \notin 1..3
      <3>1. row'[i] = row[i] \/ row'[i] = Cancelled(i)
        BY <1>0, <1>2, <2>2
        DEF Handle, ChargeSkipped, ChargeSuspends, ChargeSucceeds, ForceCancel, Take
      <3> QED
        BY <1>1, <3>1 DEF Cancelled
    <2> QED
      BY <2>1, <2>2
  <1>3. ASSUME NEW k \in Tickers, Tick(k), \A j \in Items : ~Handle(k, j)
        PROVE  row'[i].status = GoneStatus(i)
    BY <1>1, <1>3 DEF Tick, StartTick, NextPhase, EndTick, WorkerCrash, ItemFails
  <1>4. ASSUME NEW j \in Items, NEW p \in Prices, OverridePrice(j, p)
        PROVE  row'[i].status = GoneStatus(i)
    <2>1. row'[i] = row[i] \/ row'[i] = [row[i] EXCEPT !.price = p]
      BY <1>0, <1>4 DEF OverridePrice
    <2>2. [row[i] EXCEPT !.price = p].status = row[i].status
      BY <1>0 DEF Row
    <2> QED
      BY <2>1, <2>2
  <1>5. ASSUME Operate, \A j \in Items, p \in Prices : ~OverridePrice(j, p)
        PROVE  row'[i].status = GoneStatus(i)
    <2>1. CASE \E j \in Tunnels : ActivateTunnel(j) \/ DeleteTunnel(j)
      BY <1>0, <1>1, <2>1 DEF ActivateTunnel, DeleteTunnel
    <2>2. CASE \E j \in Blocks : ReleaseIpBlock(j)
      BY <1>0, <1>1, <2>2 DEF ReleaseIpBlock
    <2>3. CASE \E j \in Tunnels, p \in Prices :
                 ChangeTunnelTier(j, p) \/ \E u \in Users : CreateTunnel(u, j, p)
      BY <1>0, <1>1, <2>3 DEF ChangeTunnelTier, CreateTunnel
    <2>4. CASE \E j \in Ips : ReleasePublicIp(j) \/ \E u \in Users, p \in Prices : BuyPublicIp(u, j, p)
      BY <1>0, <1>1, <2>4 DEF ReleasePublicIp, BuyPublicIp
    <2>5. CASE \E j \in Blocks, u \in Users, p \in Prices : BuyIpBlock(u, j, p)
      BY <1>0, <1>1, <2>5 DEF BuyIpBlock
    <2>6. CASE \E u \in Users, a \in Adjustments : AdjustCredit(u, a)
      BY <1>1, <2>6 DEF AdjustCredit
    <2> QED
      BY <1>5, <2>1, <2>2, <2>3, <2>4, <2>5, <2>6 DEF Operate
  <1>6. CASE NewDay \/ UNCHANGED vars
    BY <1>1, <1>6 DEF NewDay, vars
  <1> QED
    BY <1>2, <1>3, <1>4, <1>5, <1>6 DEF Next

(* With isolated ticks no step brings a deleted tunnel or a released block   *)
(* back.                                                                     *)
THEOREM GoneStaysGoneTheorem == ASSUME Isolated PROVE Spec => GoneStaysGone
  <1>1. IsolatedInv /\ [Next]_vars =>
          [\A i \in Tunnels \union Blocks :
             row[i].status = GoneStatus(i) => row'[i].status = GoneStatus(i)]_vars
    BY GoneStep
  <1> QED
    BY <1>1, IsolatedInvariant, PTL DEF Spec, GoneStaysGone

==============================================================================
