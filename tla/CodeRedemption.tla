---------------------------- MODULE CodeRedemption ----------------------------
(***************************************************************************)
(* Credit codes (apps/api/src/codes/codes.service.ts): batches of codes    *)
(* that users redeem for wallet credit while admins pause, revoke or       *)
(* expire them.                                                            *)
(*                                                                         *)
(* redeem runs in one database transaction at READ COMMITTED.  Its first   *)
(* statement, the conditional UPDATE of the code row, takes that row's     *)
(* lock; SELECT ... FOR UPDATE takes the wallet's.  Both locks last until  *)
(* the transaction ends.  A request keeps what its transaction has read    *)
(* and not yet committed; other requests and admins see only committed     *)
(* rows.  Time is counted in days.                                         *)
(***************************************************************************)
EXTENDS Integers, FiniteSets, Sums

CONSTANTS
  Codes,        \* rows of credit_codes an admin may create
  Users,        \* owners of a credit wallet
  Requests,     \* concurrent executions of redeem
  Batches,      \* rows of credit_code_batches
  Batch,        \* the batch of every code
  Value,        \* credit_value_satang of every code
  MaxTotal,     \* max_uses_total of every code, 0 for unlimited
  MaxPerUser,   \* max_uses_per_user of every code
  MaxBatches,   \* bound on the batches created
  MaxDay        \* bound on the clock

(* SQL NULL in expires_at. *)
Null == -1
Days == 0..MaxDay

ASSUME CodeAssumptions ==
  /\ Batch \in [Codes -> Batches]
  /\ Value \in [Codes -> Nat \ {0}]
  /\ MaxTotal \in [Codes -> Nat]
  /\ MaxPerUser \in [Codes -> Nat]
  /\ MaxBatches \in Nat
  /\ MaxDay \in Nat

VARIABLES
  now,          \* the current day
  status,       \* credit_codes.status, "none" before the batch is created
  expires,      \* credit_codes.expires_at
  uses,         \* credit_codes.current_uses
  redemptions,  \* rows of credit_code_redemptions
  balance,      \* credit_wallets.balance_satang
  spent,        \* what every user has spent, the ledger rows of purchases
  batch,        \* redeemed_count and total_credit_redeemed_satang of a batch
  req           \* per request: where its transaction is, what it has read

codeRows == <<status, expires, uses>>
vars == <<now, status, expires, uses, redemptions, balance, spent, batch, req>>

AdminStatus == {"active", "paused", "revoked"}

Redemption == [code : Codes, user : Users, nth : Nat]

Request == [pc : {"begun", "claimed", "paying"}, code : Codes, user : Users,
            start : Days, uses : Nat, balance : Nat, used : Nat]
Idle == [pc |-> "idle"]

(* credit_added_satang of every redemption row. *)
Credit == [x \in redemptions |-> Value[x.code]]

RowsOf(c) == {x \in redemptions : x.code = c}
RowsOfUser(c, u) == {x \in redemptions : x.code = c /\ x.user = u}

(* Mutations: the code row is read without being locked; its lock is not     *)
(* given back after a redemption.                                            *)
CodeNeverLocked(c) == FALSE
CodeStaysLocked(c) ==
  \/ RowsOf(c) # {}
  \/ \E r \in Requests : req[r].pc \in {"claimed", "paying"} /\ req[r].code = c

CodeLocked(c) == \E r \in Requests : req[r].pc \in {"claimed", "paying"} /\ req[r].code = c

(* Mutation: the wallet is read without FOR UPDATE. *)
WalletNeverLocked(u) == FALSE

WalletLocked(u) == \E r \in Requests : req[r].pc = "paying" /\ req[r].user = u

(* The WHERE clause of the counter UPDATE.  NOW() is the day on which the    *)
(* transaction began, not the day on which it got the lock.                  *)
Redeemable(c, start) ==
  /\ status[c] = "active"
  /\ MaxTotal[c] = 0 \/ uses[c] < MaxTotal[c]
  /\ expires[c] = Null \/ expires[c] > start

(* The ledger row's idempotency key names the code and the user only. *)
KeyTaken(r) == RowsOfUser(req[r].code, req[r].user) # {}

(* Mutation: the code is marked exhausted without looking at its counter. *)
UsedUpAlways(r) == MaxTotal[req[r].code] > 0

(* The condition around the UPDATE to 'exhausted', and that UPDATE's WHERE. *)
UsedUp(r) ==
  LET c == req[r].code IN
  /\ MaxTotal[c] > 0
  /\ req[r].used + 1 >= MaxTotal[c]
  /\ req[r].uses >= MaxTotal[c]

(* Mutation: the UPDATE of the batch forgets the credit. *)
BatchCountedOnly(b, v) == [count |-> batch[b].count + 1, credit |-> batch[b].credit]

BatchCredited(b, v) == [count |-> batch[b].count + 1, credit |-> batch[b].credit + v]

------------------------------------------------------------------------------
Init ==
  /\ now = 0
  /\ status = [c \in Codes |-> "none"]
  /\ expires = [c \in Codes |-> Null]
  /\ uses = [c \in Codes |-> 0]
  /\ redemptions = {}
  /\ balance = [u \in Users |-> 0]
  /\ spent = [u \in Users |-> 0]
  /\ batch = [b \in Batches |-> [count |-> 0, credit |-> 0]]
  /\ req = [r \in Requests |-> Idle]

NewDay ==
  /\ now < MaxDay
  /\ now' = now + 1
  /\ UNCHANGED <<codeRows, redemptions, balance, spent, batch, req>>

Created == {Batch[c] : c \in {x \in Codes : status[x] # "none"}}

(* createBatch inserts the batch and all of its codes in one transaction. *)
CreateBatch(b, d) ==
  /\ Cardinality(Created) < MaxBatches
  /\ \A c \in Codes : Batch[c] = b => status[c] = "none"
  /\ status' = [c \in Codes |-> IF Batch[c] = b THEN "active" ELSE status[c]]
  /\ expires' = [c \in Codes |-> IF Batch[c] = b THEN d ELSE expires[c]]
  /\ UNCHANGED <<now, uses, redemptions, balance, spent, batch, req>>

------------------------------------------------------------------------------
(* redeem *)

Begin(r, u, c) ==
  /\ req[r].pc = "idle"
  /\ req' = [req EXCEPT ![r] = [pc |-> "begun", code |-> c, user |-> u, start |-> now,
                                uses |-> 0, balance |-> 0, used |-> 0]]
  /\ UNCHANGED <<now, codeRows, redemptions, balance, spent, batch>>

(* Every throw, and the loss of the connection, rolls the transaction back. *)
End(r) ==
  /\ req' = [req EXCEPT ![r] = Idle]
  /\ UNCHANGED <<now, codeRows, redemptions, balance, spent, batch>>

(* INVALID_CODE: a row that does not match is not waited for. *)
Refuse(r) ==
  /\ req[r].pc = "begun"
  /\ ~Redeemable(req[r].code, req[r].start)
  /\ End(r)

(* The counter UPDATE waits for the row lock and tests the row it then finds. *)
Claim(r) ==
  LET q == req[r] IN
  /\ q.pc = "begun"
  /\ ~CodeLocked(q.code)
  /\ Redeemable(q.code, q.start)
  /\ req' = [req EXCEPT ![r] = [pc |-> "claimed", code |-> q.code, user |-> q.user,
                                start |-> q.start, uses |-> uses[q.code] + 1,
                                balance |-> 0, used |-> 0]]
  /\ UNCHANGED <<now, codeRows, redemptions, balance, spent, batch>>

(* PER_USER_LIMIT: the compensating UPDATE is rolled back with the rest. *)
OverLimit(r) ==
  /\ req[r].pc = "claimed"
  /\ Cardinality(RowsOfUser(req[r].code, req[r].user)) >= MaxPerUser[req[r].code]
  /\ End(r)

(* The redemptions are counted, the wallet is locked and its balance read. *)
LockWallet(r) ==
  LET q == req[r]
      n == Cardinality(RowsOfUser(q.code, q.user)) IN
  /\ q.pc = "claimed"
  /\ n < MaxPerUser[q.code]
  /\ ~WalletLocked(q.user)
  /\ req' = [req EXCEPT ![r] = [pc |-> "paying", code |-> q.code, user |-> q.user,
                                start |-> q.start, uses |-> q.uses,
                                balance |-> balance[q.user], used |-> n]]
  /\ UNCHANGED <<now, codeRows, redemptions, balance, spent, batch>>

(* The INSERT of the ledger row violates the UNIQUE idempotency key. *)
Conflict(r) ==
  /\ req[r].pc = "paying"
  /\ KeyTaken(r)
  /\ End(r)

Commit(r) ==
  LET q == req[r]
      c == q.code
      b == Batch[c] IN
  /\ q.pc = "paying"
  /\ ~KeyTaken(r)
  /\ balance' = [balance EXCEPT ![q.user] = q.balance + Value[c]]
  /\ redemptions' = redemptions \union {[code |-> c, user |-> q.user, nth |-> q.used + 1]}
  /\ batch' = [batch EXCEPT ![b] = BatchCredited(b, Value[c])]
  /\ uses' = [uses EXCEPT ![c] = q.uses]
  /\ status' = IF UsedUp(r) THEN [status EXCEPT ![c] = "exhausted"] ELSE status
  /\ req' = [req EXCEPT ![r] = Idle]
  /\ UNCHANGED <<now, expires, spent>>

Abort(r) == req[r].pc # "idle" /\ End(r)

------------------------------------------------------------------------------
(* Mutation: the balance is not compared with the price. *)
SpendUnchecked(u) ==
  /\ ~WalletLocked(u)
  /\ balance' = [balance EXCEPT ![u] = @ - 1]
  /\ spent' = [spent EXCEPT ![u] = @ + 1]
  /\ UNCHANGED <<now, codeRows, redemptions, batch, req>>

(* Another transaction of the same user takes money out of the wallet, under *)
(* the wallet's lock: buyPublicIp stands for all of them.                    *)
Spend(u) ==
  /\ ~WalletLocked(u)
  /\ balance[u] >= 1
  /\ balance' = [balance EXCEPT ![u] = @ - 1]
  /\ spent' = [spent EXCEPT ![u] = @ + 1]
  /\ UNCHANGED <<now, codeRows, redemptions, batch, req>>

SetCodeStatus(c, s) ==
  /\ status[c] # "none"
  /\ ~CodeLocked(c)
  /\ status' = [status EXCEPT ![c] = s]
  /\ UNCHANGED <<now, expires, uses, redemptions, balance, spent, batch, req>>

SetCodeExpiry(c, d) ==
  /\ status[c] # "none"
  /\ ~CodeLocked(c)
  /\ expires' = [expires EXCEPT ![c] = d]
  /\ UNCHANGED <<now, status, uses, redemptions, balance, spent, batch, req>>

(* The cascades update every code of the batch in one statement. *)
SetBatchCodesStatus(b, s) ==
  /\ \A c \in Codes : Batch[c] = b => status[c] # "none" /\ ~CodeLocked(c)
  /\ status' = [c \in Codes |-> IF Batch[c] = b THEN s ELSE status[c]]
  /\ UNCHANGED <<now, expires, uses, redemptions, balance, spent, batch, req>>

SetBatchCodesExpiry(b, d) ==
  /\ \A c \in Codes : Batch[c] = b => status[c] # "none" /\ ~CodeLocked(c)
  /\ expires' = [c \in Codes |-> IF Batch[c] = b THEN d ELSE expires[c]]
  /\ UNCHANGED <<now, status, uses, redemptions, balance, spent, batch, req>>

------------------------------------------------------------------------------
Redeem(r) ==
  \/ Refuse(r) \/ Claim(r) \/ OverLimit(r) \/ LockWallet(r)
  \/ Conflict(r) \/ Commit(r) \/ Abort(r)
  \/ \E u \in Users, c \in Codes : Begin(r, u, c)

Admin ==
  \/ \E b \in Batches :
       \/ \E d \in Days \union {Null} : CreateBatch(b, d) \/ SetBatchCodesExpiry(b, d)
       \/ \E s \in AdminStatus : SetBatchCodesStatus(b, s)
  \/ \E c \in Codes :
       \/ \E d \in Days \union {Null} : SetCodeExpiry(c, d)
       \/ \E s \in AdminStatus : SetCodeStatus(c, s)

Next ==
  \/ NewDay \/ Admin
  \/ \E u \in Users : Spend(u)
  \/ \E r \in Requests : Redeem(r)

Spec == Init /\ [][Next]_vars

------------------------------------------------------------------------------
TypeOK ==
  /\ now \in Days
  /\ status \in [Codes -> AdminStatus \union {"none", "exhausted"}]
  /\ expires \in [Codes -> Days \union {Null}]
  /\ uses \in [Codes -> Nat]
  /\ redemptions \subseteq Redemption
  /\ IsFiniteSet(redemptions)
  /\ balance \in [Users -> Nat]
  /\ spent \in [Users -> Nat]
  /\ batch \in [Batches -> [count : Nat, credit : Nat]]
  /\ req \in [Requests -> Request \union {Idle}]

(* However many requests race for a code, its counter is the number of its   *)
(* redemption rows: no increment is lost and none outlives a rollback.       *)
UsesMatchRedemptions == \A c \in Codes : uses[c] = Cardinality(RowsOf(c))

(* A code is never redeemed more often than max_uses_total allows, nor by    *)
(* one user more often than max_uses_per_user.                               *)
WithinLimits ==
  \A c \in Codes :
    /\ MaxTotal[c] = 0 \/ Cardinality(RowsOf(c)) <= MaxTotal[c]
    /\ \A u \in Users : Cardinality(RowsOfUser(c, u)) <= MaxPerUser[c]

(* Every wallet holds what its owner redeemed less what the owner spent: a   *)
(* redemption and a purchase that meet on the wallet do not overwrite each   *)
(* other.                                                                    *)
CreditMatchesRedemptions ==
  \A u \in Users :
    balance[u] + spent[u] = Sum(Credit, {x \in redemptions : x.user = u})

(* The totals the admin page shows for a batch are those of its redemptions. *)
BatchTotalsMatch ==
  \A b \in Batches :
    LET rows == {x \in redemptions : Batch[x.code] = b} IN
    batch[b] = [count |-> Cardinality(rows), credit |-> Sum(Credit, rows)]

(* A code that reads 'exhausted' has no use left. *)
ExhaustedIsUsedUp ==
  \A c \in Codes : status[c] = "exhausted" => uses[c] = MaxTotal[c]

(* A redemption row is only ever added for a code that is active, and not    *)
(* expired when the request began, in the very state the row is added to:    *)
(* once an admin's revocation or new expiry date is committed, a request     *)
(* that began before it cannot slip through.                                 *)
RedeemedOnlyWhileValid ==
  [][\A r \in Requests :
       (req[r].pc = "paying" /\ redemptions' # redemptions /\ req'[r] = Idle)
         => /\ status[req[r].code] = "active"
            /\ expires[req[r].code] = Null \/ expires[req[r].code] > req[r].start]_vars

(* Requests that wait for the locks of a code and of a wallet never wait for *)
(* each other in a circle, and no lock outlives its transaction: while any   *)
(* request is unanswered, some request can take its next step.               *)
SomeoneGoesOn ==
  (\E r \in Requests : req[r].pc # "idle")
    => \E r \in Requests :
         ENABLED (Refuse(r) \/ Claim(r) \/ OverLimit(r) \/ LockWallet(r)
                    \/ Conflict(r) \/ Commit(r))

==============================================================================
