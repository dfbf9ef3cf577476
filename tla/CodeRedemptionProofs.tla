------------------------- MODULE CodeRedemptionProofs -------------------------
(***************************************************************************)
(* Proofs about CodeRedemption for any number of codes, users and          *)
(* concurrent requests.                                                    *)
(***************************************************************************)
EXTENDS CodeRedemption, SumTheorems, TLAPS

Holding(r) == req[r].pc \in {"claimed", "paying"}

(* What a request has read of a code row stays true while it holds the lock. *)
ClaimHolds(r) ==
  Holding(r) => /\ req[r].uses = uses[req[r].code] + 1
                /\ Redeemable(req[r].code, req[r].start)

CountHolds(r) ==
  req[r].pc = "paying" =>
    /\ req[r].used = Cardinality(RowsOfUser(req[r].code, req[r].user))
    /\ req[r].used < MaxPerUser[req[r].code]

(* At most one request holds the lock of a code row. *)
LockExclusive ==
  \A r, s \in Requests : Holding(r) /\ Holding(s) /\ req[r].code = req[s].code => r = s

Counted(c) ==
  /\ uses[c] = Cardinality(RowsOf(c))
  /\ MaxTotal[c] = 0 \/ uses[c] <= MaxTotal[c]

(* The inductive invariant. *)
RedeemInv ==
  /\ TypeOK
  /\ \A r \in Requests : ClaimHolds(r) /\ CountHolds(r)
  /\ LockExclusive
  /\ \A c \in Codes : Counted(c)
  /\ \A c \in Codes, u \in Users : Cardinality(RowsOfUser(c, u)) <= MaxPerUser[c]

(* Every subset of the redemption rows has a cardinality. *)
LEMMA RowsFinite ==
  ASSUME TypeOK
  PROVE  /\ \A c \in Codes : IsFiniteSet(RowsOf(c)) /\ Cardinality(RowsOf(c)) \in Nat
         /\ \A c \in Codes, u \in Users :
              IsFiniteSet(RowsOfUser(c, u)) /\ Cardinality(RowsOfUser(c, u)) \in Nat
<1>1. IsFiniteSet(redemptions)
  BY DEF TypeOK
<1>2. ASSUME NEW S \in SUBSET redemptions
      PROVE  IsFiniteSet(S) /\ Cardinality(S) \in Nat
  BY <1>1, FS_Subset, FS_CardinalityType
<1>3. \A c : RowsOf(c) \in SUBSET redemptions
  BY DEF RowsOf
<1>4. \A c, u : RowsOfUser(c, u) \in SUBSET redemptions
  BY DEF RowsOfUser
<1> QED BY <1>2, <1>3, <1>4

(* Initially nothing is redeemed and nobody holds a lock. *)
LEMMA InitRedeemInv == Init => RedeemInv
<1> SUFFICES ASSUME Init PROVE RedeemInv
  OBVIOUS
<1>1. TypeOK
  BY CodeAssumptions, FS_EmptySet DEF Init, TypeOK, Days, Null, Idle, Redemption
<1>2. \A r \in Requests : req[r].pc = "idle"
  BY DEF Init, Idle
<1>3. \A c : RowsOf(c) = {}
  BY DEF Init, RowsOf
<1>4. \A c, u : RowsOfUser(c, u) = {}
  BY DEF Init, RowsOfUser
<1>5. \A r \in Requests : ClaimHolds(r) /\ CountHolds(r)
  BY <1>2 DEF ClaimHolds, CountHolds, Holding
<1>6. LockExclusive
  BY <1>2 DEF LockExclusive, Holding
<1>7. ASSUME NEW c \in Codes PROVE Counted(c)
  <2>1. Cardinality(RowsOf(c)) = 0
    BY <1>3, FS_EmptySet
  <2>2. uses[c] = 0 /\ MaxTotal[c] \in Nat
    BY CodeAssumptions DEF Init
  <2> QED BY <2>1, <2>2 DEF Counted
<1>8. \A c \in Codes, u \in Users : Cardinality(RowsOfUser(c, u)) <= MaxPerUser[c]
  BY <1>4, FS_EmptySet, CodeAssumptions
<1> QED BY <1>1, <1>5, <1>6, <1>7, <1>8 DEF RedeemInv

(* A step that leaves the redemption rows, the counters and the requests     *)
(* alone, and the status and expiry of every locked code.                    *)
LEMMA BystanderStep ==
  ASSUME RedeemInv, TypeOK', UNCHANGED <<uses, redemptions, req>>,
         \A c \in Codes : CodeLocked(c) => status'[c] = status[c] /\ expires'[c] = expires[c]
  PROVE  RedeemInv'
<1>1. \A r \in Requests : Holding(r)' <=> Holding(r)
  BY DEF Holding
<1>2. ASSUME NEW r \in Requests, Holding(r)
      PROVE  Redeemable(req[r].code, req[r].start)'
  <2>1. Redeemable(req[r].code, req[r].start)
    BY <1>2 DEF RedeemInv, ClaimHolds
  <2>2. CodeLocked(req[r].code)
    BY <1>2 DEF CodeLocked, Holding
  <2>3. req[r].code \in Codes
    BY <1>2 DEF RedeemInv, TypeOK, Request, Idle, Holding
  <2>4. status'[req[r].code] = status[req[r].code] /\ expires'[req[r].code] = expires[req[r].code]
    BY <2>2, <2>3
  <2> QED BY <2>1, <2>4 DEF Redeemable
<1>3. \A r \in Requests : ClaimHolds(r)'
  BY <1>1, <1>2 DEF RedeemInv, ClaimHolds
<1>4. \A r \in Requests : CountHolds(r)'
  BY DEF RedeemInv, CountHolds, RowsOfUser
<1>5. LockExclusive'
  BY <1>1 DEF RedeemInv, LockExclusive
<1>6. \A c \in Codes : Counted(c)'
  BY DEF RedeemInv, Counted, RowsOf
<1>7. \A c \in Codes, u \in Users : (Cardinality(RowsOfUser(c, u)) <= MaxPerUser[c])'
  BY DEF RedeemInv, RowsOfUser
<1> QED BY <1>3, <1>4, <1>5, <1>6, <1>7 DEF RedeemInv

(* A step of one request that commits nothing: it ends, or it moves on with  *)
(* a lock it has rightly taken.                                              *)
LEMMA RequestStep ==
  ASSUME RedeemInv, NEW r \in Requests, NEW q \in Request \union {Idle},
         req' = [req EXCEPT ![r] = q],
         UNCHANGED <<now, codeRows, redemptions, balance, spent, batch>>,
         q.pc \in {"claimed", "paying"} =>
           /\ q.uses = uses[q.code] + 1
           /\ Redeemable(q.code, q.start)
           /\ \A s \in Requests \ {r} : Holding(s) => req[s].code # q.code,
         q.pc = "paying" =>
           /\ q.used = Cardinality(RowsOfUser(q.code, q.user))
           /\ q.used < MaxPerUser[q.code]
  PROVE  RedeemInv'
<1>0. req'[r] = q /\ \A s \in Requests \ {r} : req'[s] = req[s]
  BY DEF RedeemInv, TypeOK
<1>1. TypeOK'
  BY DEF RedeemInv, TypeOK, codeRows
<1>2. \A c, t : Redeemable(c, t)' <=> Redeemable(c, t)
  BY DEF Redeemable, codeRows
<1>3. \A c, u : RowsOfUser(c, u)' = RowsOfUser(c, u)
  BY DEF RowsOfUser
<1>4. ASSUME NEW s \in Requests PROVE ClaimHolds(s)'
  <2>1. CASE s = r
    BY <2>1, <1>0, <1>2 DEF ClaimHolds, Holding, codeRows, Redeemable
  <2>2. CASE s # r
    BY <2>2, <1>0, <1>2 DEF RedeemInv, ClaimHolds, Holding, codeRows, Redeemable
  <2> QED BY <2>1, <2>2
<1>5. ASSUME NEW s \in Requests PROVE CountHolds(s)'
  <2>1. CASE s = r
    <3>1. RowsOfUser(req[r].code, req[r].user)' = RowsOfUser(q.code, q.user)
      BY <1>0 DEF RowsOfUser
    <3> QED BY <2>1, <1>0, <3>1 DEF CountHolds
  <2>2. CASE s # r
    BY <2>2, <1>0, <1>3 DEF RedeemInv, CountHolds, RowsOfUser
  <2> QED BY <2>1, <2>2
<1>6. LockExclusive'
  BY <1>0 DEF RedeemInv, LockExclusive, Holding
<1>7. \A c \in Codes : Counted(c)'
  BY DEF RedeemInv, Counted, RowsOf, codeRows
<1>8. \A c \in Codes, u \in Users : (Cardinality(RowsOfUser(c, u)) <= MaxPerUser[c])'
  BY <1>3 DEF RedeemInv, RowsOfUser
<1> QED BY <1>1, <1>4, <1>5, <1>6, <1>7, <1>8 DEF RedeemInv

(* The commit of a redemption: the only step that adds a row. *)
LEMMA CommitStep ==
  ASSUME RedeemInv, NEW r \in Requests, Commit(r)
  PROVE  RedeemInv'
<1>0. PICK q \in Request, c \in Codes, u \in Users : q = req[r] /\ c = q.code /\ u = q.user
  <2>1. req[r] \in Request
    BY DEF RedeemInv, TypeOK, Commit, Idle
  <2> QED BY <2>1 DEF Request
<1> DEFINE x == [code |-> c, user |-> u, nth |-> q.used + 1]
<1>1. q.used \in Nat /\ q.uses \in Nat /\ q.balance \in Nat /\ Holding(r)
  BY <1>0 DEF Commit, Request, Holding
<1>2. /\ q.uses = uses[c] + 1
      /\ MaxTotal[c] = 0 \/ uses[c] < MaxTotal[c]
      /\ q.used = Cardinality(RowsOfUser(c, u))
      /\ q.used < MaxPerUser[c]
  BY <1>0, <1>1 DEF RedeemInv, ClaimHolds, CountHolds, Commit, Redeemable
<1>3. RowsOfUser(c, u) = {} /\ x \notin redemptions
  BY <1>0 DEF Commit, KeyTaken, RowsOfUser
<1>4. redemptions' = redemptions \union {x}
  BY <1>0 DEF Commit
<1>5. /\ \A d \in Codes \ {c} : RowsOf(d)' = RowsOf(d)
      /\ RowsOf(c)' = RowsOf(c) \union {x}
      /\ x \notin RowsOf(c)
  BY <1>0, <1>3, <1>4 DEF RowsOf
<1>6. /\ \A d \in Codes, v \in Users : d # c \/ v # u => RowsOfUser(d, v)' = RowsOfUser(d, v)
      /\ RowsOfUser(c, u)' = {} \union {x}
  BY <1>3, <1>4 DEF RowsOfUser
<1>7. Cardinality(RowsOf(c)') = Cardinality(RowsOf(c)) + 1
  <2>1. IsFiniteSet(RowsOf(c))
    BY RowsFinite DEF RedeemInv
  <2> DEFINE S == RowsOf(c)
  <2>2. Cardinality(S \union {x}) = Cardinality(S) + 1
    <3>1. IsFiniteSet(S) /\ x \notin S
      BY <2>1, <1>5
    <3> HIDE DEF S, x
    <3> QED BY <3>1, FS_AddElement
  <2> QED BY <2>2, <1>5
<1>8. Cardinality(RowsOfUser(c, u)') = 1
  <2>1. Cardinality({} \union {x}) = 0 + 1
    <3> HIDE DEF x
    <3> QED BY FS_AddElement, FS_EmptySet
  <2> QED BY <1>6, <2>1
<1>9. /\ uses'[c] = q.uses
      /\ \A d \in Codes \ {c} : uses'[d] = uses[d]
  BY <1>0, <1>1 DEF Commit, RedeemInv, TypeOK
<1>10. /\ req'[r] = Idle
       /\ \A s \in Requests \ {r} : req'[s] = req[s]
  BY <1>0 DEF Commit, RedeemInv, TypeOK
<1>11. \A d \in Codes \ {c} : status'[d] = status[d]
  BY <1>0, <1>1 DEF Commit, RedeemInv, TypeOK
<1>12. \A s \in Requests : Holding(s)' => s # r /\ Holding(s) /\ req[s].code # c /\ req[s].code \in Codes
                                          /\ req'[s] = req[s]
  BY <1>0, <1>1, <1>10 DEF RedeemInv, LockExclusive, Holding, Idle, TypeOK, Request
<1>13. TypeOK'
  <2>1. redemptions' \subseteq Redemption /\ IsFiniteSet(redemptions')
    <3>1. x \in Redemption
      BY <1>0, <1>1 DEF Redemption
    <3>2. redemptions \subseteq Redemption /\ IsFiniteSet(redemptions)
      BY DEF RedeemInv, TypeOK
    <3>3. IsFiniteSet(redemptions \union {x})
      <4> HIDE DEF x
      <4> QED BY <3>2, FS_AddElement
    <3> QED BY <3>1, <3>2, <3>3, <1>4
  <2>2. uses' \in [Codes -> Nat]
    BY <1>0, <1>1 DEF Commit, RedeemInv, TypeOK
  <2>3. balance' \in [Users -> Nat]
    <3>1. q.balance + Value[c] \in Nat
      BY <1>1, CodeAssumptions
    <3>2. balance' = [balance EXCEPT ![u] = q.balance + Value[c]]
      BY <1>0 DEF Commit
    <3> QED BY <3>1, <3>2 DEF RedeemInv, TypeOK
  <2>4. batch' \in [Batches -> [count : Nat, credit : Nat]]
    <3>1. PICK b \in Batches : b = Batch[c]
      BY CodeAssumptions
    <3>2. batch[b].count \in Nat /\ batch[b].credit \in Nat /\ Value[c] \in Nat
      BY CodeAssumptions DEF RedeemInv, TypeOK
    <3>3. BatchCredited(b, Value[c]) \in [count : Nat, credit : Nat]
      BY <3>2 DEF BatchCredited
    <3>4. batch' = [batch EXCEPT ![b] = BatchCredited(b, Value[c])]
      BY <1>0, <3>1 DEF Commit
    <3> QED BY <3>3, <3>4 DEF RedeemInv, TypeOK
  <2>5. status' \in [Codes -> AdminStatus \union {"none", "exhausted"}]
    BY <1>0, <1>1 DEF Commit, RedeemInv, TypeOK
  <2>6. req' \in [Requests -> Request \union {Idle}]
    BY <1>0 DEF Commit, RedeemInv, TypeOK
  <2>7. now' \in Days /\ expires' \in [Codes -> Days \union {Null}] /\ spent' \in [Users -> Nat]
    BY <1>0 DEF Commit, RedeemInv, TypeOK
  <2> QED BY <2>1, <2>2, <2>3, <2>4, <2>5, <2>6, <2>7 DEF TypeOK
<1>14. ASSUME NEW s \in Requests PROVE ClaimHolds(s)'
  <2> SUFFICES ASSUME Holding(s)' PROVE ClaimHolds(s)'
    BY DEF ClaimHolds
  <2>1. Redeemable(req[s].code, req[s].start) /\ req[s].uses = uses[req[s].code] + 1
    BY <1>0, <1>12 DEF RedeemInv, ClaimHolds
  <2>2. expires' = expires
    BY <1>0 DEF Commit
  <2> QED BY <2>1, <2>2, <1>9, <1>11, <1>12 DEF ClaimHolds, Redeemable
<1>15. ASSUME NEW s \in Requests PROVE CountHolds(s)'
  <2> SUFFICES ASSUME req'[s].pc = "paying" PROVE CountHolds(s)'
    BY DEF CountHolds
  <2>1. s # r /\ req[s].code # c /\ req[s].code \in Codes /\ req'[s] = req[s] /\ req[s].user \in Users
    BY <1>0, <1>12 DEF Holding, RedeemInv, TypeOK, Request, Idle
  <2>2. RowsOfUser(req[s].code, req[s].user)' = RowsOfUser(req[s].code, req[s].user)
    BY <2>1, <1>4 DEF RowsOfUser
  <2> QED BY <2>1, <2>2 DEF RedeemInv, CountHolds
<1>16. LockExclusive'
  BY <1>0, <1>12 DEF RedeemInv, LockExclusive
<1>17. ASSUME NEW d \in Codes PROVE Counted(d)'
  <2>1. CASE d = c
    <3>1. uses'[c] = Cardinality(RowsOf(c)')
      BY <1>0, <1>1, <1>2, <1>7, <1>9 DEF RedeemInv, Counted
    <3>2. MaxTotal[c] = 0 \/ uses'[c] <= MaxTotal[c]
      BY <1>0, <1>1, <1>2, <1>9, CodeAssumptions DEF RedeemInv, TypeOK
    <3> QED BY <2>1, <3>1, <3>2 DEF Counted
  <2>2. CASE d # c
    BY <2>2, <1>5, <1>9 DEF RedeemInv, Counted
  <2> QED BY <2>1, <2>2
<1>18. ASSUME NEW d \in Codes, NEW v \in Users
       PROVE  Cardinality(RowsOfUser(d, v)') <= MaxPerUser[d]
  <2>1. CASE d = c /\ v = u
    BY <2>1, <1>1, <1>2, <1>8, CodeAssumptions
  <2>2. CASE d # c \/ v # u
    BY <2>2, <1>6 DEF RedeemInv
  <2> QED BY <2>1, <2>2
<1> QED BY <1>0, <1>13, <1>14, <1>15, <1>16, <1>17, <1>18 DEF RedeemInv

(* Every step of a request keeps the invariant. *)
LEMMA RedeemKeepsInv ==
  ASSUME RedeemInv, NEW r \in Requests, Redeem(r)
  PROVE  RedeemInv'
<1>0. req[r] \in Request \union {Idle} /\ Idle.pc = "idle"
  BY DEF RedeemInv, TypeOK, Idle
<1>1. CASE End(r)
  BY <1>1, <1>0, RequestStep DEF End
<1>2. ASSUME NEW u \in Users, NEW c \in Codes, Begin(r, u, c)
      PROVE  RedeemInv'
  <2> DEFINE q == [pc |-> "begun", code |-> c, user |-> u, start |-> now,
                   uses |-> 0, balance |-> 0, used |-> 0]
  <2>1. q \in Request \union {Idle} /\ q.pc = "begun"
    BY DEF Request, RedeemInv, TypeOK
  <2> HIDE DEF q
  <2> QED BY <1>2, <2>1, RequestStep DEF Begin, q
<1>3. CASE Claim(r)
  <2> DEFINE q == [pc |-> "claimed", code |-> req[r].code, user |-> req[r].user,
                   start |-> req[r].start, uses |-> uses[req[r].code] + 1,
                   balance |-> 0, used |-> 0]
  <2>1. q \in Request
    BY <1>3, <1>0 DEF Claim, Request, RedeemInv, TypeOK
  <2>2. /\ q.pc = "claimed"
        /\ q.code = req[r].code /\ q.start = req[r].start
        /\ q.uses = uses[req[r].code] + 1
    OBVIOUS
  <2>3. req' = [req EXCEPT ![r] = q]
    BY <1>3 DEF Claim
  <2>4. UNCHANGED <<now, codeRows, redemptions, balance, spent, batch>>
    BY <1>3 DEF Claim
  <2>5. \A s \in Requests : Holding(s) => req[s].code # req[r].code
    BY <1>3 DEF Claim, CodeLocked, Holding
  <2>6. Redeemable(req[r].code, req[r].start)
    BY <1>3 DEF Claim
  <2> HIDE DEF q
  <2> QED BY <2>1, <2>2, <2>3, <2>4, <2>5, <2>6, RequestStep
<1>4. CASE LockWallet(r)
  <2> DEFINE n == Cardinality(RowsOfUser(req[r].code, req[r].user))
             q == [pc |-> "paying", code |-> req[r].code, user |-> req[r].user,
                   start |-> req[r].start, uses |-> req[r].uses,
                   balance |-> balance[req[r].user], used |-> n]
  <2>0. req[r] \in Request /\ req[r].pc = "claimed"
    BY <1>4, <1>0 DEF LockWallet
  <2>1. req[r].code \in Codes /\ req[r].user \in Users
    BY <2>0 DEF Request
  <2>2. n \in Nat
    BY <2>1, RowsFinite DEF RedeemInv
  <2>3. q \in Request
    BY <2>0, <2>2 DEF Request, RedeemInv, TypeOK
  <2>4. /\ q.pc = "paying"
        /\ q.code = req[r].code /\ q.start = req[r].start /\ q.user = req[r].user
        /\ q.uses = req[r].uses
        /\ q.used = n
    OBVIOUS
  <2>5. req' = [req EXCEPT ![r] = q]
    BY <1>4 DEF LockWallet
  <2>6. UNCHANGED <<now, codeRows, redemptions, balance, spent, batch>>
    BY <1>4 DEF LockWallet
  <2>7. req[r].uses = uses[req[r].code] + 1 /\ Redeemable(req[r].code, req[r].start)
    BY <2>0 DEF RedeemInv, ClaimHolds, Holding
  <2>8. \A s \in Requests \ {r} : Holding(s) => req[s].code # req[r].code
    BY <2>0 DEF RedeemInv, LockExclusive, Holding
  <2>9. n < MaxPerUser[req[r].code]
    BY <1>4 DEF LockWallet
  <2> HIDE DEF q, n
  <2> QED BY <2>3, <2>4, <2>5, <2>6, <2>7, <2>8, <2>9, RequestStep DEF n
<1>5. CASE Commit(r)
  BY <1>5, CommitStep
<1> QED BY <1>1, <1>2, <1>3, <1>4, <1>5
        DEF Redeem, Refuse, OverLimit, Conflict, Abort

(* The steps of admins, of other transactions and of the clock change no     *)
(* code row that is locked.                                                  *)
LEMMA OthersKeepInv ==
  ASSUME RedeemInv, NewDay \/ Admin \/ \E u \in Users : Spend(u)
  PROVE  RedeemInv'
<1>1. CASE NewDay
  <2>1. TypeOK'
    BY <1>1, CodeAssumptions DEF NewDay, RedeemInv, TypeOK, codeRows, Days
  <2> QED BY <1>1, <2>1, BystanderStep DEF NewDay, codeRows
<1>2. ASSUME NEW u \in Users, Spend(u) PROVE RedeemInv'
  <2>1. TypeOK'
    BY <1>2 DEF Spend, RedeemInv, TypeOK, codeRows
  <2> QED BY <1>2, <2>1, BystanderStep DEF Spend, codeRows
<1>3. ASSUME NEW b \in Batches, NEW d \in Days \union {Null}, CreateBatch(b, d)
      PROVE  RedeemInv'
  <2>1. TypeOK'
    BY <1>3 DEF CreateBatch, RedeemInv, TypeOK, AdminStatus
  <2>2. ASSUME NEW c \in Codes, CodeLocked(c) PROVE Batch[c] # b
    <3>1. PICK r \in Requests : Holding(r) /\ req[r].code = c
      BY <2>2 DEF CodeLocked, Holding
    <3>2. status[c] = "active"
      BY <3>1 DEF RedeemInv, ClaimHolds, Redeemable
    <3> QED BY <3>2, <1>3 DEF CreateBatch
  <2> QED BY <1>3, <2>1, <2>2, BystanderStep DEF CreateBatch
<1>4. ASSUME NEW b \in Batches, NEW d \in Days \union {Null}, SetBatchCodesExpiry(b, d)
      PROVE  RedeemInv'
  <2>1. TypeOK'
    BY <1>4 DEF SetBatchCodesExpiry, RedeemInv, TypeOK
  <2> QED BY <1>4, <2>1, BystanderStep DEF SetBatchCodesExpiry
<1>5. ASSUME NEW b \in Batches, NEW s \in AdminStatus, SetBatchCodesStatus(b, s)
      PROVE  RedeemInv'
  <2>1. TypeOK'
    BY <1>5 DEF SetBatchCodesStatus, RedeemInv, TypeOK
  <2> QED BY <1>5, <2>1, BystanderStep DEF SetBatchCodesStatus
<1>6. ASSUME NEW c \in Codes, NEW d \in Days \union {Null}, SetCodeExpiry(c, d)
      PROVE  RedeemInv'
  <2>1. TypeOK'
    BY <1>6 DEF SetCodeExpiry, RedeemInv, TypeOK
  <2>2. \A e \in Codes \ {c} : expires'[e] = expires[e]
    BY <1>6 DEF SetCodeExpiry, RedeemInv, TypeOK
  <2> QED BY <1>6, <2>1, <2>2, BystanderStep DEF SetCodeExpiry
<1>7. ASSUME NEW c \in Codes, NEW s \in AdminStatus, SetCodeStatus(c, s)
      PROVE  RedeemInv'
  <2>1. TypeOK'
    BY <1>7 DEF SetCodeStatus, RedeemInv, TypeOK
  <2>2. \A e \in Codes \ {c} : status'[e] = status[e]
    BY <1>7 DEF SetCodeStatus, RedeemInv, TypeOK
  <2> QED BY <1>7, <2>1, <2>2, BystanderStep DEF SetCodeStatus
<1> QED BY <1>1, <1>2, <1>3, <1>4, <1>5, <1>6, <1>7 DEF Admin

LEMMA NextKeepsRedeemInv == RedeemInv /\ [Next]_vars => RedeemInv'
<1> SUFFICES ASSUME RedeemInv, [Next]_vars PROVE RedeemInv'
  OBVIOUS
<1>1. CASE UNCHANGED vars
  <2>1. TypeOK'
    BY <1>1 DEF vars, RedeemInv, TypeOK
  <2> QED BY <1>1, <2>1, BystanderStep DEF vars
<1>2. CASE NewDay \/ Admin \/ \E u \in Users : Spend(u)
  BY <1>2, OthersKeepInv
<1>3. ASSUME NEW r \in Requests, Redeem(r) PROVE RedeemInv'
  BY <1>3, RedeemKeepsInv
<1> QED BY <1>1, <1>2, <1>3 DEF Next

(* The invariant holds in every reachable state. *)
LEMMA RedeemInvAlways == Spec => []RedeemInv
<1> QED BY InitRedeemInv, NextKeepsRedeemInv, PTL DEF Spec

(* Counters, balances and batch totals never go negative, and a request      *)
(* keeps what it has read in its place, for any number of concurrent calls.  *)
THEOREM TypeCorrect == Spec => []TypeOK
<1>1. RedeemInv => TypeOK
  BY DEF RedeemInv
<1> QED BY <1>1, RedeemInvAlways, PTL

(* Only the redemption that takes the last use marks a code exhausted, and   *)
(* the counter of an exhausted code does not move.                           *)
LEMMA CommitKeepsExhausted ==
  ASSUME RedeemInv, ExhaustedIsUsedUp, NEW r \in Requests, Commit(r)
  PROVE  ExhaustedIsUsedUp'
<1>0. PICK q \in Request, c \in Codes : q = req[r] /\ c = q.code
  <2>1. req[r] \in Request
    BY DEF RedeemInv, TypeOK, Commit, Idle
  <2> QED BY <2>1 DEF Request
<1>1. /\ q.uses = uses[c] + 1
      /\ status[c] = "active"
      /\ MaxTotal[c] = 0 \/ uses[c] < MaxTotal[c]
  BY <1>0 DEF RedeemInv, ClaimHolds, Holding, Commit, Redeemable
<1>2. uses[c] \in Nat /\ q.uses \in Nat /\ MaxTotal[c] \in Nat
  BY <1>0, CodeAssumptions DEF RedeemInv, TypeOK, Request
<1>3. uses' = [uses EXCEPT ![c] = q.uses]
  BY <1>0 DEF Commit
<1>4. /\ uses'[c] = q.uses
      /\ \A d \in Codes \ {c} : uses'[d] = uses[d]
  BY <1>3 DEF RedeemInv, TypeOK
<1>5. \A d \in Codes \ {c} : status'[d] = status[d]
  BY <1>0 DEF Commit, RedeemInv, TypeOK
<1>6. status'[c] = "exhausted" => q.uses >= MaxTotal[c] /\ MaxTotal[c] > 0
  BY <1>0, <1>1 DEF Commit, UsedUp, RedeemInv, TypeOK
<1> QED BY <1>1, <1>2, <1>4, <1>5, <1>6 DEF ExhaustedIsUsedUp

(* A code that reads 'exhausted' has no use left, whatever redemptions race  *)
(* and whatever an administrator does to the code in between.                *)
THEOREM ExhaustedTheorem == Spec => []ExhaustedIsUsedUp
<1>1. Init => ExhaustedIsUsedUp
  BY DEF Init, ExhaustedIsUsedUp
<1>2. RedeemInv /\ ExhaustedIsUsedUp /\ [Next]_vars => ExhaustedIsUsedUp'
  <2> SUFFICES ASSUME RedeemInv, ExhaustedIsUsedUp, [Next]_vars PROVE ExhaustedIsUsedUp'
    OBVIOUS
  <2>1. CASE UNCHANGED codeRows
    BY <2>1 DEF codeRows, ExhaustedIsUsedUp
  <2>2. ASSUME uses' = uses,
               \A c \in Codes : status'[c] = status[c] \/ status'[c] \in AdminStatus
        PROVE  ExhaustedIsUsedUp'
    BY <2>2 DEF ExhaustedIsUsedUp, AdminStatus
  <2>3. CASE Admin
    <3>1. uses' = uses
      BY <2>3 DEF Admin, CreateBatch, SetBatchCodesExpiry, SetBatchCodesStatus, SetCodeExpiry, SetCodeStatus
    <3>2. ASSUME NEW c \in Codes
          PROVE  status'[c] = status[c] \/ status'[c] \in AdminStatus
      BY <2>3 DEF Admin, CreateBatch, SetBatchCodesExpiry, SetBatchCodesStatus, SetCodeExpiry,
                  SetCodeStatus, RedeemInv, TypeOK, AdminStatus
    <3> QED BY <3>1, <3>2, <2>2
  <2>4. ASSUME NEW r \in Requests, Redeem(r) PROVE ExhaustedIsUsedUp'
    <3>1. CASE Commit(r)
      BY <3>1, CommitKeepsExhausted
    <3>2. CASE ~Commit(r)
      BY <3>2, <2>4, <2>1 DEF Redeem, Refuse, Claim, OverLimit, LockWallet, Conflict, Abort, Begin, End
    <3> QED BY <3>1, <3>2
  <2>5. CASE NewDay \/ \E u \in Users : Spend(u)
    BY <2>5, <2>1 DEF NewDay, Spend
  <2>6. CASE UNCHANGED vars
    BY <2>6, <2>1 DEF vars, codeRows
  <2> QED BY <2>3, <2>4, <2>5, <2>6 DEF Next
<1> QED BY <1>1, <1>2, RedeemInvAlways, PTL DEF Spec

(* The counter of a code is the number of its redemption rows, for any       *)
(* number of concurrent calls of redeem.                                     *)
THEOREM UsesMatchTheorem == Spec => []UsesMatchRedemptions
<1>1. RedeemInv => UsesMatchRedemptions
  BY DEF RedeemInv, Counted, UsesMatchRedemptions
<1> QED BY <1>1, RedeemInvAlways, PTL

(* No code is redeemed beyond max_uses_total or max_uses_per_user.           *)
THEOREM WithinLimitsTheorem == Spec => []WithinLimits
<1>1. RedeemInv => WithinLimits
  BY DEF RedeemInv, Counted, WithinLimits
<1> QED BY <1>1, RedeemInvAlways, PTL

(* No redemption is committed for a code that has been revoked, paused or    *)
(* expired since the request began.                                          *)
THEOREM RedeemedOnlyWhileValidTheorem == Spec => RedeemedOnlyWhileValid
<1> DEFINE Act ==
      \A r \in Requests :
        (req[r].pc = "paying" /\ redemptions' # redemptions /\ req'[r] = Idle)
          => /\ status[req[r].code] = "active"
             /\ expires[req[r].code] = Null \/ expires[req[r].code] > req[r].start
<1>1. RedeemInv => Act
  BY DEF RedeemInv, ClaimHolds, Holding, Redeemable
<1>2. RedeemInv /\ [Next]_vars => [Act]_vars
  BY <1>1
<1> QED BY <1>2, RedeemInvAlways, PTL DEF Spec, RedeemedOnlyWhileValid

------------------------------------------------------------------------------
(* Money. *)

Paying(r) == req[r].pc = "paying"

(* One request holds the lock of a wallet, and the balance it read under the *)
(* lock is still the balance of the wallet.                                  *)
WalletsHeld ==
  /\ \A r, s \in Requests : Paying(r) /\ Paying(s) /\ req[r].user = req[s].user => r = s
  /\ \A r \in Requests : Paying(r) => req[r].balance = balance[req[r].user]

MoneyInv == WalletsHeld /\ CreditMatchesRedemptions /\ BatchTotalsMatch

RowsOfOwner(u) == {x \in redemptions : x.user = u}
RowsOfBatch(b) == {x \in redemptions : Batch[x.code] = b}

(* Any set of redemption rows has a finite, integer total. *)
LEMMA CreditAddsUp ==
  ASSUME TypeOK, NEW S \in SUBSET redemptions
  PROVE  /\ IsFiniteSet(S) /\ Cardinality(S) \in Nat
         /\ \A x \in S : Credit[x] = Value[x.code] /\ Credit[x] \in Int
         /\ Sum(Credit, S) \in Int
<1>1. IsFiniteSet(S) /\ Cardinality(S) \in Nat
  BY FS_Subset, FS_CardinalityType DEF TypeOK
<1>2. \A x \in S : Credit[x] = Value[x.code] /\ Credit[x] \in Int
  BY CodeAssumptions DEF TypeOK, Redemption, Credit
<1> QED BY <1>1, <1>2, SumInt

(* One more row adds its code's value to the total of a set it belongs to.   *)
LEMMA RowAdds ==
  ASSUME TypeOK, NEW x, x \notin redemptions, redemptions' = redemptions \union {x},
         Value[x.code] \in Int, NEW S \in SUBSET redemptions
  PROVE  /\ Sum(Credit', S) = Sum(Credit, S)
         /\ Sum(Credit', S \union {x}) = Sum(Credit, S) + Value[x.code]
         /\ Cardinality(S \union {x}) = Cardinality(S) + 1
<1> DEFINE g == [y \in redemptions \union {x} |-> Value[y.code]]
<1>1. /\ IsFiniteSet(S) /\ Sum(Credit, S) \in Int
      /\ \A y \in S : Credit[y] = Value[y.code] /\ Credit[y] \in Int
  BY CreditAddsUp
<1>2. Credit' = g
  BY DEF Credit
<1>3. /\ \A y \in S : g[y] = Credit[y]
      /\ \A y \in S \union {x} : g[y] \in Int
      /\ g[x] = Value[x.code] /\ x \notin S
  BY <1>1
<1> HIDE DEF g
<1>4. Sum(g, S) = Sum(Credit, S)
  BY <1>1, <1>3, SumSame
<1>5. Sum(g, S \union {x}) = g[x] + Sum(g, S)
  BY <1>1, <1>3, SumAdd
<1>6. Sum(g, S \union {x}) = Sum(Credit, S) + Value[x.code]
  BY <1>1, <1>3, <1>4, <1>5
<1>7. Cardinality(S \union {x}) = Cardinality(S) + 1
  BY <1>1, <1>3, FS_AddElement
<1> QED BY <1>2, <1>4, <1>6, <1>7

(* The commit of a redemption writes the balance that was read under the     *)
(* lock plus the value, and the same value to the batch.                     *)
LEMMA CommitMoney ==
  ASSUME RedeemInv, MoneyInv, NEW r \in Requests, Commit(r)
  PROVE  MoneyInv'
<1>0. PICK q \in Request, c \in Codes, u \in Users : q = req[r] /\ c = q.code /\ u = q.user
  <2>1. req[r] \in Request
    BY DEF RedeemInv, TypeOK, Commit, Idle
  <2> QED BY <2>1 DEF Request
<1>1. PICK x : x = [code |-> c, user |-> u, nth |-> q.used + 1]
  OBVIOUS
<1>2. x.code = c /\ x.user = u /\ Value[c] \in Nat /\ Batch[c] \in Batches
  BY <1>1, CodeAssumptions
<1>3. x \notin redemptions /\ redemptions' = redemptions \union {x}
  BY <1>0, <1>1 DEF Commit, KeyTaken, RowsOfUser
<1>4. TypeOK /\ RowsOfOwner(u) \in SUBSET redemptions /\ Value[x.code] \in Int
  BY <1>2 DEF RedeemInv, RowsOfOwner
<1>5. /\ balance' = [balance EXCEPT ![u] = balance[u] + Value[c]]
      /\ Paying(r)
      /\ spent' = spent
  <2>1. Paying(r) /\ q.balance = balance[u]
    BY <1>0 DEF Commit, MoneyInv, WalletsHeld, Paying
  <2> QED BY <2>1, <1>0 DEF Commit
<1>6. /\ req'[r] = Idle
      /\ \A s \in Requests \ {r} : req'[s] = req[s]
  BY <1>0 DEF Commit, RedeemInv, TypeOK
<1>7. WalletsHeld'
  <2>1. ASSUME NEW s \in Requests, Paying(s)'
        PROVE  /\ s # r /\ Paying(s) /\ req'[s] = req[s]
               /\ req[s].user # u /\ req[s].user \in Users
    <3>1. s # r /\ Paying(s) /\ req'[s] = req[s]
      BY <1>6, <2>1 DEF Paying, Idle
    <3> QED BY <3>1, <1>0, <1>5 DEF MoneyInv, WalletsHeld, RedeemInv, TypeOK, Request, Idle, Paying
  <2>2. ASSUME NEW s \in Requests, Paying(s)'
        PROVE  req'[s].balance = balance'[req'[s].user]
    <3>1. balance'[req[s].user] = balance[req[s].user]
      BY <1>4, <1>5, <2>1, <2>2 DEF TypeOK
    <3> QED BY <2>1, <2>2, <3>1 DEF MoneyInv, WalletsHeld
  <2> QED BY <2>1, <2>2 DEF MoneyInv, WalletsHeld
<1>8. ASSUME NEW v \in Users
      PROVE  balance'[v] + spent'[v] = Sum(Credit', RowsOfOwner(v)')
  <2>0. /\ balance[v] + spent[v] = Sum(Credit, RowsOfOwner(v))
        /\ balance[v] \in Nat /\ spent[v] \in Nat
    BY <1>4 DEF MoneyInv, CreditMatchesRedemptions, RowsOfOwner, TypeOK
  <2>1. CASE v = u
    <3>1. RowsOfOwner(v)' = RowsOfOwner(u) \union {x}
      BY <1>2, <1>3, <2>1 DEF RowsOfOwner
    <3>2. Sum(Credit', RowsOfOwner(u) \union {x}) = Sum(Credit, RowsOfOwner(u)) + Value[c]
      BY <1>2, <1>3, <1>4, RowAdds
    <3>3. balance'[v] = balance[u] + Value[c] /\ spent'[v] = spent[u]
      BY <1>4, <1>5, <2>1 DEF TypeOK
    <3>4. balance'[v] + spent'[v] = Sum(Credit, RowsOfOwner(u)) + Value[c]
      BY <1>2, <2>0, <2>1, <3>3
    <3> QED BY <3>1, <3>2, <3>4
  <2>2. CASE v # u
    <3>1. RowsOfOwner(v)' = RowsOfOwner(v) /\ RowsOfOwner(v) \in SUBSET redemptions
      BY <1>2, <1>3, <2>2 DEF RowsOfOwner
    <3>2. Sum(Credit', RowsOfOwner(v)) = Sum(Credit, RowsOfOwner(v))
      BY <1>3, <1>4, <3>1, RowAdds
    <3>3. balance'[v] = balance[v] /\ spent'[v] = spent[v]
      BY <1>4, <1>5, <2>2 DEF TypeOK
    <3> QED BY <2>0, <3>1, <3>2, <3>3
  <2> QED BY <2>1, <2>2
<1>9. ASSUME NEW b \in Batches
      PROVE  batch'[b] = [count |-> Cardinality(RowsOfBatch(b)'), credit |-> Sum(Credit', RowsOfBatch(b)')]
  <2>0. /\ batch[b] = [count |-> Cardinality(RowsOfBatch(b)), credit |-> Sum(Credit, RowsOfBatch(b))]
        /\ RowsOfBatch(b) \in SUBSET redemptions
    BY DEF MoneyInv, BatchTotalsMatch, RowsOfBatch
  <2>1. batch' = [batch EXCEPT ![Batch[c]] = BatchCredited(Batch[c], Value[c])]
    BY <1>0 DEF Commit
  <2>2. CASE b = Batch[c]
    <3>1. RowsOfBatch(b)' = RowsOfBatch(b) \union {x}
      BY <1>2, <1>3, <2>2 DEF RowsOfBatch
    <3>2. /\ Sum(Credit', RowsOfBatch(b) \union {x}) = Sum(Credit, RowsOfBatch(b)) + Value[c]
          /\ Cardinality(RowsOfBatch(b) \union {x}) = Cardinality(RowsOfBatch(b)) + 1
      BY <1>2, <1>3, <1>4, <2>0, RowAdds
    <3>3. batch'[b] = [count |-> Cardinality(RowsOfBatch(b)) + 1,
                       credit |-> Sum(Credit, RowsOfBatch(b)) + Value[c]]
      BY <1>2, <1>4, <2>0, <2>1, <2>2 DEF TypeOK, BatchCredited
    <3> QED BY <3>1, <3>2, <3>3
  <2>3. CASE b # Batch[c]
    <3>1. RowsOfBatch(b)' = RowsOfBatch(b)
      BY <1>2, <1>3, <2>3 DEF RowsOfBatch
    <3>2. Sum(Credit', RowsOfBatch(b)) = Sum(Credit, RowsOfBatch(b))
      BY <1>3, <1>4, <2>0, RowAdds
    <3>3. batch'[b] = batch[b]
      BY <1>2, <1>4, <2>1, <2>3 DEF TypeOK
    <3> QED BY <2>0, <3>1, <3>2, <3>3
  <2> QED BY <2>2, <2>3
<1> QED BY <1>7, <1>8, <1>9 DEF MoneyInv, CreditMatchesRedemptions, BatchTotalsMatch, RowsOfOwner, RowsOfBatch

(* A step that moves no money, and after which no request holds a wallet it  *)
(* did not hold before.                                                      *)
LEMMA IdleMoney ==
  ASSUME MoneyInv, UNCHANGED <<redemptions, balance, spent, batch>>,
         \A r \in Requests : Paying(r)' => req'[r] = req[r]
  PROVE  MoneyInv'
<1>1. WalletsHeld'
  BY DEF MoneyInv, WalletsHeld, Paying
<1>2. CreditMatchesRedemptions' /\ BatchTotalsMatch'
  BY DEF MoneyInv, CreditMatchesRedemptions, BatchTotalsMatch, Credit
<1> QED BY <1>1, <1>2 DEF MoneyInv

(* Reading the balance under a lock nobody else holds. *)
LEMMA LockWalletMoney ==
  ASSUME RedeemInv, MoneyInv, NEW r \in Requests, LockWallet(r)
  PROVE  MoneyInv'
<1>1. /\ \A s \in Requests \ {r} : req'[s] = req[s]
      /\ req'[r].user = req[r].user /\ req'[r].balance = balance[req[r].user]
      /\ ~WalletLocked(req[r].user)
      /\ UNCHANGED <<redemptions, balance, spent, batch>>
  BY DEF LockWallet, RedeemInv, TypeOK
<1>2. \A s \in Requests \ {r} : Paying(s)' => Paying(s) /\ req[s].user # req[r].user
  BY <1>1 DEF Paying, WalletLocked
<1>3. WalletsHeld'
  BY <1>1, <1>2 DEF MoneyInv, WalletsHeld
<1>4. CreditMatchesRedemptions' /\ BatchTotalsMatch'
  BY <1>1 DEF MoneyInv, CreditMatchesRedemptions, BatchTotalsMatch, Credit
<1> QED BY <1>3, <1>4 DEF MoneyInv

(* A purchase takes its price from a wallet no redemption holds. *)
LEMMA SpendMoney ==
  ASSUME RedeemInv, MoneyInv, NEW u \in Users, Spend(u)
  PROVE  MoneyInv'
<1>1. /\ balance' = [balance EXCEPT ![u] = @ - 1] /\ spent' = [spent EXCEPT ![u] = @ + 1]
      /\ UNCHANGED <<redemptions, batch, req>> /\ ~WalletLocked(u)
      /\ \A v \in Users : balance[v] \in Int /\ spent[v] \in Int
      /\ DOMAIN balance = Users /\ DOMAIN spent = Users
  BY DEF Spend, RedeemInv, TypeOK
<1>2. \A v \in Users : balance'[v] + spent'[v] = balance[v] + spent[v]
  BY <1>1
<1>3. CreditMatchesRedemptions' /\ BatchTotalsMatch'
  BY <1>1, <1>2 DEF MoneyInv, CreditMatchesRedemptions, BatchTotalsMatch, Credit
<1>4. \A r \in Requests : Paying(r) => req[r].user # u /\ balance'[req[r].user] = balance[req[r].user]
  <2>1. \A r \in Requests : Paying(r) => req[r].user # u /\ req[r].user \in Users
    BY <1>1 DEF Paying, WalletLocked, RedeemInv, TypeOK, Request, Idle
  <2> QED BY <1>1, <2>1
<1>5. WalletsHeld'
  BY <1>1, <1>4 DEF MoneyInv, WalletsHeld, Paying
<1> QED BY <1>3, <1>5 DEF MoneyInv

LEMMA MoneyStep ==
  ASSUME RedeemInv, MoneyInv, [Next]_vars
  PROVE  MoneyInv'
<1>1. ASSUME NEW r \in Requests, Redeem(r) PROVE MoneyInv'
  <2>0. req \in [Requests -> Request \union {Idle}] /\ Idle.pc = "idle"
    BY DEF RedeemInv, TypeOK, Idle
  <2>1. CASE Commit(r)
    BY <2>1, CommitMoney
  <2>2. CASE LockWallet(r)
    BY <2>2, LockWalletMoney
  <2>3. CASE End(r)
    BY <2>0, <2>3, IdleMoney DEF End, Paying
  <2>4. CASE Claim(r)
    BY <2>0, <2>4, IdleMoney DEF Claim, Paying
  <2>5. CASE \E u \in Users, c \in Codes : Begin(r, u, c)
    BY <2>0, <2>5, IdleMoney DEF Begin, Paying
  <2> QED BY <1>1, <2>1, <2>2, <2>3, <2>4, <2>5 DEF Redeem, Refuse, OverLimit, Conflict, Abort
<1>2. CASE NewDay \/ Admin \/ UNCHANGED vars
  <2>1. UNCHANGED <<redemptions, balance, spent, batch, req>>
    BY <1>2 DEF NewDay, Admin, CreateBatch, SetBatchCodesExpiry, SetBatchCodesStatus, SetCodeExpiry,
                SetCodeStatus, vars
  <2> QED BY <2>1, IdleMoney
<1>3. CASE \E u \in Users : Spend(u)
  BY <1>3, SpendMoney
<1> QED BY <1>1, <1>2, <1>3 DEF Next

LEMMA MoneyInvAlways == Spec => []MoneyInv
<1>1. Init => MoneyInv
  <2> SUFFICES ASSUME Init PROVE MoneyInv
    OBVIOUS
  <2>1. /\ redemptions = {} /\ \A r \in Requests : ~Paying(r)
        /\ \A u \in Users : balance[u] + spent[u] = 0
        /\ \A b \in Batches : batch[b] = [count |-> 0, credit |-> 0]
    BY DEF Init, Paying, Idle
  <2>2. Sum(Credit, {}) = 0 /\ Cardinality({}) = 0
    BY SumEmpty, FS_EmptySet
  <2>3. /\ \A u : {x \in redemptions : x.user = u} = {}
        /\ \A b : {x \in redemptions : Batch[x.code] = b} = {}
    BY <2>1
  <2>4. CreditMatchesRedemptions /\ BatchTotalsMatch
    BY <2>1, <2>2, <2>3 DEF CreditMatchesRedemptions, BatchTotalsMatch
  <2> QED BY <2>1, <2>4 DEF MoneyInv, WalletsHeld
<1> QED BY <1>1, MoneyStep, RedeemInvAlways, PTL DEF Spec

(* Redemptions and purchases that meet on a wallet never overwrite each      *)
(* other: every wallet holds what was redeemed less what was spent.          *)
THEOREM CreditTheorem == Spec => []CreditMatchesRedemptions
<1>1. MoneyInv => CreditMatchesRedemptions
  BY DEF MoneyInv
<1> QED BY <1>1, MoneyInvAlways, PTL

(* The count and the credit shown for a batch are those of its redemption    *)
(* rows, whichever requests were rolled back.                                *)
THEOREM BatchTotalsTheorem == Spec => []BatchTotalsMatch
<1>1. MoneyInv => BatchTotalsMatch
  BY DEF MoneyInv
<1> QED BY <1>1, MoneyInvAlways, PTL

==============================================================================
