-------------------------- MODULE GatewaySyncProofs --------------------------
(***************************************************************************)
(* For any tunnels, addresses, customers and clients: type correctness of  *)
(* GatewaySync, that no address is attached to another customer's tunnel,  *)
(* and that the kernel lets a peer receive nothing its record leaves out.  *)
(***************************************************************************)
EXTENDS GatewaySync, SequenceTheorems, TLAPS

------------------------------------------------------------------------------
(* Type correctness *)

(* A call has its type. *)
LEMMA CallType ==
  ASSUME NEW op \in {"create", "update", "delete", "refresh", "enqueue", "provision"},
         NEW t \in Tunnels, NEW ips \in SUBSET Ips
  PROVE  Call(op, t, ips) \in CallSet
BY DEF Call, CallSet

(* One call is a list of calls. *)
LEMMA OneCall ==
  ASSUME NEW x \in CallSet
  PROVE  <<x>> \in Seq(CallSet)
OBVIOUS

(* The addresses the rows give to a tunnel are addresses. *)
LEMMA WantType == \A t : Want(t) \in SUBSET Ips
BY DEF Want

(* What can be on record. *)
LEMMA RecordType == NoMeta \in Records /\ Stub \in Records /\ \A ips \in SUBSET Ips : ips \in Records
BY DEF Records

(* What an operation has read, by the kind of the operation. *)
LEMMA TxnType ==
  ASSUME NEW x \in TxnSet
  PROVE  /\ x.op = "delete" => x.t \in Tunnels
         /\ x.op = "cancelTunnel" => x.t \in Tunnels
         /\ x.op = "buy" => x.ip \in Ips /\ x.user \in Users
         /\ x.op = "cancelIp" => x.ip \in Ips
         /\ x.op = "move" => /\ x.ip \in Ips
                             /\ x.from \in Tunnels \union {NoTunnel}
                             /\ x.to \in Tunnels \union {NoTunnel}
<1>1. CASE x = NoTxn
  BY <1>1 DEF NoTxn
<1>2. CASE x \in [op : {"delete", "cancelTunnel"}, t : Tunnels]
  BY <1>2
<1>3. CASE x \in [op : {"buy"}, ip : Ips, user : Users]
  BY <1>3
<1>4. CASE x \in [op : {"cancelIp"}, ip : Ips]
  BY <1>4
<1>5. CASE x \in [op : {"move"}, ip : Ips, from : Tunnels \union {NoTunnel},
                  to : Tunnels \union {NoTunnel}]
  BY <1>5
<1> QED BY <1>1, <1>2, <1>3, <1>4, <1>5 DEF TxnSet

(* The initial state has the types. *)
LEMMA TypeInit == Init => TypeOK
<1> SUFFICES ASSUME Init PROVE TypeOK
  OBVIOUS
<1> USE SyncAssumptions DEF Init
<1>1. AgentTypeOK
  BY RecordType DEF AgentInit, AgentTypeOK
<1>2. RowsTypeOK
  BY DEF RowsTypeOK
<1>3. txn \in [Clients -> TxnSet]
  BY DEF TxnSet
<1>4. calls \in [Clients -> Seq(CallSet)] /\ late \subseteq AgentCalls
  OBVIOUS
<1>5. JobsTypeOK
  BY DEF JobsTypeOK
<1>6. drift \in DriftSet /\ ops \in 0..MaxOps /\ faults \in 0..MaxFaults
  BY DEF DriftSet
<1> QED BY <1>1, <1>2, <1>3, <1>4, <1>5, <1>6 DEF TypeOK

(* Setting the device keeps its types. *)
LEMMA ConfigureType ==
  ASSUME AgentTypeOK, NEW t \in Tunnels, NEW ips \in SUBSET Ips, ConfigurePeer(t, ips)
  PROVE  peers' \subseteq Tunnels /\ allowed' \in [Ips -> Tunnels \union {NoTunnel}]
BY DEF AgentTypeOK, ConfigurePeer, ReplaceAllowed

(* So does the end of a call. *)
LEMMA EndType ==
  ASSUME AgentTypeOK, NEW t \in Tunnels, NEW r \in Records, StoreMeta(t, r) \/ StopAmongRoutes(t, r)
  PROVE  meta' \in [Tunnels -> Records] /\ torn' \subseteq Tunnels
BY DEF AgentTypeOK, StoreMeta, StopAmongRoutes

(* A call the agent carries out keeps the types of its state. *)
LEMMA ApplyType ==
  ASSUME AgentTypeOK, NEW x \in AgentCalls, Apply(x)
  PROVE  AgentTypeOK'
<1> x.t \in Tunnels /\ x.ips \in SUBSET Ips /\ {} \in SUBSET Ips
  BY DEF AgentCalls, CallSet
<1> USE RecordType
<1>1. CASE UNCHANGED agentVars
  BY <1>1 DEF agentVars, AgentTypeOK
<1>2. CASE x.op = "create"
  BY <1>1, <1>2, ConfigureType, EndType DEF Apply, CreatePeer, AgentTypeOK
<1>3. CASE x.op = "update"
  BY <1>3, ConfigureType, EndType DEF Apply, UpdatePeer, AgentTypeOK
<1>4. CASE x.op = "delete"
  <2>1. DeletePeer(x.t)
    BY <1>4 DEF Apply
  <2>2. allowed' \in [Ips -> Tunnels \union {NoTunnel}]
    BY <2>1 DEF DeletePeer, ReplaceAllowed, AgentTypeOK
  <2> QED BY <2>1, <2>2, EndType DEF DeletePeer, AgentTypeOK
<1>5. CASE x.op = "provision"
  <2>1. ProvisionPeer(x.t)
    BY <1>5 DEF Apply
  <2>2. CASE ConfigurePeer(x.t, {}) /\ StoreMeta(x.t, {}) /\ UNCHANGED routes
    BY <2>1, <2>2, <1>1, ConfigureType, EndType DEF ProvisionPeer, AgentTypeOK
  <2> QED BY <2>1, <2>2, <1>1 DEF ProvisionPeer, AgentTypeOK
<1> QED BY <1>2, <1>3, <1>4, <1>5 DEF AgentCalls

(* So does a call that ends half-way. *)
LEMMA BreaksType ==
  ASSUME AgentTypeOK, NEW x \in AgentCalls, Breaks(x)
  PROVE  AgentTypeOK'
<1> x.t \in Tunnels /\ x.ips \in SUBSET Ips /\ meta[x.t] \in Records
  BY DEF AgentCalls, CallSet, AgentTypeOK
<1>1. CASE CreateFails(x.t, x.ips)
  BY <1>1, ConfigureType, EndType DEF CreateFails, AgentTypeOK
<1>2. CASE UpdateFails(x.t, x.ips)
  <2> DEFINE record == IF meta[x.t] = NoMeta THEN Stub ELSE meta[x.t]
  <2>1. record \in Records
    BY RecordType
  <2> HIDE DEF record
  <2>2. CASE meta' = [meta EXCEPT ![x.t] = record] /\ UNCHANGED <<peers, allowed, routes, torn>>
    BY <1>2, <2>1, <2>2 DEF UpdateFails, AgentTypeOK
  <2>3. CASE ConfigurePeer(x.t, x.ips) /\ StopAmongRoutes(x.t, record) /\ routes' \subseteq Ips
    BY <1>2, <2>1, <2>3, ConfigureType, EndType DEF UpdateFails, AgentTypeOK
  <2>4. ConfigurePeer(x.t, x.ips) => routes' \subseteq Ips \/ UNCHANGED routes
    BY <1>2 DEF UpdateFails, AgentTypeOK
  <2> QED BY <1>2, <2>2, <2>3, <2>4 DEF UpdateFails, record, AgentTypeOK
<1> QED BY <1>1, <1>2 DEF Breaks

(* The drift run keeps its shape and sends calls the agent serves. *)
LEMMA PushType ==
  ASSUME drift \in DriftSet, NEW t \in Tunnels, Todo(t)
  PROVE  Done(t) \in DriftSet /\ Push(t) \subseteq AgentCalls
<1>1. CASE drift \in [phase : {"orphans"}, todo : SUBSET Tunnels]
  <2>1. Done(t) \in [phase : {"orphans"}, todo : SUBSET Tunnels]
    BY <1>1 DEF Done
  <2>2. Call("delete", t, {}) \in AgentCalls
    BY CallType DEF AgentCalls, Call
  <2> QED BY <1>1, <2>1, <2>2 DEF DriftSet, Push
<1>2. CASE drift \in [phase : {"pushing"}, kernel : SUBSET Tunnels, have : [Tunnels -> Records],
                      live : SUBSET Tunnels, want : [Tunnels -> SUBSET Ips], todo : SUBSET Tunnels]
  <2>1. Done(t) \in [phase : {"pushing"}, kernel : SUBSET Tunnels, have : [Tunnels -> Records],
                     live : SUBSET Tunnels, want : [Tunnels -> SUBSET Ips], todo : SUBSET Tunnels]
    BY <1>2 DEF Done
  <2>2. /\ Call("create", t, drift.want[t]) \in AgentCalls
        /\ Call("update", t, drift.want[t]) \in AgentCalls
    BY <1>2, CallType DEF AgentCalls, Call
  <2> QED BY <1>2, <2>1, <2>2 DEF DriftSet, Push
<1>3. drift \notin [phase : {"listed"}, kernel : SUBSET Tunnels, have : [Tunnels -> Records]]
  BY DEF Todo
<1>4. drift # NoDrift
  BY DEF Todo, NoDrift
<1> QED BY <1>1, <1>2, <1>3, <1>4 DEF DriftSet

(* Every step keeps the types. *)
LEMMA TypeStep ==
  ASSUME TypeOK, Next
  PROVE  TypeOK'
<1> USE SyncAssumptions DEF TypeOK
<1>0. ASSUME NEW c, Operation(c)
      PROVE  /\ AgentTypeOK' /\ JobsTypeOK' /\ late' \subseteq AgentCalls
             /\ drift' \in DriftSet /\ ops' \in 0..MaxOps /\ faults' \in 0..MaxFaults
  BY <1>0 DEF Operation, agentVars, jobVars, AgentTypeOK, JobsTypeOK
<1>1. ASSUME NEW c, NEW op, Resume(c, op)
      PROVE  /\ AgentTypeOK' /\ JobsTypeOK' /\ late' \subseteq AgentCalls
             /\ drift' \in DriftSet /\ ops' \in 0..MaxOps /\ faults' \in 0..MaxFaults
             /\ txn' \in [Clients -> TxnSet]
  <2>1. NoTxn \in TxnSet
    BY DEF TxnSet
  <2> QED
    BY <1>1, <2>1 DEF Resume, agentVars, jobVars, budget, AgentTypeOK, JobsTypeOK
<1>2. ASSUME Fault
      PROVE  ops' \in 0..MaxOps /\ faults' \in 0..MaxFaults
  BY <1>2 DEF Fault
<1>3. ASSUME NEW c \in Clients, TunnelOperation(c)
      PROVE  TypeOK'
  <2>1. ASSUME NEW t \in Tunnels, CreateTunnel(c, t) PROVE TypeOK'
    <3>1. Operation(c)
      BY <2>1 DEF CreateTunnel
    <3>2. RowsTypeOK' /\ txn' \in [Clients -> TxnSet]
      BY <2>1 DEF CreateTunnel, RowsTypeOK, ipRows
    <3>3. <<Call("enqueue", t, {})>> \in Seq(CallSet)
      BY CallType, OneCall
    <3>4. calls' \in [Clients -> Seq(CallSet)]
      BY <2>1, <3>3 DEF CreateTunnel
    <3> QED BY <1>0, <3>1, <3>2, <3>4
  <2>2. ASSUME NEW t \in Tunnels, StartDelete(c, t) PROVE TypeOK'
    <3>1. Operation(c) /\ RowsTypeOK' /\ calls' = calls
      BY <2>2 DEF StartDelete, RowsTypeOK, ipRows, tunnelRows
    <3>2. [op |-> "delete", t |-> t] \in TxnSet
      BY DEF TxnSet
    <3>3. txn' \in [Clients -> TxnSet]
      BY <2>2, <3>2 DEF StartDelete
    <3> QED BY <1>0, <3>1, <3>3
  <2>3. ASSUME NEW t \in Tunnels, ExpireTunnel(c, t) PROVE TypeOK'
    <3>1. Operation(c) /\ RowsTypeOK' /\ calls' = calls
      BY <2>3 DEF ExpireTunnel, RowsTypeOK, ipRows, tunnelRows
    <3>2. [op |-> "cancelTunnel", t |-> t] \in TxnSet
      BY DEF TxnSet
    <3>3. txn' \in [Clients -> TxnSet]
      BY <2>3, <3>2 DEF ExpireTunnel
    <3> QED BY <1>0, <3>1, <3>3
  <2>4. ASSUME NEW t \in Tunnels, ChangeTunnelTier(c, t) PROVE TypeOK'
    <3>1. Operation(c) /\ RowsTypeOK' /\ txn' \in [Clients -> TxnSet]
      BY <2>4 DEF ChangeTunnelTier, RowsTypeOK, ipRows
    <3>2. <<Call("update", t, Want(t))>> \in Seq(CallSet)
      BY CallType, OneCall, WantType
    <3>3. calls' \in [Clients -> Seq(CallSet)]
      BY <2>4, <3>2 DEF ChangeTunnelTier
    <3> QED BY <1>0, <3>1, <3>3
  <2>5. ASSUME NEW t \in Tunnels, NEW s \in {"active", "suspended"}, BillTunnel(c, t, s)
        PROVE  TypeOK'
    <3>1. Operation(c) /\ RowsTypeOK' /\ calls' = calls /\ txn' = txn
      BY <2>5 DEF BillTunnel, RowsTypeOK, ipRows, clientVars
    <3> QED BY <1>0, <3>1
  <2> QED BY <1>3, <2>1, <2>2, <2>3, <2>4, <2>5 DEF TunnelOperation
<1>4. ASSUME NEW c \in Clients, IpOperation(c)
      PROVE  TypeOK'
  <2>1. ASSUME NEW i \in Ips, ReleasePublicIp(c, i) PROVE TypeOK'
    <3>1. Operation(c) /\ RowsTypeOK' /\ calls' = calls /\ txn' = txn
      BY <2>1 DEF ReleasePublicIp, RowsTypeOK, tunnelRows, clientVars
    <3> QED BY <1>0, <3>1
  <2>2. ASSUME NEW i \in Ips, ExpireIp(c, i) PROVE TypeOK'
    <3>1. Operation(c) /\ RowsTypeOK' /\ calls' = calls
      BY <2>2 DEF ExpireIp, RowsTypeOK, ipRows, tunnelRows
    <3>2. [op |-> "cancelIp", ip |-> i] \in TxnSet
      BY DEF TxnSet
    <3>3. txn' \in [Clients -> TxnSet]
      BY <2>2, <3>2 DEF ExpireIp
    <3> QED BY <1>0, <3>1, <3>3
  <2>3. ASSUME NEW i \in Ips, NEW u \in Users, StartBuy(c, u, i) PROVE TypeOK'
    <3>1. Operation(c) /\ RowsTypeOK' /\ calls' = calls
      BY <2>3 DEF StartBuy, RowsTypeOK, ipRows, tunnelRows
    <3>2. [op |-> "buy", ip |-> i, user |-> u] \in TxnSet
      BY DEF TxnSet
    <3>3. txn' \in [Clients -> TxnSet]
      BY <2>3, <3>2 DEF StartBuy
    <3> QED BY <1>0, <3>1, <3>3
  <2>4. ASSUME NEW i \in Ips, NEW s \in {"allocated", "suspended"}, BillPublicIp(c, i, s)
        PROVE  TypeOK'
    <3>1. Operation(c) /\ RowsTypeOK' /\ calls' = calls /\ txn' = txn
      BY <2>4 DEF BillPublicIp, RowsTypeOK, tunnelRows, clientVars
    <3> QED BY <1>0, <3>1
  <2>5. ASSUME NEW i \in Ips, NEW t \in Tunnels \union {NoTunnel}, StartMove(c, i, t)
        PROVE  TypeOK'
    <3>1. Operation(c) /\ RowsTypeOK' /\ calls' = calls
      BY <2>5 DEF StartMove, RowsTypeOK, ipRows, tunnelRows
    <3>2. ptunnel[i] \in Tunnels \union {NoTunnel}
      BY DEF RowsTypeOK
    <3>3. [op |-> "move", ip |-> i, from |-> ptunnel[i], to |-> t] \in TxnSet
      BY <3>2 DEF TxnSet
    <3>4. txn' \in [Clients -> TxnSet]
      BY <2>5, <3>3 DEF StartMove
    <3> QED BY <1>0, <3>1, <3>4
  <2> QED BY <1>4, <2>1, <2>2, <2>3, <2>4, <2>5 DEF IpOperation
<1>5. ASSUME NEW c \in Clients, Commit(c)
      PROVE  TypeOK'
  <2>1. CASE DeleteTunnel(c)
    <3>1. txn[c].t \in Tunnels
      BY <2>1, TxnType DEF DeleteTunnel, Resume
    <3>2. RowsTypeOK' /\ Resume(c, "delete")
      BY <2>1, <3>1 DEF DeleteTunnel, RowsTypeOK, ipRows
    <3>3. <<Call("delete", txn[c].t, {})>> \in Seq(CallSet)
      BY <3>1, CallType, OneCall
    <3>4. calls' \in [Clients -> Seq(CallSet)]
      BY <2>1, <3>3 DEF DeleteTunnel
    <3> QED BY <1>1, <3>2, <3>4
  <2>2. CASE ForceCancelTunnel(c)
    <3>1. txn[c].t \in Tunnels
      BY <2>2, TxnType DEF ForceCancelTunnel, Resume
    <3>2. RowsTypeOK' /\ Resume(c, "cancelTunnel")
      BY <2>2, <3>1 DEF ForceCancelTunnel, RowsTypeOK, tunnelRows
    <3>3. <<Call("delete", txn[c].t, {})>> \in Seq(CallSet)
      BY <3>1, CallType, OneCall
    <3>4. calls' \in [Clients -> Seq(CallSet)]
      BY <2>2, <3>3 DEF ForceCancelTunnel
    <3> QED BY <1>1, <3>2, <3>4
  <2>3. CASE BuyPublicIp(c)
    <3>1. txn[c].ip \in Ips /\ txn[c].user \in Users
      BY <2>3, TxnType DEF BuyPublicIp, Resume
    <3>2. RowsTypeOK' /\ Resume(c, "buy") /\ calls' = calls
      BY <2>3, <3>1 DEF BuyPublicIp, RowsTypeOK, tunnelRows
    <3> QED BY <1>1, <3>2
  <2>4. CASE ForceCancelPublicIp(c)
    <3>1. txn[c].ip \in Ips
      BY <2>4, TxnType DEF ForceCancelPublicIp, Resume
    <3>2. RowsTypeOK' /\ Resume(c, "cancelIp")
      BY <2>4, <3>1 DEF ForceCancelPublicIp, RowsTypeOK, tunnelRows
    <3>3. ptunnel[txn[c].ip] # NoTunnel => ptunnel[txn[c].ip] \in Tunnels
      BY <3>1 DEF RowsTypeOK
    <3>4. ptunnel[txn[c].ip] # NoTunnel
             => <<Call("refresh", ptunnel[txn[c].ip], {})>> \in Seq(CallSet)
      BY <3>3, CallType, OneCall
    <3>5. calls' \in [Clients -> Seq(CallSet)]
      BY <2>4, <3>4 DEF ForceCancelPublicIp
    <3> QED BY <1>1, <3>2, <3>5
  <2>5. CASE MoveIp(c)
    <3> DEFINE m == txn[c]
    <3> DEFINE W(t) == IF t = m.to THEN Want(t) \union {m.ip} ELSE Want(t) \ {m.ip}
    <3> DEFINE Sync(t) == IF t \in Tunnels \ gone THEN <<Call("update", t, W(t))>> ELSE <<>>
    <3>1. m.ip \in Ips /\ m.to \in Tunnels \union {NoTunnel}
      BY <2>5, TxnType DEF MoveIp, Resume
    <3>2. RowsTypeOK' /\ Resume(c, "move")
      BY <2>5, <3>1 DEF MoveIp, RowsTypeOK, tunnelRows
    <3>3. \A t : W(t) \in SUBSET Ips
      BY <3>1, WantType
    <3>4. ASSUME NEW t PROVE Sync(t) \in Seq(CallSet)
      <4>1. t \in Tunnels => <<Call("update", t, W(t))>> \in Seq(CallSet)
        BY <3>3, CallType, OneCall
      <4> QED BY <4>1
    <3> HIDE DEF Sync
    <3>5. Sync(m.from) \o Sync(m.to) \in Seq(CallSet)
      BY <3>4, ConcatProperties
    <3>6. calls' = [calls EXCEPT ![c] = IF m.from = m.to THEN <<>> ELSE Sync(m.from) \o Sync(m.to)]
      BY <2>5 DEF MoveIp, Sync
    <3>7. calls' \in [Clients -> Seq(CallSet)]
      BY <3>5, <3>6
    <3> QED BY <1>1, <3>2, <3>7
  <2> QED BY <1>5, <2>1, <2>2, <2>3, <2>4, <2>5 DEF Commit
<1>6. ASSUME NEW c \in Clients, Rollback(c)
      PROVE  TypeOK'
  <2>1. NoTxn \in TxnSet
    BY DEF TxnSet
  <2>2. txn' \in [Clients -> TxnSet]
    BY <1>6, <2>1 DEF Rollback
  <2>3. RowsTypeOK' /\ AgentTypeOK' /\ JobsTypeOK' /\ Fault /\ calls' = calls /\ late' = late /\ drift' = drift
    BY <1>6 DEF Rollback, RowsTypeOK, AgentTypeOK, JobsTypeOK, agentVars, tunnelRows, ipRows, jobVars
  <2> QED BY <1>2, <2>2, <2>3
<1>7. ASSUME NEW c \in Clients, AfterCommit(c)
      PROVE  TypeOK'
  <2>1. calls[c] # <<>> => /\ Head(calls[c]) \in CallSet
                           /\ Tail(calls[c]) \in Seq(CallSet)
    BY HeadTailProperties
  <2>2. calls[c] # <<>> => Head(calls[c]).t \in Tunnels
    BY <2>1 DEF CallSet
  <2>3. CASE AgentCall(c)
    <3>1. AgentTypeOK'
      BY <2>3, <2>1, ApplyType DEF AgentCall, AgentCalls
    <3>2. calls' \in [Clients -> Seq(CallSet)]
      BY <2>3, <2>1 DEF AgentCall
    <3>3. RowsTypeOK' /\ JobsTypeOK' /\ txn' = txn /\ late' = late /\ drift' = drift
          /\ ops' = ops /\ faults' = faults
      BY <2>3 DEF AgentCall, RowsTypeOK, JobsTypeOK, tunnelRows, ipRows, jobVars, budget
    <3> QED BY <3>1, <3>2, <3>3
  <2>4. CASE Refresh(c)
    <3>1. <<Call("update", Head(calls[c]).t, Want(Head(calls[c]).t))>> \in Seq(CallSet)
      BY <2>4, <2>2, CallType, OneCall, WantType DEF Refresh
    <3>2. calls' \in [Clients -> Seq(CallSet)]
      BY <2>4, <3>1 DEF Refresh
    <3>3. RowsTypeOK' /\ JobsTypeOK' /\ AgentTypeOK' /\ txn' = txn /\ late' = late /\ drift' = drift
          /\ ops' = ops /\ faults' = faults
      BY <2>4 DEF Refresh, RowsTypeOK, JobsTypeOK, AgentTypeOK,
                  tunnelRows, ipRows, jobVars, agentVars, budget
    <3> QED BY <3>2, <3>3
  <2>5. CASE Enqueue(c)
    <3>1. calls' \in [Clients -> Seq(CallSet)]
      BY <2>5, <2>1 DEF Enqueue
    <3>2. JobsTypeOK'
      BY <2>5, <2>2 DEF Enqueue, JobsTypeOK
    <3>3. RowsTypeOK' /\ AgentTypeOK' /\ txn' = txn /\ late' = late /\ drift' = drift
          /\ ops' = ops /\ faults' = faults
      BY <2>5 DEF Enqueue, RowsTypeOK, AgentTypeOK, tunnelRows, ipRows, agentVars, budget
    <3> QED BY <3>1, <3>2, <3>3
  <2> QED BY <1>7, <2>3, <2>4, <2>5 DEF AfterCommit
<1>8. ASSUME NEW c \in Clients, NEW reaches \in BOOLEAN, ClientFails(c, reaches)
      PROVE  TypeOK'
  <2>1. Head(calls[c]) \in CallSet
    BY <1>8, HeadTailProperties DEF ClientFails
  <2>2. calls' \in [Clients -> Seq(CallSet)] /\ late' \subseteq AgentCalls
    BY <1>8, <2>1 DEF ClientFails, AgentCalls
  <2>3. RowsTypeOK' /\ AgentTypeOK' /\ JobsTypeOK' /\ Fault /\ txn' = txn /\ drift' = drift
    BY <1>8 DEF ClientFails, RowsTypeOK, AgentTypeOK, JobsTypeOK, agentVars, tunnelRows, ipRows, jobVars
  <2> QED BY <1>2, <2>2, <2>3
<1>8b. ASSUME NEW c \in Clients, CallBreaks(c)
      PROVE  TypeOK'
  <2>1. Head(calls[c]) \in AgentCalls
    BY <1>8b, HeadTailProperties DEF CallBreaks, Breaks, AgentCalls
  <2>2. calls' \in [Clients -> Seq(CallSet)] /\ AgentTypeOK'
    BY <1>8b, <2>1, BreaksType DEF CallBreaks
  <2>3. RowsTypeOK' /\ JobsTypeOK' /\ Fault /\ txn' = txn /\ late' = late /\ drift' = drift
    BY <1>8b DEF CallBreaks, RowsTypeOK, JobsTypeOK, tunnelRows, ipRows, jobVars
  <2> QED BY <1>2, <2>2, <2>3
<1>8c. ASSUME NEW x \in late, LateCallBreaks(x)
       PROVE  TypeOK'
  <2>1. AgentTypeOK'
    BY <1>8c, BreaksType DEF LateCallBreaks
  <2>2. RowsTypeOK' /\ JobsTypeOK' /\ Fault /\ txn' = txn /\ calls' = calls
        /\ late' \subseteq AgentCalls /\ drift' = drift
    BY <1>8c DEF LateCallBreaks, RowsTypeOK, JobsTypeOK, tunnelRows, ipRows, jobVars, clientVars
  <2> QED BY <1>2, <2>1, <2>2
<1>9. ASSUME NEW x \in late, LateCall(x)
      PROVE  TypeOK'
  <2>1. x \in AgentCalls
    BY <1>9
  <2>2. AgentTypeOK'
    BY <1>9, <2>1, ApplyType DEF LateCall
  <2>3. RowsTypeOK' /\ JobsTypeOK' /\ txn' = txn /\ calls' = calls /\ late' \subseteq AgentCalls
        /\ drift' = drift /\ ops' = ops /\ faults' = faults
    BY <1>9 DEF LateCall, RowsTypeOK, JobsTypeOK, tunnelRows, ipRows, jobVars, clientVars, budget
  <2> QED BY <2>2, <2>3
<1>10. ASSUME NEW t \in Tunnels, Job(t)
       PROVE  TypeOK'
  <2>1. CASE LoadJob(t)
    <3>1. JobsTypeOK'
      <4>1. CASE tstatus[t] = "active"
        <5>1. attempts' = [attempts EXCEPT ![t] = 0] /\ worker' = worker /\ worker[t] = "idle"
          BY <2>1, <4>1 DEF LoadJob
        <5> QED BY <5>1 DEF JobsTypeOK
      <4>2. CASE tstatus[t] # "active"
        <5>1. worker' = [worker EXCEPT ![t] = "calling"] /\ attempts' = attempts /\ attempts[t] > 0
          BY <2>1, <4>2 DEF LoadJob
        <5> QED BY <5>1 DEF JobsTypeOK
      <4> QED BY <4>1, <4>2
    <3>2. RowsTypeOK' /\ AgentTypeOK' /\ txn' = txn /\ calls' = calls /\ late' = late
          /\ drift' = drift /\ ops' = ops /\ faults' = faults
      BY <2>1 DEF LoadJob, RowsTypeOK, AgentTypeOK, agentVars, tunnelRows, ipRows, clientVars, budget
    <3> QED BY <3>1, <3>2
  <2>2. CASE CallAgent(t)
    <3>1. JobsTypeOK'
      BY <2>2 DEF CallAgent, JobsTypeOK
    <3>2. AgentTypeOK'
      <4>1. Call("provision", t, {}) \in AgentCalls
        BY CallType DEF AgentCalls, Call
      <4>2. Apply(Call("provision", t, {}))
        BY <2>2 DEF CallAgent, Apply, Call
      <4> QED BY <4>1, <4>2, ApplyType DEF Call
    <3>3. RowsTypeOK' /\ txn' = txn /\ calls' = calls /\ late' = late
          /\ drift' = drift /\ ops' = ops /\ faults' = faults
      BY <2>2 DEF CallAgent, RowsTypeOK, tunnelRows, ipRows, clientVars, budget
    <3> QED BY <3>1, <3>2, <3>3
  <2>3. CASE SaveActive(t)
    <3>1. JobsTypeOK'
      BY <2>3 DEF SaveActive, JobsTypeOK
    <3>2. RowsTypeOK'
      BY <2>3 DEF SaveActive, RowsTypeOK, ipRows
    <3>3. AgentTypeOK' /\ txn' = txn /\ calls' = calls /\ late' = late
          /\ drift' = drift /\ ops' = ops /\ faults' = faults
      BY <2>3 DEF SaveActive, AgentTypeOK, agentVars, clientVars, budget
    <3> QED BY <3>1, <3>2, <3>3
  <2> QED BY <1>10, <2>1, <2>2, <2>3 DEF Job
<1>11. ASSUME NEW t \in Tunnels, NEW reaches \in BOOLEAN, JobFails(t, reaches)
       PROVE  TypeOK'
  <2>1. JobsTypeOK'
    BY <1>11 DEF JobFails, JobsTypeOK
  <2>2. Call("provision", t, {}) \in AgentCalls
    BY CallType DEF AgentCalls, Call
  <2>3. RowsTypeOK' /\ AgentTypeOK' /\ Fault /\ txn' = txn /\ calls' = calls
        /\ late' \subseteq AgentCalls /\ drift' = drift
    BY <1>11, <2>2 DEF JobFails, RowsTypeOK, AgentTypeOK, agentVars, tunnelRows, ipRows, clientVars
  <2> QED BY <1>2, <2>1, <2>3
<1>12. ASSUME NEW t \in Tunnels, ForgetProvisionKey(t)
       PROVE  TypeOK'
  BY <1>12 DEF ForgetProvisionKey, ForgetKey, AgentTypeOK, RowsTypeOK, JobsTypeOK,
               tunnelRows, ipRows, clientVars, jobVars, budget
<1>13. CASE GatewayFails
  <2>1. AgentTypeOK'
    BY <1>13, RecordType DEF GatewayFails, AgentRestart, GatewayReboot, AgentTypeOK
  <2>2. RowsTypeOK' /\ JobsTypeOK' /\ Fault /\ txn' = txn /\ calls' = calls
        /\ late' = late /\ drift' = drift
    BY <1>13 DEF GatewayFails, RowsTypeOK, JobsTypeOK, tunnelRows, ipRows, clientVars, jobVars
  <2> QED BY <1>2, <2>1, <2>2
<1>14. ASSUME NEW t \in Tunnels, Todo(t)
       PROVE  Done(t) \in DriftSet /\ Push(t) \subseteq AgentCalls
  BY <1>14, PushType
<1>15. ASSUME NEW t \in Tunnels, NEW reaches \in BOOLEAN, DriftFails(t, reaches)
       PROVE  TypeOK'
  <2>1. drift' \in DriftSet /\ late' \subseteq AgentCalls
    BY <1>14, <1>15 DEF DriftFails
  <2>2. RowsTypeOK' /\ AgentTypeOK' /\ JobsTypeOK' /\ Fault /\ txn' = txn /\ calls' = calls
    BY <1>15 DEF DriftFails, RowsTypeOK, AgentTypeOK, JobsTypeOK,
                 agentVars, tunnelRows, ipRows, clientVars, jobVars
  <2> QED BY <1>2, <2>1, <2>2
<1>15b. ASSUME NEW t \in Tunnels, DriftBreaks(t)
       PROVE  TypeOK'
  <2>1. drift' \in DriftSet /\ Push(t) \subseteq AgentCalls
    BY <1>14, <1>15b DEF DriftBreaks
  <2>2. AgentTypeOK'
    BY <1>15b, <2>1, BreaksType DEF DriftBreaks
  <2>3. RowsTypeOK' /\ JobsTypeOK' /\ Fault /\ txn' = txn /\ calls' = calls /\ late' = late
    BY <1>15b DEF DriftBreaks, RowsTypeOK, JobsTypeOK, tunnelRows, ipRows, clientVars, jobVars
  <2> QED BY <1>2, <2>1, <2>2, <2>3
<1>16. CASE Drift
  <2>0. RowsTypeOK' /\ JobsTypeOK' /\ txn' = txn /\ calls' = calls /\ late' = late
        /\ ops' = ops /\ faults' = faults
    BY <1>16 DEF Drift, DriftList, DriftRead, DriftPushed, DriftEnd, DriftSkip, DriftCall,
                 RowsTypeOK, JobsTypeOK, tunnelRows, ipRows, clientVars, jobVars, budget
  <2>1. CASE DriftList
    <3>1. drift' \in [phase : {"listed"}, kernel : SUBSET Tunnels, have : [Tunnels -> Records]]
      BY <2>1 DEF DriftList, AgentTypeOK
    <3>2. AgentTypeOK'
      BY <2>1 DEF DriftList, AgentTypeOK, agentVars
    <3> QED BY <2>0, <3>1, <3>2 DEF DriftSet
  <2>2. CASE DriftRead
    <3>1. drift \in [phase : {"listed"}, kernel : SUBSET Tunnels, have : [Tunnels -> Records]]
      BY <2>2 DEF DriftRead, DriftSet, NoDrift
    <3>2. [t \in Tunnels |-> Want(t)] \in [Tunnels -> SUBSET Ips]
      BY WantType
    <3>3. drift' \in [phase : {"pushing"}, kernel : SUBSET Tunnels, have : [Tunnels -> Records],
                      live : SUBSET Tunnels, want : [Tunnels -> SUBSET Ips], todo : SUBSET Tunnels]
      BY <2>2, <3>1, <3>2 DEF DriftRead
    <3>4. AgentTypeOK'
      BY <2>2 DEF DriftRead, AgentTypeOK, agentVars
    <3> QED BY <2>0, <3>3, <3>4 DEF DriftSet
  <2>3. CASE DriftPushed
    <3>1. drift \in [phase : {"pushing"}, kernel : SUBSET Tunnels, have : [Tunnels -> Records],
                     live : SUBSET Tunnels, want : [Tunnels -> SUBSET Ips], todo : SUBSET Tunnels]
      BY <2>3 DEF DriftPushed, DriftSet, NoDrift
    <3>2. drift' \in [phase : {"orphans"}, todo : SUBSET Tunnels]
      BY <2>3, <3>1 DEF DriftPushed
    <3>3. AgentTypeOK'
      BY <2>3 DEF DriftPushed, AgentTypeOK, agentVars
    <3> QED BY <2>0, <3>2, <3>3 DEF DriftSet
  <2>4. CASE DriftEnd
    <3>1. drift' \in DriftSet
      BY <2>4 DEF DriftEnd, DriftSet
    <3>2. AgentTypeOK'
      BY <2>4 DEF DriftEnd, AgentTypeOK, agentVars
    <3> QED BY <2>0, <3>1, <3>2
  <2>5. ASSUME NEW t \in Tunnels, DriftSkip(t) PROVE TypeOK'
    <3>1. drift' \in DriftSet
      BY <1>14, <2>5 DEF DriftSkip
    <3>2. AgentTypeOK'
      BY <2>5 DEF DriftSkip, AgentTypeOK, agentVars
    <3> QED BY <2>0, <3>1, <3>2
  <2>6. ASSUME NEW t \in Tunnels, DriftCall(t) PROVE TypeOK'
    <3>1. drift' \in DriftSet /\ Push(t) \subseteq AgentCalls
      BY <1>14, <2>6 DEF DriftCall
    <3>2. PICK x \in Push(t) : Apply(x)
      BY <2>6 DEF DriftCall
    <3>3. AgentTypeOK'
      BY <3>1, <3>2, ApplyType
    <3> QED BY <2>0, <3>1, <3>3
  <2> QED BY <1>16, <2>1, <2>2, <2>3, <2>4, <2>5, <2>6 DEF Drift
<1> QED
  BY <1>3, <1>4, <1>5, <1>6, <1>7, <1>8, <1>9, <1>10, <1>11, <1>12, <1>13, <1>15, <1>16,
     <1>8b, <1>8c, <1>15b DEF Next

(* A step that changes nothing keeps the types. *)
LEMMA TypeStutter == TypeOK /\ UNCHANGED vars => TypeOK'
BY DEF TypeOK, vars, AgentTypeOK, RowsTypeOK, JobsTypeOK, agentVars, tunnelRows, ipRows,
       clientVars, jobVars, budget

(* Type correctness: rows, calls, jobs and the drift run keep their shapes,  *)
(* and a job a worker has in hand still has an attempt to lose.              *)
THEOREM TypeCorrect == Spec => []TypeOK
<1>1. TypeOK /\ [Next]_vars => TypeOK'
  BY TypeStep, TypeStutter
<1> QED BY TypeInit, <1>1, PTL DEF Spec

------------------------------------------------------------------------------
(* What the kernel lets a peer receive *)

(* Every step leaves the agent alone, has it carry out one call or part of   *)
(* it, drops a cached answer, or is a restart.                               *)
LEMMA AgentSteps ==
  ASSUME TypeOK, [Next]_vars
  PROVE  \/ \E x \in AgentCalls : Apply(x) \/ Breaks(x)
         \/ \E t \in Tunnels : ForgetKey(t)
         \/ AgentRestart \/ GatewayReboot
         \/ UNCHANGED agentVars
<1> USE DEF TypeOK
<1>1. ASSUME NEW c \in Clients, TunnelOperation(c) \/ IpOperation(c)
      PROVE  UNCHANGED agentVars
  BY <1>1 DEF TunnelOperation, IpOperation, Operation, CreateTunnel, StartDelete, ExpireTunnel,
              ChangeTunnelTier, BillTunnel, ReleasePublicIp, ExpireIp, StartBuy, BillPublicIp, StartMove
<1>2. ASSUME NEW c \in Clients, Commit(c)
      PROVE  UNCHANGED agentVars
  BY <1>2 DEF Commit, Resume, DeleteTunnel, ForceCancelTunnel, BuyPublicIp, ForceCancelPublicIp, MoveIp
<1>3. ASSUME NEW c \in Clients, NEW reaches \in BOOLEAN, Rollback(c) \/ ClientFails(c, reaches)
      PROVE  UNCHANGED agentVars
  BY <1>3 DEF Rollback, ClientFails
<1>4. ASSUME NEW c \in Clients, AfterCommit(c)
      PROVE  UNCHANGED agentVars \/ \E x \in AgentCalls : Apply(x)
  <2>1. CASE AgentCall(c)
    <3>1. Head(calls[c]) \in CallSet
      BY <2>1, HeadTailProperties DEF AgentCall
    <3> QED BY <2>1, <3>1 DEF AgentCall, AgentCalls
  <2>2. CASE Refresh(c) \/ Enqueue(c)
    BY <2>2 DEF Refresh, Enqueue
  <2> QED BY <1>4, <2>1, <2>2 DEF AfterCommit
<1>5. ASSUME NEW t \in Tunnels, Job(t)
      PROVE  UNCHANGED agentVars \/ \E x \in AgentCalls : Apply(x)
  <2>1. CASE CallAgent(t)
    <3>1. Call("provision", t, {}) \in AgentCalls
      BY CallType DEF AgentCalls, Call
    <3>2. Apply(Call("provision", t, {}))
      BY <2>1 DEF CallAgent, Apply, Call
    <3> QED BY <3>1, <3>2
  <2>2. CASE LoadJob(t) \/ SaveActive(t)
    BY <2>2 DEF LoadJob, SaveActive
  <2> QED BY <1>5, <2>1, <2>2 DEF Job
<1>6. ASSUME NEW t \in Tunnels, NEW reaches \in BOOLEAN, JobFails(t, reaches) \/ DriftFails(t, reaches)
      PROVE  UNCHANGED agentVars
  BY <1>6 DEF JobFails, DriftFails
<1>7. CASE Drift
  <2>1. ASSUME NEW t \in Tunnels, DriftCall(t)
        PROVE  \E x \in AgentCalls : Apply(x)
    BY <2>1, PushType DEF DriftCall
  <2> QED
    BY <1>7, <2>1 DEF Drift, DriftList, DriftRead, DriftPushed, DriftEnd, DriftSkip
<1>8. ASSUME NEW x \in late, LateCall(x) \/ LateCallBreaks(x)
      PROVE  \E y \in AgentCalls : Apply(y) \/ Breaks(y)
  BY <1>8 DEF LateCall, LateCallBreaks
<1>10. ASSUME NEW c \in Clients, CallBreaks(c)
       PROVE  \E x \in AgentCalls : Breaks(x)
  <2>1. Head(calls[c]) \in AgentCalls
    BY <1>10, HeadTailProperties DEF CallBreaks, Breaks, AgentCalls
  <2> QED BY <1>10, <2>1 DEF CallBreaks
<1>11. ASSUME NEW t \in Tunnels, DriftBreaks(t)
       PROVE  \E x \in AgentCalls : Breaks(x)
  BY <1>11, PushType DEF DriftBreaks
<1>9. CASE UNCHANGED vars
  BY <1>9 DEF vars
<1> QED
  BY <1>1, <1>2, <1>3, <1>4, <1>5, <1>6, <1>7, <1>8, <1>9, <1>10, <1>11
  DEF Next, GatewayFails, ForgetProvisionKey

(* Setting the device takes addresses from other peers only; if the peer's   *)
(* record then has them, or the call is known to have failed, the record is  *)
(* no narrower than the device.                                              *)
LEMMA SetPeerKeeps ==
  ASSUME AgentTypeOK, AllowedWithinRecord, NEW t \in Tunnels, NEW ips \in SUBSET Ips,
         ConfigurePeer(t, ips), \A u \in Tunnels \ {t} : meta'[u] = meta[u] /\ (u \in torn' <=> u \in torn),
         t \in torn' \/ meta'[t] = ips
  PROVE  AllowedWithinRecord'
<1> SUFFICES ASSUME NEW i \in Ips, allowed'[i] # NoTunnel
             PROVE  /\ allowed'[i] \in peers'
                    /\ meta'[allowed'[i]] \notin {NoMeta, Stub} /\ allowed'[i] \notin torn'
                         => i \in meta'[allowed'[i]]
  BY DEF AllowedWithinRecord
<1>1. CASE i \in ips
  <2>1. allowed'[i] = t /\ t \in peers'
    BY <1>1 DEF ConfigurePeer, ReplaceAllowed, AgentTypeOK
  <2> QED BY <1>1, <2>1
<1>2. CASE i \notin ips
  <2>1. allowed'[i] = allowed[i] /\ allowed[i] # t /\ allowed[i] \in Tunnels
    BY <1>2 DEF ConfigurePeer, ReplaceAllowed, AgentTypeOK
  <2>2. peers \subseteq peers'
    BY DEF ConfigurePeer
  <2> QED BY <2>1, <2>2 DEF AllowedWithinRecord
<1> QED BY <1>1, <1>2

(* A call that ends, through or among its routes, touches no other record. *)
LEMMA EndFrame ==
  ASSUME AgentTypeOK, NEW t \in Tunnels, NEW r, StoreMeta(t, r) \/ StopAmongRoutes(t, r)
  PROVE  /\ \A u \in Tunnels \ {t} : meta'[u] = meta[u] /\ (u \in torn' <=> u \in torn)
         /\ meta'[t] = r
         /\ StopAmongRoutes(t, r) => t \in torn'
BY DEF AgentTypeOK, StoreMeta, StopAmongRoutes

(* Every call the agent serves keeps the property. *)
LEMMA ApplyKeeps ==
  ASSUME AgentTypeOK, AllowedWithinRecord, NEW x \in AgentCalls, Apply(x)
  PROVE  AllowedWithinRecord'
<1> x.t \in Tunnels /\ x.ips \in SUBSET Ips
  BY DEF AgentCalls, CallSet
<1>0. CASE UNCHANGED agentVars
  BY <1>0 DEF agentVars, AllowedWithinRecord
<1>1. CASE x.op = "create"
  BY <1>0, <1>1, SetPeerKeeps, EndFrame DEF Apply, CreatePeer
<1>2. CASE x.op = "update"
  BY <1>2, SetPeerKeeps, EndFrame DEF Apply, UpdatePeer
<1>3. CASE x.op = "provision"
  <2>1. CASE ConfigurePeer(x.t, {}) /\ StoreMeta(x.t, {})
    BY <2>1, SetPeerKeeps, EndFrame
  <2>2. CASE UNCHANGED <<peers, meta, allowed, routes, torn>>
    BY <2>2 DEF AllowedWithinRecord
  <2> QED BY <1>0, <1>3, <2>1, <2>2 DEF Apply, ProvisionPeer
<1>4. CASE x.op = "delete"
  <2>1. DeletePeer(x.t)
    BY <1>4 DEF Apply
  <2> SUFFICES ASSUME NEW i \in Ips, allowed'[i] # NoTunnel
               PROVE  /\ allowed'[i] \in peers'
                      /\ meta'[allowed'[i]] \notin {NoMeta, Stub} /\ allowed'[i] \notin torn'
                           => i \in meta'[allowed'[i]]
    BY DEF AllowedWithinRecord
  <2>2. allowed'[i] = allowed[i] /\ allowed[i] # x.t /\ allowed[i] \in Tunnels
    BY <2>1 DEF DeletePeer, ReplaceAllowed, AgentTypeOK
  <2>3. /\ meta'[allowed[i]] = meta[allowed[i]] /\ peers' = peers \ {x.t}
        /\ allowed[i] \in torn' <=> allowed[i] \in torn
    BY <2>1, <2>2, EndFrame DEF DeletePeer
  <2> QED BY <2>2, <2>3 DEF AllowedWithinRecord
<1> QED BY <1>1, <1>2, <1>3, <1>4 DEF AgentCalls

(* So does every call that ends half-way. *)
LEMMA BreaksKeeps ==
  ASSUME AgentTypeOK, AllowedWithinRecord, NEW x \in AgentCalls, Breaks(x)
  PROVE  AllowedWithinRecord'
<1> x.t \in Tunnels /\ x.ips \in SUBSET Ips
  BY DEF AgentCalls, CallSet
<1> DEFINE record == IF meta[x.t] = NoMeta THEN Stub ELSE meta[x.t]
<1>1. CASE ConfigurePeer(x.t, x.ips) /\ \E r : StopAmongRoutes(x.t, r)
  BY <1>1, SetPeerKeeps, EndFrame
<1>2. CASE /\ meta[x.t] = NoMeta
           /\ meta' = [meta EXCEPT ![x.t] = record]
           /\ UNCHANGED <<peers, allowed, routes, torn>>
  BY <1>2 DEF AllowedWithinRecord, AgentTypeOK
<1> QED BY <1>1, <1>2 DEF Breaks, CreateFails, UpdateFails

(* Whatever operations, retries, failing and late calls, drift runs and      *)
(* restarts reach the agent, in any order: a peer with a record whose last   *)
(* call did not end half-way has no allowed IP outside its record.           *)
THEOREM AllowedTheorem == Spec => []AllowedWithinRecord
<1>1. Init => AllowedWithinRecord
  BY DEF Init, AgentInit, AllowedWithinRecord
<1>2. TypeOK /\ AllowedWithinRecord /\ [Next]_vars => AllowedWithinRecord'
  <2> SUFFICES ASSUME TypeOK, AllowedWithinRecord, [Next]_vars
               PROVE  AllowedWithinRecord'
    OBVIOUS
  <2>0. AgentTypeOK
    BY DEF TypeOK
  <2>1. ASSUME NEW x \in AgentCalls, Apply(x) \/ Breaks(x) PROVE AllowedWithinRecord'
    BY <2>0, <2>1, ApplyKeeps, BreaksKeeps
  <2>2. ASSUME NEW t \in Tunnels, ForgetKey(t) PROVE AllowedWithinRecord'
    BY <2>2 DEF ForgetKey, AllowedWithinRecord
  <2>3. CASE AgentRestart
    BY <2>0, <2>3 DEF AgentRestart, AllowedWithinRecord, AgentTypeOK
  <2>4. CASE GatewayReboot
    BY <2>4 DEF GatewayReboot, AllowedWithinRecord
  <2>5. CASE UNCHANGED agentVars
    BY <2>5 DEF agentVars, AllowedWithinRecord
  <2> QED BY <2>1, <2>2, <2>3, <2>4, <2>5, AgentSteps
<1> QED BY TypeCorrect, <1>1, <1>2, PTL DEF Spec

------------------------------------------------------------------------------
(* Whose tunnel an address is attached to *)

(* The strengthening: a move that has looked at its target keeps the         *)
(* address's owner from changing, by the lock it holds.                      *)
MoveKeepsOwner ==
  \A c \in Clients :
    txn[c].op = "move" /\ txn[c].to # NoTunnel => puser[txn[c].ip] = Owner[txn[c].to]

AttachInv == AttachedToOwnTunnel /\ MoveKeepsOwner

(* A step that leaves the owners and the assignments of addresses alone and  *)
(* starts no move keeps the invariant.                                       *)
LEMMA AttachFrame ==
  ASSUME AttachInv, puser' = puser, ptunnel' = ptunnel,
         \A c \in Clients : txn'[c].op = "move" => txn'[c] = txn[c]
  PROVE  AttachInv'
BY DEF AttachInv, AttachedToOwnTunnel, MoveKeepsOwner

(* Ending a transaction starts no move. *)
LEMMA ResumeFrame ==
  ASSUME TypeOK, NEW c \in Clients, txn' = [txn EXCEPT ![c] = NoTxn]
  PROVE  \A d \in Clients : txn'[d].op = "move" => d # c /\ txn'[d] = txn[d]
BY DEF TypeOK, NoTxn

(* Nor does an operation of another kind. *)
LEMMA BeginFrame ==
  ASSUME TypeOK, NEW c \in Clients, NEW r, r.op # "move", txn' = [txn EXCEPT ![c] = r]
  PROVE  \A d \in Clients : txn'[d].op = "move" => d # c /\ txn'[d] = txn[d]
BY DEF TypeOK

(* An address nobody is moving may change owner once it is detached. *)
LEMMA DetachKeeps ==
  ASSUME TypeOK, AttachInv, NEW i \in Ips, NEW u, ~Locked(i),
         puser' = [puser EXCEPT ![i] = u], ptunnel' = [ptunnel EXCEPT ![i] = NoTunnel],
         \A c \in Clients : txn'[c].op = "move" => txn'[c] = txn[c]
  PROVE  AttachInv'
<1>1. AttachedToOwnTunnel'
  BY DEF AttachInv, AttachedToOwnTunnel, TypeOK, RowsTypeOK
<1>2. ASSUME NEW c \in Clients, txn'[c].op = "move", txn'[c].to # NoTunnel
      PROVE  puser'[txn'[c].ip] = Owner[txn'[c].to]
  <2>1. txn'[c] = txn[c] /\ txn[c].ip # i
    BY <1>2 DEF Locked
  <2>2. txn[c].ip \in Ips
    BY <1>2, <2>1, TxnType DEF TypeOK
  <2>3. puser'[txn[c].ip] = puser[txn[c].ip]
    BY <2>1, <2>2 DEF TypeOK, RowsTypeOK
  <2> QED BY <1>2, <2>1, <2>3 DEF AttachInv, MoveKeepsOwner
<1> QED BY <1>1, <1>2 DEF AttachInv, MoveKeepsOwner

(* Every step keeps the invariant. *)
LEMMA AttachStep ==
  ASSUME TypeOK, AttachInv, Next
  PROVE  AttachInv'
<1>1. ASSUME NEW c \in Clients, TunnelOperation(c)
      PROVE  AttachInv'
  <2>1. puser' = puser /\ ptunnel' = ptunnel
    BY <1>1 DEF TunnelOperation, CreateTunnel, StartDelete, ExpireTunnel, ChangeTunnelTier, BillTunnel, ipRows
  <2>2. \A d \in Clients : txn'[d].op = "move" => txn'[d] = txn[d]
    <3>1. CASE txn' = txn
      BY <3>1
    <3>2. ASSUME NEW t \in Tunnels, StartDelete(c, t)
          PROVE  \A d \in Clients : txn'[d].op = "move" => txn'[d] = txn[d]
      <4>1. [op |-> "delete", t |-> t].op # "move"
        OBVIOUS
      <4> QED BY <3>2, <4>1, BeginFrame DEF StartDelete
    <3>3. ASSUME NEW t \in Tunnels, ExpireTunnel(c, t)
          PROVE  \A d \in Clients : txn'[d].op = "move" => txn'[d] = txn[d]
      <4>1. [op |-> "cancelTunnel", t |-> t].op # "move"
        OBVIOUS
      <4> QED BY <3>3, <4>1, BeginFrame DEF ExpireTunnel
    <3> QED
      BY <1>1, <3>1, <3>2, <3>3
      DEF TunnelOperation, CreateTunnel, ChangeTunnelTier, BillTunnel, clientVars
  <2> QED BY <2>1, <2>2, AttachFrame
<1>2. ASSUME NEW c \in Clients, IpOperation(c)
      PROVE  AttachInv'
  <2>1. ASSUME NEW i \in Ips, ReleasePublicIp(c, i) PROVE AttachInv'
    <3>1. ptunnel' = [ptunnel EXCEPT ![i] = NoTunnel]
      BY <2>1 DEF ReleasePublicIp, TypeOK, RowsTypeOK
    <3> QED BY <2>1, <3>1, DetachKeeps DEF ReleasePublicIp, clientVars
  <2>2. ASSUME NEW i \in Ips, ExpireIp(c, i) PROVE AttachInv'
    <3>1. [op |-> "cancelIp", ip |-> i].op # "move"
      OBVIOUS
    <3>2. \A d \in Clients : txn'[d].op = "move" => txn'[d] = txn[d]
      BY <2>2, <3>1, BeginFrame DEF ExpireIp
    <3> QED BY <2>2, <3>2, AttachFrame DEF ExpireIp, ipRows
  <2>3. ASSUME NEW i \in Ips, NEW u \in Users, StartBuy(c, u, i) PROVE AttachInv'
    <3>1. [op |-> "buy", ip |-> i, user |-> u].op # "move"
      OBVIOUS
    <3>2. \A d \in Clients : txn'[d].op = "move" => txn'[d] = txn[d]
      BY <2>3, <3>1, BeginFrame DEF StartBuy
    <3> QED BY <2>3, <3>2, AttachFrame DEF StartBuy, ipRows
  <2>4. ASSUME NEW i \in Ips, NEW s \in {"allocated", "suspended"}, BillPublicIp(c, i, s) PROVE AttachInv'
    BY <2>4, AttachFrame DEF BillPublicIp, clientVars
  <2>5. ASSUME NEW i \in Ips, NEW t \in Tunnels \union {NoTunnel}, StartMove(c, i, t) PROVE AttachInv'
    <3>1. puser' = puser /\ ptunnel' = ptunnel
      BY <2>5 DEF StartMove, ipRows
    <3>2. ASSUME NEW d \in Clients, txn'[d].op = "move", txn'[d].to # NoTunnel
          PROVE  puser'[txn'[d].ip] = Owner[txn'[d].to]
      <4>1. CASE d = c
        <5>1. txn'[d].ip = i /\ txn'[d].to = t
          BY <2>5, <4>1 DEF StartMove, TypeOK
        <5> QED BY <2>5, <3>1, <3>2, <5>1 DEF StartMove, Target
      <4>2. CASE d # c
        <5>1. txn'[d] = txn[d]
          BY <2>5, <4>2 DEF StartMove, TypeOK
        <5> QED BY <3>1, <3>2, <5>1 DEF AttachInv, MoveKeepsOwner
      <4> QED BY <4>1, <4>2
    <3> QED BY <3>1, <3>2 DEF AttachInv, AttachedToOwnTunnel, MoveKeepsOwner
  <2> QED BY <1>2, <2>1, <2>2, <2>3, <2>4, <2>5 DEF IpOperation
<1>3. ASSUME NEW c \in Clients, Commit(c)
      PROVE  AttachInv'
  <2>0. \A d \in Clients : txn'[d].op = "move" => d # c /\ txn'[d] = txn[d]
    BY <1>3, ResumeFrame
    DEF Commit, Resume, DeleteTunnel, ForceCancelTunnel, BuyPublicIp, ForceCancelPublicIp, MoveIp
  <2>1. CASE DeleteTunnel(c)
    BY <2>0, <2>1, AttachFrame DEF DeleteTunnel, ipRows
  <2>2. CASE ForceCancelTunnel(c)
    <3>1. puser' = puser /\ \A i \in Ips : ptunnel'[i] = ptunnel[i] \/ ptunnel'[i] = NoTunnel
      BY <2>2 DEF ForceCancelTunnel
    <3> QED BY <2>0, <3>1 DEF AttachInv, AttachedToOwnTunnel, MoveKeepsOwner
  <2>3. CASE BuyPublicIp(c)
    <3>1. txn[c].ip \in Ips
      BY <2>3, TxnType DEF BuyPublicIp, Resume, TypeOK
    <3> QED BY <2>0, <2>3, <3>1, DetachKeeps DEF BuyPublicIp
  <2>4. CASE ForceCancelPublicIp(c)
    <3>1. txn[c].ip \in Ips
      BY <2>4, TxnType DEF ForceCancelPublicIp, Resume, TypeOK
    <3> QED BY <2>0, <2>4, <3>1, DetachKeeps DEF ForceCancelPublicIp
  <2>5. CASE MoveIp(c)
    <3>1. txn[c].ip \in Ips /\ txn[c].op = "move"
      BY <2>5, TxnType DEF MoveIp, Resume, TypeOK
    <3>2. puser' = puser /\ ptunnel' = [ptunnel EXCEPT ![txn[c].ip] = txn[c].to]
      BY <2>5 DEF MoveIp
    <3>3. ASSUME NEW i \in Ips, ptunnel'[i] # NoTunnel
          PROVE  puser'[i] = Owner[ptunnel'[i]]
      <4>1. CASE i = txn[c].ip
        <5>1. ptunnel'[i] = txn[c].to
          BY <3>2, <4>1 DEF TypeOK, RowsTypeOK
        <5> QED BY <3>1, <3>2, <3>3, <4>1, <5>1 DEF AttachInv, MoveKeepsOwner
      <4>2. CASE i # txn[c].ip
        <5>1. ptunnel'[i] = ptunnel[i]
          BY <3>2, <4>2 DEF TypeOK, RowsTypeOK
        <5> QED BY <3>2, <3>3, <5>1 DEF AttachInv, AttachedToOwnTunnel
      <4> QED BY <4>1, <4>2
    <3> QED BY <2>0, <3>2, <3>3 DEF AttachInv, AttachedToOwnTunnel, MoveKeepsOwner
  <2> QED BY <1>3, <2>1, <2>2, <2>3, <2>4, <2>5 DEF Commit
<1>4. ASSUME NEW c \in Clients, Rollback(c)
      PROVE  AttachInv'
  BY <1>4, ResumeFrame, AttachFrame DEF Rollback, ipRows
<1>5. ASSUME NEW c \in Clients, NEW reaches \in BOOLEAN, AfterCommit(c) \/ ClientFails(c, reaches) \/ CallBreaks(c)
      PROVE  AttachInv'
  <2>1. puser' = puser /\ ptunnel' = ptunnel /\ txn' = txn
    BY <1>5 DEF AfterCommit, AgentCall, Refresh, Enqueue, ClientFails, CallBreaks, ipRows
  <2> QED BY <2>1, AttachFrame
<1>6. CASE \/ \E x \in late : LateCall(x) \/ LateCallBreaks(x)
           \/ Drift \/ GatewayFails
           \/ \E t \in Tunnels : Job(t) \/ ForgetProvisionKey(t) \/ DriftBreaks(t)
           \/ \E t \in Tunnels, reaches \in BOOLEAN : JobFails(t, reaches) \/ DriftFails(t, reaches)
  <2>1. puser' = puser /\ ptunnel' = ptunnel /\ txn' = txn
    BY <1>6 DEF LateCall, Drift, DriftList, DriftRead, DriftPushed, DriftEnd, DriftSkip, DriftCall,
                GatewayFails, Job, LoadJob, CallAgent, SaveActive, ForgetProvisionKey, JobFails,
                DriftFails, DriftBreaks, LateCallBreaks, ipRows, clientVars
  <2> QED BY <2>1, AttachFrame
<1> QED BY <1>1, <1>2, <1>3, <1>4, <1>5, <1>6 DEF Next

(* No address is ever attached to a tunnel of a customer who does not own    *)
(* it, although purchases and cancellations act on rows they read before,    *)
(* and moves do not lock their target: the row lock of the move is enough.   *)
THEOREM AttachTheorem == Spec => []AttachedToOwnTunnel
<1>1. Init => AttachInv
  BY DEF Init, AttachInv, AttachedToOwnTunnel, MoveKeepsOwner, NoTxn
<1>2. TypeOK /\ AttachInv /\ [Next]_vars => AttachInv'
  <2>1. AttachInv /\ UNCHANGED vars => AttachInv'
    BY AttachFrame DEF vars, ipRows, clientVars
  <2> QED BY <2>1, AttachStep
<1>3. AttachInv => AttachedToOwnTunnel
  BY DEF AttachInv
<1> QED BY TypeCorrect, <1>1, <1>2, <1>3, PTL DEF Spec

==============================================================================
