----------------------------- MODULE GatewaySync -----------------------------
(***************************************************************************)
(* How the rows of tunnels and public_ips reach the gateway: the           *)
(* operations that change the rows and push the change to the agent after  *)
(* they commit, the provisioning job of a new tunnel, and drift detection, *)
(* which compares the rows with what the agent reports.                    *)
(*                                                                         *)
(* A client is one execution of an operation: an API request or an item of *)
(* a billing tick.  Where an operation acts on rows it has read without    *)
(* locking them, reading and writing are two steps; otherwise its          *)
(* transaction is one.  Its calls to the agent follow one by one, and      *)
(* other clients, the worker and drift act in between.                     *)
(*                                                                         *)
(* One gateway, WireGuard tunnels and single addresses.                    *)
(***************************************************************************)
EXTENDS GatewayAgent, Sequences

CONSTANTS
  Users,         \* customers
  Owner,         \* the customer every tunnel row is created by
  Clients,       \* concurrent executions of operations
  NoUser,        \* user_id IS NULL
  MaxAttempts,   \* `attempts` of the provision-tunnel job
  MaxOps,        \* bound on operations
  MaxFaults      \* bound on failed calls, crashes and restarts

ASSUME SyncAssumptions ==
  /\ Owner \in [Tunnels -> Users]
  /\ NoUser \notin Users
  /\ MaxAttempts \in Nat \ {0}
  /\ MaxOps \in Nat
  /\ MaxFaults \in Nat

VARIABLES
  tstatus,     \* tunnels.status
  gone,        \* tunnels whose deleted_at is set
  puser,       \* public_ips.user_id
  ptunnel,     \* public_ips.tunnel_id
  pstatus,     \* public_ips.status
  deadline,    \* ips whose delete_after is set
  txn,         \* per client: what it has read and will act on, or NoTxn
  calls,       \* per client: what it still does after its commit
  late,        \* calls whose caller has given up waiting for the answer
  attempts,    \* per tunnel: attempts its provisioning job has left
  worker,      \* per tunnel: where the job's processor is
  drift,       \* the drift run: its phase, its two snapshots, what is left
  ops,         \* operations so far
  faults       \* faults so far

tunnelRows == <<tstatus, gone>>
ipRows == <<puser, ptunnel, pstatus, deadline>>
clientVars == <<txn, calls>>
jobVars == <<attempts, worker>>
budget == <<ops, faults>>
vars == <<agentVars, tunnelRows, ipRows, clientVars, late, jobVars, drift, budget>>

NoTxn == [op |-> "none"]
NoDrift == [phase |-> "idle"]

Call(op, t, ips) == [op |-> op, t |-> t, ips |-> ips]
CallSet == [op : {"create", "update", "delete", "provision", "refresh", "enqueue"},
            t : Tunnels, ips : SUBSET Ips]
AgentCalls == {x \in CallSet : x.op \in {"create", "update", "delete", "provision"}}

Live(t) == tstatus[t] = "active" /\ t \notin gone

(* The public IPs the rows give to a tunnel: loadTunnelSync, and the same    *)
(* SELECT in drift.ts, change-tier.ts and billing-scheduler.ts.              *)
Want(t) == {i \in Ips : ptunnel[i] = t /\ pstatus[i] = "allocated"}

(* Mutation: moveIp reads its row without FOR UPDATE. *)
NeverLocked(i) == FALSE

(* moveIp holds the lock of its row; the other readers hold none. *)
Locked(i) == \E c \in Clients : txn[c].op = "move" /\ txn[c].ip = i

------------------------------------------------------------------------------
Init ==
  /\ AgentInit
  /\ tstatus = [t \in Tunnels |-> "none"]
  /\ gone = {}
  /\ puser = [i \in Ips |-> NoUser]
  /\ ptunnel = [i \in Ips |-> NoTunnel]
  /\ pstatus = [i \in Ips |-> "available"]
  /\ deadline = {}
  /\ txn = [c \in Clients |-> NoTxn]
  /\ calls = [c \in Clients |-> <<>>]
  /\ late = {}
  /\ attempts = [t \in Tunnels |-> 0]
  /\ worker = [t \in Tunnels |-> "idle"]
  /\ drift = NoDrift
  /\ ops = 0
  /\ faults = 0

(* A client that is free starts an operation. *)
Operation(c) ==
  /\ txn[c] = NoTxn /\ calls[c] = <<>>
  /\ ops < MaxOps
  /\ ops' = ops + 1
  /\ UNCHANGED <<agentVars, late, jobVars, drift, faults>>

(* A client that has read rows goes on to write them. *)
Resume(c, op) ==
  /\ txn[c].op = op
  /\ txn' = [txn EXCEPT ![c] = NoTxn]
  /\ UNCHANGED <<agentVars, late, jobVars, drift, budget>>

Fault ==
  /\ faults < MaxFaults
  /\ faults' = faults + 1
  /\ UNCHANGED ops

------------------------------------------------------------------------------
(* Operations on tunnels *)

(* createTunnel commits the row; TunnelsService.provision then enqueues. *)
CreateTunnel(c, t) ==
  /\ Operation(c)
  /\ tstatus[t] = "none"
  /\ tstatus' = [tstatus EXCEPT ![t] = "provisioning"]
  /\ calls' = [calls EXCEPT ![c] = <<Call("enqueue", t, {})>>]
  /\ UNCHANGED <<gone, ipRows, txn>>

(* deleteTunnel refuses a tunnel with an allocated IP and locks nothing; its *)
(* UPDATE is by id alone.                                                    *)
StartDelete(c, t) ==
  /\ Operation(c)
  /\ tstatus[t] # "none" /\ t \notin gone
  /\ Want(t) = {}
  /\ txn' = [txn EXCEPT ![c] = [op |-> "delete", t |-> t]]
  /\ UNCHANGED <<tunnelRows, ipRows, calls>>

DeleteTunnel(c) ==
  /\ Resume(c, "delete")
  /\ LET t == txn[c].t IN
     /\ tstatus' = [tstatus EXCEPT ![t] = "deleted"]
     /\ gone' = gone \union {t}
     /\ calls' = [calls EXCEPT ![c] = <<Call("delete", t, {})>>]
  /\ UNCHANGED ipRows

(* Phase 4 of a billing tick has listed the tunnel. *)
ExpireTunnel(c, t) ==
  /\ Operation(c)
  /\ tstatus[t] = "suspended" /\ t \notin gone
  /\ txn' = [txn EXCEPT ![c] = [op |-> "cancelTunnel", t |-> t]]
  /\ UNCHANGED <<tunnelRows, ipRows, calls>>

(* forceCancelTunnel leaves a deleted tunnel alone; it detaches every IP, if *)
(* one of them is allocated.                                                 *)
ForceCancelTunnel(c) ==
  LET t == txn[c].t IN
  /\ Resume(c, "cancelTunnel")
  /\ \/ t \in gone /\ UNCHANGED <<tunnelRows, ptunnel, calls>>
     \/ /\ t \notin gone
        /\ \A i \in Ips : ptunnel[i] = t => ~Locked(i)
        /\ ptunnel' = [i \in Ips |->
                         IF Want(t) # {} /\ ptunnel[i] = t THEN NoTunnel ELSE ptunnel[i]]
        /\ tstatus' = [tstatus EXCEPT ![t] = "deleted"]
        /\ gone' = gone \union {t}
        /\ calls' = [calls EXCEPT ![c] = <<Call("delete", t, {})>>]
  /\ UNCHANGED <<puser, pstatus, deadline>>

(* The scheduler suspends a tunnel or renews a suspended one; neither calls  *)
(* the agent.                                                                *)
BillTunnel(c, t, s) ==
  /\ Operation(c)
  /\ tstatus[t] \in {"active", "suspended"} /\ t \notin gone
  /\ tstatus' = [tstatus EXCEPT ![t] = s]
  /\ UNCHANGED <<gone, ipRows, clientVars>>

(* changeTunnelTier reactivates the tunnel and pushes its IPs. *)
ChangeTunnelTier(c, t) ==
  /\ Operation(c)
  /\ tstatus[t] \notin {"none", "provisioning"} /\ t \notin gone
  /\ tstatus' = [tstatus EXCEPT ![t] = "active"]
  /\ calls' = [calls EXCEPT ![c] = <<Call("update", t, Want(t))>>]
  /\ UNCHANGED <<gone, ipRows, txn>>

------------------------------------------------------------------------------
(* Operations on public IPs *)

(* buyPublicIp and adminGrantIp look at the row without locking it. *)
StartBuy(c, u, i) ==
  /\ Operation(c)
  /\ pstatus[i] # "allocated"
  /\ txn' = [txn EXCEPT ![c] = [op |-> "buy", ip |-> i, user |-> u]]
  /\ UNCHANGED <<tunnelRows, ipRows, calls>>

(* The upsert waits for the row's lock, takes the row whatever it now holds, *)
(* and keeps delete_after.                                                   *)
BuyPublicIp(c) ==
  /\ Resume(c, "buy")
  /\ LET i == txn[c].ip IN
     /\ ~Locked(i)
     /\ puser' = [puser EXCEPT ![i] = txn[c].user]
     /\ ptunnel' = [ptunnel EXCEPT ![i] = NoTunnel]
     /\ pstatus' = [pstatus EXCEPT ![i] = "allocated"]
  /\ UNCHANGED <<tunnelRows, deadline, calls>>

ReleasePublicIp(c, i) ==
  /\ Operation(c)
  /\ pstatus[i] = "allocated" /\ ptunnel[i] = NoTunnel
  /\ ~Locked(i)
  /\ puser' = [puser EXCEPT ![i] = NoUser]
  /\ pstatus' = [pstatus EXCEPT ![i] = "available"]
  /\ UNCHANGED <<tunnelRows, ptunnel, deadline, clientVars>>

(* The scheduler suspends an IP or renews a suspended one.  The row keeps    *)
(* its tunnel and the agent is not called.                                   *)
BillPublicIp(c, i, s) ==
  /\ Operation(c)
  /\ pstatus[i] \in {"allocated", "suspended"}
  /\ ~Locked(i)
  /\ pstatus' = [pstatus EXCEPT ![i] = s]
  /\ deadline' = IF s = "suspended" THEN deadline \union {i} ELSE deadline \ {i}
  /\ UNCHANGED <<tunnelRows, puser, ptunnel, clientVars>>

(* Phase 4 of a billing tick has listed the IP. *)
ExpireIp(c, i) ==
  /\ Operation(c)
  /\ pstatus[i] # "available" /\ i \in deadline
  /\ txn' = [txn EXCEPT ![c] = [op |-> "cancelIp", ip |-> i]]
  /\ UNCHANGED <<tunnelRows, ipRows, calls>>

(* forceCancelPublicIp takes the row as it now is, and reads the rest of the *)
(* tunnel's IPs after its commit.                                            *)
ForceCancelPublicIp(c) ==
  /\ Resume(c, "cancelIp")
  /\ LET i == txn[c].ip IN
     /\ ~Locked(i)
     /\ puser' = [puser EXCEPT ![i] = NoUser]
     /\ ptunnel' = [ptunnel EXCEPT ![i] = NoTunnel]
     /\ pstatus' = [pstatus EXCEPT ![i] = "available"]
     /\ deadline' = deadline \ {i}
     /\ calls' = [calls EXCEPT ![c] =
          IF ptunnel[i] = NoTunnel THEN <<>> ELSE <<Call("refresh", ptunnel[i], {})>>]
  /\ UNCHANGED tunnelRows

(* The tunnel an address may be moved to, if any. *)
Target(t, u) == t # NoTunnel => Live(t) /\ Owner[t] = u

(* moveIp locks the row and looks at the target tunnel. *)
StartMove(c, i, t) ==
  /\ Operation(c)
  /\ ~Locked(i)
  /\ pstatus[i] = "allocated"
  /\ Target(t, puser[i])
  /\ txn' = [txn EXCEPT ![c] = [op |-> "move", ip |-> i, from |-> ptunnel[i], to |-> t]]
  /\ UNCHANGED <<tunnelRows, ipRows, calls>>

(* The rest of the transaction: loadTunnelSync leaves out deleted tunnels    *)
(* and sees the assignment just made.                                        *)
MoveIp(c) ==
  LET m == txn[c]
      W(t) == IF t = m.to THEN Want(t) \union {m.ip} ELSE Want(t) \ {m.ip}
      Sync(t) == IF t \in Tunnels \ gone THEN <<Call("update", t, W(t))>> ELSE <<>> IN
  /\ Resume(c, "move")
  /\ ptunnel' = [ptunnel EXCEPT ![m.ip] = m.to]
  /\ calls' = [calls EXCEPT ![c] = IF m.from = m.to THEN <<>> ELSE Sync(m.from) \o Sync(m.to)]
  /\ UNCHANGED <<tunnelRows, puser, pstatus, deadline>>

(* The transaction is rolled back. *)
Rollback(c) ==
  /\ txn[c] # NoTxn
  /\ Fault
  /\ txn' = [txn EXCEPT ![c] = NoTxn]
  /\ UNCHANGED <<agentVars, tunnelRows, ipRows, calls, late, jobVars, drift>>

------------------------------------------------------------------------------
(* After the commit *)

Apply(x) ==
  CASE x.op = "create"    -> CreatePeer(x.t, x.ips)
    [] x.op = "update"    -> UpdatePeer(x.t, x.ips)
    [] x.op = "delete"    -> DeletePeer(x.t)
    [] x.op = "provision" -> ProvisionPeer(x.t)

(* The agent answers with an error after it has changed something.  What it  *)
(* answers before that is a call that never reaches it, below.               *)
Breaks(x) ==
  \/ x.op = "create" /\ CreateFails(x.t, x.ips)
  \/ x.op = "update" /\ UpdateFails(x.t, x.ips)

AgentCall(c) ==
  /\ calls[c] # <<>>
  /\ Head(calls[c]).op \in {"update", "delete"}
  /\ Apply(Head(calls[c]))
  /\ calls' = [calls EXCEPT ![c] = Tail(@)]
  /\ UNCHANGED <<tunnelRows, ipRows, txn, late, jobVars, drift, budget>>

Refresh(c) ==
  /\ calls[c] # <<>>
  /\ Head(calls[c]).op = "refresh"
  /\ LET t == Head(calls[c]).t IN
     calls' = [calls EXCEPT ![c] = IF t \in gone THEN <<>> ELSE <<Call("update", t, Want(t))>>]
  /\ UNCHANGED <<agentVars, tunnelRows, ipRows, txn, late, jobVars, drift, budget>>

(* Mutation: the attempts are counted as retries after a first run. *)
EnqueueRetries(c) ==
  /\ calls[c] # <<>>
  /\ Head(calls[c]).op = "enqueue"
  /\ attempts' = [attempts EXCEPT ![Head(calls[c]).t] = MaxAttempts + 1]
  /\ calls' = [calls EXCEPT ![c] = Tail(@)]
  /\ UNCHANGED <<agentVars, tunnelRows, ipRows, txn, late, worker, drift, budget>>

(* TunnelsService.provision puts the provision-tunnel job in the queue. *)
Enqueue(c) ==
  /\ calls[c] # <<>>
  /\ Head(calls[c]).op = "enqueue"
  /\ attempts' = [attempts EXCEPT ![Head(calls[c]).t] = MaxAttempts]
  /\ calls' = [calls EXCEPT ![c] = Tail(@)]
  /\ UNCHANGED <<agentVars, tunnelRows, ipRows, txn, late, worker, drift, budget>>

(* A call fails, or the process dies: what the client had left to do is not  *)
(* done.  The agent may still carry out a call whose answer came too late.   *)
ClientFails(c, reaches) ==
  /\ calls[c] # <<>>
  /\ Fault
  /\ late' = IF reaches /\ Head(calls[c]).op \in {"update", "delete"}
             THEN late \union {Head(calls[c])} ELSE late
  /\ calls' = [calls EXCEPT ![c] = <<>>]
  /\ UNCHANGED <<agentVars, tunnelRows, ipRows, txn, jobVars, drift>>

(* The agent answers a call with an error. *)
CallBreaks(c) ==
  /\ calls[c] # <<>>
  /\ Fault
  /\ Breaks(Head(calls[c]))
  /\ calls' = [calls EXCEPT ![c] = <<>>]
  /\ UNCHANGED <<tunnelRows, ipRows, txn, late, jobVars, drift>>

LateCallBreaks(x) ==
  /\ x \in late
  /\ Fault
  /\ Breaks(x)
  /\ late' = late \ {x}
  /\ UNCHANGED <<tunnelRows, ipRows, clientVars, jobVars, drift>>

LateCall(x) ==
  /\ x \in late
  /\ Apply(x)
  /\ late' = late \ {x}
  /\ UNCHANGED <<tunnelRows, ipRows, clientVars, jobVars, drift, budget>>

------------------------------------------------------------------------------
(* activateTunnel, run by worker-gateway *)

(* Only an active row ends the job here; a deleted one does not. *)
LoadJob(t) ==
  /\ attempts[t] > 0 /\ worker[t] = "idle"
  /\ IF tstatus[t] = "active"
     THEN attempts' = [attempts EXCEPT ![t] = 0] /\ UNCHANGED worker
     ELSE worker' = [worker EXCEPT ![t] = "calling"] /\ UNCHANGED attempts
  /\ UNCHANGED <<agentVars, tunnelRows, ipRows, clientVars, late, drift, budget>>

(* A conflict would end the attempt, but while the job lives there is no     *)
(* stub: the rows have no update sent before the job has saved them.         *)
CallAgent(t) ==
  /\ worker[t] = "calling"
  /\ ~Conflict(t)
  /\ ProvisionPeer(t)
  /\ worker' = [worker EXCEPT ![t] = "saving"]
  /\ UNCHANGED <<tunnelRows, ipRows, clientVars, late, attempts, drift, budget>>

(* The UPDATE has no condition: a row deleted meanwhile reads 'active', with *)
(* deleted_at still set.                                                     *)
SaveActive(t) ==
  /\ worker[t] = "saving"
  /\ tstatus' = [tstatus EXCEPT ![t] = "active"]
  /\ attempts' = [attempts EXCEPT ![t] = 0]
  /\ worker' = [worker EXCEPT ![t] = "idle"]
  /\ UNCHANGED <<agentVars, gone, ipRows, clientVars, late, drift, budget>>

JobFails(t, reaches) ==
  /\ worker[t] # "idle"
  /\ Fault
  /\ attempts' = [attempts EXCEPT ![t] = @ - 1]
  /\ worker' = [worker EXCEPT ![t] = "idle"]
  /\ late' = IF reaches /\ worker[t] = "calling"
             THEN late \union {Call("provision", t, {})} ELSE late
  /\ UNCHANGED <<agentVars, tunnelRows, ipRows, clientVars, drift>>

------------------------------------------------------------------------------
(* reconcileGateway *)

(* listPeers: the answer comes from the agent's records. *)
DriftList ==
  /\ drift.phase = "idle"
  /\ drift' = [phase |-> "listed", kernel |-> peers, have |-> meta]
  /\ UNCHANGED <<agentVars, tunnelRows, ipRows, clientVars, late, jobVars, budget>>

(* The SELECT of the active tunnels and their IPs. *)
DriftRead ==
  /\ drift.phase = "listed"
  /\ drift' = [phase |-> "pushing", kernel |-> drift.kernel, have |-> drift.have,
               live |-> {t \in Tunnels : Live(t)}, want |-> [t \in Tunnels |-> Want(t)],
               todo |-> {t \in Tunnels : Live(t)}]
  /\ UNCHANGED <<agentVars, tunnelRows, ipRows, clientVars, late, jobVars, budget>>

Done(t) == [drift EXCEPT !.todo = @ \ {t}]

(* Mutation: a peer that is there is never compared with the rows. *)
StaleNever(t) == FALSE

Stale(t) == drift.have[t] # drift.want[t]

Todo(t) == drift.phase \in {"pushing", "orphans"} /\ t \in drift.todo

(* What drift sends for a tunnel of the snapshot, an orphan: at most one call. *)
Push(t) ==
  IF drift.phase = "orphans" THEN {Call("delete", t, {})}
  ELSE IF t \notin drift.kernel THEN {Call("create", t, drift.want[t])}
  ELSE IF Stale(t) THEN {Call("update", t, drift.want[t])}
  ELSE {}

(* Steps 1 and 2, one tunnel at a time; the SELECT has no ORDER BY. *)
DriftSkip(t) ==
  /\ Todo(t)
  /\ Push(t) = {}
  /\ drift' = Done(t)
  /\ UNCHANGED <<agentVars, tunnelRows, ipRows, clientVars, late, jobVars, budget>>

DriftCall(t) ==
  /\ Todo(t)
  /\ \E x \in Push(t) : Apply(x)
  /\ drift' = Done(t)
  /\ UNCHANGED <<tunnelRows, ipRows, clientVars, late, jobVars, budget>>

(* The call for one tunnel fails and is reported; the run goes on. *)
DriftFails(t, reaches) ==
  /\ Todo(t)
  /\ Push(t) # {}
  /\ Fault
  /\ late' = IF reaches THEN late \union Push(t) ELSE late
  /\ drift' = Done(t)
  /\ UNCHANGED <<agentVars, tunnelRows, ipRows, clientVars, jobVars>>

DriftBreaks(t) ==
  /\ Todo(t)
  /\ Fault
  /\ \E x \in Push(t) : Breaks(x)
  /\ drift' = Done(t)
  /\ UNCHANGED <<tunnelRows, ipRows, clientVars, late, jobVars>>

DriftPushed ==
  /\ drift.phase = "pushing"
  /\ drift.todo = {}
  /\ drift' = [phase |-> "orphans", todo |-> drift.kernel \ drift.live]
  /\ UNCHANGED <<agentVars, tunnelRows, ipRows, clientVars, late, jobVars, budget>>

DriftEnd ==
  /\ drift.phase = "orphans"
  /\ drift.todo = {}
  /\ drift' = NoDrift
  /\ UNCHANGED <<agentVars, tunnelRows, ipRows, clientVars, late, jobVars, budget>>

------------------------------------------------------------------------------
GatewayFails ==
  /\ Fault
  /\ AgentRestart \/ GatewayReboot
  /\ UNCHANGED <<tunnelRows, ipRows, clientVars, late, jobVars, drift>>

ForgetProvisionKey(t) ==
  /\ ForgetKey(t)
  /\ UNCHANGED <<tunnelRows, ipRows, clientVars, late, jobVars, drift, budget>>

TunnelOperation(c) ==
  \E t \in Tunnels :
    \/ CreateTunnel(c, t) \/ StartDelete(c, t) \/ ExpireTunnel(c, t)
    \/ ChangeTunnelTier(c, t)
    \/ \E s \in {"active", "suspended"} : BillTunnel(c, t, s)

IpOperation(c) ==
  \E i \in Ips :
    \/ ReleasePublicIp(c, i) \/ ExpireIp(c, i)
    \/ \E u \in Users : StartBuy(c, u, i)
    \/ \E s \in {"allocated", "suspended"} : BillPublicIp(c, i, s)
    \/ \E t \in Tunnels \union {NoTunnel} : StartMove(c, i, t)

Commit(c) ==
  \/ DeleteTunnel(c) \/ ForceCancelTunnel(c)
  \/ BuyPublicIp(c) \/ ForceCancelPublicIp(c) \/ MoveIp(c)

AfterCommit(c) == AgentCall(c) \/ Refresh(c) \/ Enqueue(c)

Job(t) == LoadJob(t) \/ CallAgent(t) \/ SaveActive(t)

Drift ==
  \/ DriftList \/ DriftRead \/ DriftPushed \/ DriftEnd
  \/ \E t \in Tunnels : DriftSkip(t) \/ DriftCall(t)

Next ==
  \/ \E c \in Clients :
       \/ TunnelOperation(c) \/ IpOperation(c) \/ Commit(c) \/ Rollback(c) \/ AfterCommit(c)
       \/ CallBreaks(c)
       \/ \E reaches \in BOOLEAN : ClientFails(c, reaches)
  \/ \E x \in late : LateCall(x) \/ LateCallBreaks(x)
  \/ \E t \in Tunnels :
       \/ Job(t) \/ ForgetProvisionKey(t) \/ DriftBreaks(t)
       \/ \E reaches \in BOOLEAN : JobFails(t, reaches) \/ DriftFails(t, reaches)
  \/ Drift
  \/ GatewayFails

Spec == Init /\ [][Next]_vars

(* The drift timer fires for ever, and what has been started goes on: a      *)
(* transaction commits, a call is made, BullMQ runs its jobs, a delayed call *)
(* is carried out.  Nobody has to start an operation.                        *)
Fairness ==
  /\ WF_vars(Drift)
  /\ \A c \in Clients : WF_vars(Commit(c)) /\ WF_vars(AfterCommit(c))
  /\ \A t \in Tunnels : WF_vars(Job(t))
  /\ WF_vars(\E x \in late : LateCall(x))

FairSpec == Spec /\ Fairness

------------------------------------------------------------------------------
TxnSet ==
  {NoTxn}
    \union [op : {"delete", "cancelTunnel"}, t : Tunnels]
    \union [op : {"buy"}, ip : Ips, user : Users]
    \union [op : {"cancelIp"}, ip : Ips]
    \union [op : {"move"}, ip : Ips, from : Tunnels \union {NoTunnel}, to : Tunnels \union {NoTunnel}]

DriftSet ==
  {NoDrift}
    \union [phase : {"listed"}, kernel : SUBSET Tunnels, have : [Tunnels -> Records]]
    \union [phase : {"pushing"}, kernel : SUBSET Tunnels, have : [Tunnels -> Records],
            live : SUBSET Tunnels, want : [Tunnels -> SUBSET Ips], todo : SUBSET Tunnels]
    \union [phase : {"orphans"}, todo : SUBSET Tunnels]

RowsTypeOK ==
  /\ tstatus \in [Tunnels -> {"none", "provisioning", "active", "suspended", "deleted"}]
  /\ gone \subseteq Tunnels
  /\ puser \in [Ips -> Users \union {NoUser}]
  /\ ptunnel \in [Ips -> Tunnels \union {NoTunnel}]
  /\ pstatus \in [Ips -> {"available", "allocated", "suspended"}]
  /\ deadline \subseteq Ips

JobsTypeOK ==
  /\ attempts \in [Tunnels -> 0..MaxAttempts]
  /\ worker \in [Tunnels -> {"idle", "calling", "saving"}]
  /\ \A t \in Tunnels : worker[t] # "idle" => attempts[t] > 0

TypeOK ==
  /\ AgentTypeOK
  /\ RowsTypeOK
  /\ txn \in [Clients -> TxnSet]
  /\ calls \in [Clients -> Seq(CallSet)]
  /\ late \subseteq AgentCalls
  /\ JobsTypeOK
  /\ drift \in DriftSet
  /\ ops \in 0..MaxOps
  /\ faults \in 0..MaxFaults

(* An address is attached only to a tunnel of the customer who owns it, even *)
(* when it is sold, moved, suspended and cancelled by concurrent operations: *)
(* no customer's traffic is routed into another customer's tunnel by the     *)
(* rows.                                                                     *)
AttachedToOwnTunnel ==
  \A i \in Ips : ptunnel[i] # NoTunnel => puser[i] = Owner[ptunnel[i]]

(* A failed update left a stub of a peer that is not in the kernel: drift    *)
(* creates such a peer, and the agent refuses that for ever.                 *)
Barred(t) == Conflict(t) /\ t \notin peers

(* The agent's records agree with the rows: the peers are the live tunnels,  *)
(* and each has on record the addresses the rows give it.                    *)
RecordsAgree ==
  \A t \in Tunnels :
    \/ Live(t) /\ t \in peers /\ meta[t] = Want(t)
    \/ ~Live(t) /\ t \notin peers
    \/ Barred(t)

(* However calls fail, arrive late or cross each other, once operations and  *)
(* faults have ceased drift detection brings the agent's records into        *)
(* agreement with the rows, for good.                                        *)
RecordsConverge == <>[]RecordsAgree

------------------------------------------------------------------------------
(* What the repository says of the program and the code does not do. *)

(* No address stays attached to a tunnel that is deleted. *)
NoAddressOnDeletedTunnel ==
  \A i \in Ips : ptunnel[i] \in gone => pstatus[i] # "allocated"

==============================================================================
