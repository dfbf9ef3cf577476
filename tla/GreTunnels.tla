------------------------------- MODULE GreTunnels -------------------------------
(***************************************************************************)
(* GRE tunnels of one gateway, from purchase to deletion                   *)
(* (packages/provisioning/src/gre.ts, gre-drift.ts, gre-monitor.ts), over  *)
(* the agent of module GreAgent.                                           *)
(*                                                                         *)
(* The API answers a purchase before it pushes the tunnel to the agent;    *)
(* every push reads the database, waits for the agent and then writes the  *)
(* database, and anything may happen in between.  Changes of an endpoint   *)
(* wait for DNS and the agent between what they read and what they write.  *)
(* Drift detection compares what the agent listed with what it read of the *)
(* database after that, and repairs one difference after the other.        *)
(*                                                                         *)
(* Left out: prices and wallets (module Billing); gre_key, which is not    *)
(* sent to the agent; names; blocks, which are routed as one CIDR.         *)
(* `budget` bounds what users, customers' DNS and failures do in a         *)
(* behaviour; drift detection and the refresh of endpoints go on for ever. *)
(***************************************************************************)
EXTENDS GreAgent, Sequences, FiniteSets

CONSTANTS
  Hosts,       \* domain names of endpoints
  NoHost,
  Slots,       \* number of /30s in private_subnet
  MaxTunnels,  \* max_tunnels
  Editors,     \* concurrent requests about endpoints
  Deleters,    \* concurrent deletions
  Budget       \* bound on events

ASSUME GreAssumptions ==
  /\ Slots \in Nat /\ MaxTunnels \in Nat /\ Budget \in Nat
  /\ NoLink \notin Tunnels \union Ips
  /\ NoHost \notin Hosts
  /\ IsFiniteSet(Tunnels)

VARIABLES
  tun,       \* rows of tunnels
  attached,  \* per allocated address: its tunnel_id
  count,     \* current_tunnels
  dns,       \* per host: what it resolves to
  act,       \* per tunnel: the API's push of a new tunnel
  drift,     \* the pass of reconcileGreOnGateway
  edit,      \* per request: the endpoint it is changing
  refresh,   \* the endpoint the worker is re-resolving
  push,      \* route updates of a move that are still to be sent
  del,       \* per deletion: how far it is
  budget

dbVars == <<tun, attached, count>>
vars == <<agentVars, dbVars, dns, act, drift, edit, refresh, push, del, budget>>

Row == [status : {"none", "provisioning", "active", "suspended", "deleted"}, gone : BOOLEAN,
        host : Hosts \union {NoHost}, remote : Ips \union {NoLink}, slot : 0..Slots]

Push == [pc : {"idle", "start", "call", "mark"}, remote : Ips \union {NoLink}, addrs : SUBSET Addresses]
NoPush == [pc |-> "idle", remote |-> NoLink, addrs |-> {}]

(* An endpoint in work: whether the host is changed too, and what was read. *)
Change == [pc : {"idle", "dns", "patch", "write"}, t : Tunnels \union {NoLink}, sets : BOOLEAN,
           host : Hosts \union {NoHost}, remote : Ips \union {NoLink}]
NoChange == [pc |-> "idle", t |-> NoLink, sets |-> FALSE, host |-> NoHost, remote |-> NoLink]

Deletion == [pc : {"idle", "tx", "call"}, t : Tunnels \union {NoLink}]
NoDeletion == [pc |-> "idle", t |-> NoLink]

(* A pass of drift detection: what the agent listed, then what is to be done. *)
Peers == [remote : Ips \union {NoLink}, addrs : SUBSET Addresses]
Task == [do : {"nothing", "activate", "call", "mark", "patch", "delete"},
         remote : SUBSET Ips, addrs : SUBSET SUBSET Addresses]
NoTask == [do |-> "nothing", remote |-> {}, addrs |-> {}]
NoPass == [pc |-> "idle", seen |-> [t \in Tunnels |-> [remote |-> NoLink, addrs |-> {}]],
           tasks |-> [t \in Tunnels |-> NoTask]]

Active(t) == tun[t].status = "active" /\ ~tun[t].gone
Exists(t) == tun[t].status # "none" /\ ~tun[t].gone
On(t) == {a \in Addresses : attached[a] = t}

Event == budget > 0 /\ budget' = budget - 1

Init ==
  /\ AgentInit
  /\ tun = [t \in Tunnels |-> [status |-> "none", gone |-> FALSE, host |-> NoHost, remote |-> NoLink, slot |-> 0]]
  /\ attached = [a \in Addresses |-> NoLink]
  /\ count = 0
  /\ dns \in [Hosts -> Ips]
  /\ act = [t \in Tunnels |-> NoPush]
  /\ drift = NoPass
  /\ edit = [e \in Editors |-> NoChange]
  /\ refresh = NoChange
  /\ push = << >>
  /\ del = [d \in Deleters |-> NoDeletion]
  /\ budget = Budget

------------------------------------------------------------------------------
(* Purchase *)

(* Mutation: the /30s of deleted tunnels are given out again. *)
ReusedSlots == {s \in 1..Slots : \A t \in Tunnels : Exists(t) => tun[t].slot # s}

(* The /30s that no row has, the rows of deleted tunnels included. *)
FreeSlots == {s \in 1..Slots : \A t \in Tunnels : tun[t].slot # s}

(* provisionGreTunnel; a customer who names the gateway is not held to       *)
(* max_tunnels.                                                              *)
ProvisionGreTunnel(t, h, named) ==
  /\ tun[t].status = "none"
  /\ named \/ count < MaxTunnels
  /\ \E s \in FreeSlots :
       /\ \A x \in FreeSlots : s <= x
       /\ tun' = [tun EXCEPT ![t] = [status |-> "provisioning", gone |-> FALSE, host |-> h,
                                     remote |-> dns[h], slot |-> s]]
  /\ count' = count + 1
  /\ act' = [act EXCEPT ![t].pc = "start"]
  /\ UNCHANGED <<agentVars, attached, dns, drift, edit, refresh, push, del, budget>>

(* activateGreTunnel, which both the API and drift detection run. *)
ReadForActivation(t) == [pc |-> "call", remote |-> tun[t].remote, addrs |-> On(t)]

ApiRead(t) ==
  /\ act[t].pc = "start"
  /\ act' = [act EXCEPT ![t] = ReadForActivation(t)]
  /\ UNCHANGED <<agentVars, dbVars, dns, drift, edit, refresh, push, del, budget>>

ApiCall(t) ==
  /\ act[t].pc = "call"
  /\ \E ok \in BOOLEAN :
       /\ CreateGrePeer(t, act[t].remote, act[t].addrs, ok)
       /\ act' = [act EXCEPT ![t] = IF ok THEN [NoPush EXCEPT !.pc = "mark"] ELSE NoPush]
  /\ UNCHANGED <<dbVars, dns, drift, edit, refresh, push, del, budget>>

(* The row is marked whatever has become of it. *)
MarkActive(t) == tun' = [tun EXCEPT ![t].status = "active"] /\ UNCHANGED <<attached, count>>

ApiMark(t) ==
  /\ act[t].pc = "mark"
  /\ MarkActive(t)
  /\ act' = [act EXCEPT ![t] = NoPush]
  /\ UNCHANGED <<agentVars, dns, drift, edit, refresh, push, del, budget>>

------------------------------------------------------------------------------
(* Deletion, and what the billing scheduler and a change of tier do to the   *)
(* row.  None of the latter reaches the interface.                           *)

(* The row of a tunnel that is deleted keeps everything else, its /30 too. *)
Deleted(t) ==
  [tun EXCEPT ![t] = [status |-> "deleted", gone |-> TRUE, host |-> tun[t].host,
                      remote |-> tun[t].remote, slot |-> tun[t].slot]]

Without(t) == [a \in Addresses |-> IF attached[a] = t THEN NoLink ELSE attached[a]]

(* Mutation: the counter may go below zero. *)
OneLessUnbounded == count - 1

(* GREATEST(current_tunnels - 1, 0) *)
OneLess == IF count > 0 THEN count - 1 ELSE 0

StartDelete(d, t) ==
  /\ del[d] = NoDeletion
  /\ Exists(t)
  /\ Event
  /\ del' = [del EXCEPT ![d] = [pc |-> "tx", t |-> t]]
  /\ UNCHANGED <<agentVars, dbVars, dns, act, drift, edit, refresh, push>>

(* Mutation: the counter is left alone. *)
DeleteGreTunnelUncounted(d) ==
  /\ del[d].pc = "tx"
  /\ tun' = Deleted(del[d].t)
  /\ attached' = Without(del[d].t)
  /\ count' = count
  /\ del' = [del EXCEPT ![d].pc = "call"]
  /\ UNCHANGED <<agentVars, dns, act, drift, edit, refresh, push, budget>>

(* The transaction of deleteGreTunnel does not look at the row again. *)
DeleteGreTunnel(d) ==
  /\ del[d].pc = "tx"
  /\ tun' = Deleted(del[d].t)
  /\ attached' = Without(del[d].t)
  /\ count' = OneLess
  /\ del' = [del EXCEPT ![d].pc = "call"]
  /\ UNCHANGED <<agentVars, dns, act, drift, edit, refresh, push, budget>>

(* A failure of the call is logged. *)
DeleteCall(d) ==
  /\ del[d].pc = "call"
  /\ DeleteGrePeerOnce(del[d].t)
  /\ del' = [del EXCEPT ![d] = NoDeletion]
  /\ UNCHANGED <<dbVars, dns, act, drift, edit, refresh, push, budget>>

(* chargeOneTunnel and changeTunnelTier. *)
Charge(t) ==
  /\ tun[t].status \in {"active", "suspended"} /\ ~tun[t].gone
  /\ Event
  /\ \E s \in {"active", "suspended"} \ {tun[t].status} : tun' = [tun EXCEPT ![t].status = s]
  /\ UNCHANGED <<agentVars, attached, count, dns, act, drift, edit, refresh, push, del>>

(* forceCancelTunnel, whose deletePeer names a WireGuard key. *)
ForceCancelTunnel(t) ==
  /\ tun[t].status = "suspended" /\ ~tun[t].gone
  /\ Event
  /\ tun' = Deleted(t)
  /\ attached' = Without(t)
  /\ count' = OneLess
  /\ UNCHANGED <<agentVars, dns, act, drift, edit, refresh, push, del>>

------------------------------------------------------------------------------
(* What a tunnel should route, if there is still one. *)
Sync(t, S) == IF t \in Tunnels /\ Exists(t) THEN <<[t |-> t, addrs |-> S]>> ELSE << >>

(* moveIp: what both tunnels should route is read in the transaction, and    *)
(* sent to the tunnel that loses the address first.  The first failure ends  *)
(* it.                                                                       *)
MoveIp(a, to) ==
  /\ push = << >>
  /\ attached[a] # to
  /\ to \in {NoLink} \union {t \in Tunnels : Active(t)}
  /\ Event
  /\ attached' = [attached EXCEPT ![a] = to]
  /\ push' = LET from == attached[a]
             IN  Sync(from, On(from) \ {a}) \o Sync(to, On(to) \union {a})
  /\ UNCHANGED <<agentVars, tun, count, dns, act, drift, edit, refresh, del>>

PushSync ==
  /\ push # << >>
  /\ \E ok \in BOOLEAN :
       /\ PatchGrePeer(Head(push).t, {}, {Head(push).addrs}, ok)
       /\ push' = IF ok THEN Tail(push) ELSE << >>
  /\ UNCHANGED <<dbVars, dns, act, drift, edit, refresh, del, budget>>

(* A command of the agent fails for a reason of its own, half-way. *)
PushStops ==
  /\ push # << >>
  /\ Event
  /\ PatchStops(Head(push).t, {}, {Head(push).addrs})
  /\ push' = << >>
  /\ UNCHANGED <<dbVars, dns, act, drift, edit, refresh, del>>

------------------------------------------------------------------------------
(* Endpoints: a change c waits for DNS, then for the agent, and is written.  *)

(* resolveGreEndpoint up to the wait for DNS, and updateGreEndpoint, for     *)
(* which the same host again changes nothing.                                *)
Resolving(t) == [pc |-> "dns", t |-> t, sets |-> FALSE, host |-> tun[t].host, remote |-> tun[t].remote]
Updating(t, h) == [pc |-> "dns", t |-> t, sets |-> TRUE, host |-> h, remote |-> tun[t].remote]

(* The change after its next step: an address that is not new is not sent to *)
(* the agent, and a refusal of the agent ends the change.                    *)
After(c, ok) ==
  CASE c.pc = "dns" /\ dns[c.host] # c.remote ->
         [pc |-> "patch", t |-> c.t, sets |-> c.sets, host |-> c.host, remote |-> dns[c.host]]
    [] c.pc = "dns" /\ dns[c.host] = c.remote /\ c.sets -> [c EXCEPT !.pc = "write"]
    [] c.pc = "patch" /\ ok -> [c EXCEPT !.pc = "write"]
    [] OTHER -> NoChange

(* Mutation: the address that was found is not written. *)
WriteHostOnly(c) == tun' = [tun EXCEPT ![c.t].host = IF c.sets THEN c.host ELSE tun[c.t].host]

(* The row is written whatever has become of it. *)
WriteEndpoint(c) ==
  tun' = [tun EXCEPT ![c.t] = [status |-> tun[c.t].status, gone |-> tun[c.t].gone,
                               host |-> IF c.sets THEN c.host ELSE tun[c.t].host,
                               remote |-> c.remote, slot |-> tun[c.t].slot]]

ChangeStep(c, ok) ==
  \/ c.pc = "dns" /\ ok /\ UNCHANGED <<agentVars, tun>>
  \/ c.pc = "patch" /\ PatchGrePeer(c.t, {c.remote}, {}, ok) /\ UNCHANGED tun
  \/ c.pc = "write" /\ ok /\ WriteEndpoint(c) /\ UNCHANGED agentVars

UpdateGreEndpoint(e, t, h) ==
  /\ edit[e] = NoChange
  /\ Exists(t) /\ tun[t].host # h
  /\ Event
  /\ edit' = [edit EXCEPT ![e] = Updating(t, h)]
  /\ UNCHANGED <<agentVars, dbVars, dns, act, drift, refresh, push, del>>

(* The customer asks for it; the API looks only at the owner. *)
ResolveEndpoint(e, t) ==
  /\ edit[e] = NoChange
  /\ Exists(t)
  /\ Event
  /\ edit' = [edit EXCEPT ![e] = Resolving(t)]
  /\ UNCHANGED <<agentVars, dbVars, dns, act, drift, refresh, push, del>>

EditStep(e) ==
  /\ \E ok \in BOOLEAN : ChangeStep(edit[e], ok) /\ edit' = [edit EXCEPT ![e] = After(edit[e], ok)]
  /\ UNCHANGED <<attached, count, dns, act, drift, refresh, push, del, budget>>

(* monitorGreTunnels re-resolves after FAIL_THRESHOLD unanswered pings,      *)
(* refreshStaleGreEndpoints after an hour: either may happen to an active    *)
(* tunnel at any time.                                                       *)
RefreshStale(t) ==
  /\ refresh = NoChange
  /\ Active(t)
  /\ refresh' = Resolving(t)
  /\ UNCHANGED <<agentVars, dbVars, dns, act, drift, edit, push, del, budget>>

RefreshStep ==
  /\ \E ok \in BOOLEAN : ChangeStep(refresh, ok) /\ refresh' = After(refresh, ok)
  /\ UNCHANGED <<attached, count, dns, act, drift, edit, push, del, budget>>

------------------------------------------------------------------------------
(* reconcileGreOnGateway: the interfaces are listed before the rows are read. *)

DriftList ==
  /\ drift.pc = "idle"
  /\ drift' = [pc |-> "listed", seen |-> [t \in Tunnels |-> Peer(t)], tasks |-> drift.tasks]
  /\ UNCHANGED <<agentVars, dbVars, dns, act, edit, refresh, push, del, budget>>

(* What a pass is going to do about a tunnel: only active rows count, every  *)
(* other interface is an orphan.                                             *)
TaskFor(t, have) ==
  CASE Active(t) /\ have.remote = NoLink -> [NoTask EXCEPT !.do = "activate"]
    [] Active(t) /\ have.remote # NoLink /\ have # [remote |-> tun[t].remote, addrs |-> On(t)] ->
         [do |-> "patch", remote |-> {tun[t].remote} \ {have.remote}, addrs |-> {On(t)} \ {have.addrs}]
    [] ~Active(t) /\ have.remote # NoLink -> [NoTask EXCEPT !.do = "delete"]
    [] OTHER -> NoTask

Pass(tasks) ==
  IF \A t \in Tunnels : tasks[t] = NoTask THEN NoPass
  ELSE [pc |-> "work", seen |-> NoPass.seen, tasks |-> tasks]

DriftRows ==
  /\ drift.pc = "listed"
  /\ drift' = Pass([t \in Tunnels |-> TaskFor(t, drift.seen[t])])
  /\ UNCHANGED <<agentVars, dbVars, dns, act, edit, refresh, push, del, budget>>

Doing(what) == \E t \in Tunnels : drift.tasks[t].do \in what
Becomes(t, task) == drift' = Pass([drift.tasks EXCEPT ![t] = task])

DriftPatch(t) ==
  /\ drift.tasks[t].do = "patch" /\ ~Doing({"call", "mark"})
  /\ \E ok \in BOOLEAN : PatchGrePeer(t, drift.tasks[t].remote, drift.tasks[t].addrs, ok)
  /\ Becomes(t, NoTask)
  /\ UNCHANGED <<dbVars, dns, act, edit, refresh, push, del, budget>>

(* A command of the agent fails for a reason of its own: the error is noted  *)
(* and the pass goes on.  Creating and deleting have changed nothing then.   *)
DriftFails(t) ==
  /\ drift.tasks[t].do \in {"patch", "call", "delete"}
  /\ drift.tasks[t].do = "patch" => ~Doing({"call", "mark"})
  /\ drift.tasks[t].do = "delete" => ~Doing({"activate", "call", "mark", "patch"})
  /\ Event
  /\ \/ UNCHANGED agentVars
     \/ /\ drift.tasks[t].do = "patch"
        /\ PatchStops(t, drift.tasks[t].remote, drift.tasks[t].addrs)
  /\ Becomes(t, NoTask)
  /\ UNCHANGED <<dbVars, dns, act, edit, refresh, push, del>>

DriftRead(t) ==
  /\ drift.tasks[t].do = "activate" /\ ~Doing({"call", "mark"})
  /\ Becomes(t, [do |-> "call", remote |-> {tun[t].remote}, addrs |-> {On(t)}])
  /\ UNCHANGED <<agentVars, dbVars, dns, act, edit, refresh, push, del, budget>>

DriftCall(t) ==
  /\ drift.tasks[t].do = "call"
  /\ \E ok \in BOOLEAN, r \in drift.tasks[t].remote, S \in drift.tasks[t].addrs :
       /\ CreateGrePeer(t, r, S, ok)
       /\ Becomes(t, IF ok THEN [NoTask EXCEPT !.do = "mark"] ELSE NoTask)
  /\ UNCHANGED <<dbVars, dns, act, edit, refresh, push, del, budget>>

DriftMark(t) ==
  /\ drift.tasks[t].do = "mark"
  /\ MarkActive(t)
  /\ Becomes(t, NoTask)
  /\ UNCHANGED <<agentVars, dns, act, edit, refresh, push, del, budget>>

(* Orphans come after the rows. *)
DriftDelete(t) ==
  /\ drift.tasks[t].do = "delete" /\ ~Doing({"activate", "call", "mark", "patch"})
  /\ DeleteGrePeer(t)
  /\ Becomes(t, NoTask)
  /\ UNCHANGED <<dbVars, dns, act, edit, refresh, push, del, budget>>

DriftStep ==
  \/ DriftList \/ DriftRows
  \/ \E t \in Tunnels : DriftPatch(t) \/ DriftRead(t) \/ DriftCall(t) \/ DriftMark(t) \/ DriftDelete(t)

------------------------------------------------------------------------------
(* Failures: the customer's address changes, a call is not answered or a     *)
(* process dies, before or after the agent did what it was asked.            *)

DnsMoves(h, i) ==
  /\ dns[h] # i
  /\ Event
  /\ dns' = [dns EXCEPT ![h] = i]
  /\ UNCHANGED <<agentVars, dbVars, act, drift, edit, refresh, push, del>>

ApiLosesPush(t) ==
  /\ act[t] # NoPush
  /\ act' = [act EXCEPT ![t] = NoPush]
  /\ UNCHANGED <<edit, push, del>>

ApiLosesChange(e) ==
  /\ edit[e] # NoChange
  /\ edit' = [edit EXCEPT ![e] = NoChange]
  /\ UNCHANGED <<act, push, del>>

ApiLosesDeletion(d) ==
  /\ del[d] # NoDeletion
  /\ del' = [del EXCEPT ![d] = NoDeletion]
  /\ UNCHANGED <<act, edit, push>>

ApiLosesSync ==
  /\ push # << >>
  /\ push' = << >>
  /\ UNCHANGED <<act, edit, del>>

ApiFails ==
  /\ Event
  /\ \/ \E t \in Tunnels : ApiLosesPush(t)
     \/ \E e \in Editors : ApiLosesChange(e)
     \/ \E d \in Deleters : ApiLosesDeletion(d)
     \/ ApiLosesSync
  /\ UNCHANGED <<agentVars, dbVars, dns, drift, refresh>>

(* The call of a re-resolution fails; the worker goes on. *)
RefreshFails ==
  /\ Event
  /\ refresh # NoChange
  /\ refresh' = NoChange
  /\ UNCHANGED <<agentVars, dbVars, dns, act, drift, edit, push, del>>

WorkerFails ==
  /\ Event
  /\ drift # NoPass \/ refresh # NoChange
  /\ drift' = NoPass /\ refresh' = NoChange
  /\ UNCHANGED <<agentVars, dbVars, dns, act, edit, push, del>>

GatewayFails ==
  /\ Event
  /\ AgentRestart \/ GatewayReboot
  /\ UNCHANGED <<dbVars, dns, act, drift, edit, refresh, push, del>>

AnswersExpire(t) ==
  /\ ExpireCreated(t) \/ ExpireRemoved(t)
  /\ UNCHANGED <<dbVars, dns, act, drift, edit, refresh, push, del, budget>>

------------------------------------------------------------------------------
ApiStep(t) == ApiRead(t) \/ ApiCall(t) \/ ApiMark(t)

Users ==
  \/ \E t \in Tunnels, h \in Hosts :
       \/ \E named \in BOOLEAN : ProvisionGreTunnel(t, h, named)
       \/ \E e \in Editors : UpdateGreEndpoint(e, t, h)
  \/ \E t \in Tunnels, e \in Editors : ResolveEndpoint(e, t)
  \/ \E t \in Tunnels, d \in Deleters : StartDelete(d, t)
  \/ \E a \in Addresses, to \in Tunnels \union {NoLink} : MoveIp(a, to)

Api ==
  \/ \E t \in Tunnels : ApiStep(t)
  \/ \E e \in Editors : EditStep(e)
  \/ \E d \in Deleters : DeleteGreTunnel(d) \/ DeleteCall(d)
  \/ PushSync

Workers ==
  \/ \E t \in Tunnels : Charge(t) \/ ForceCancelTunnel(t) \/ RefreshStale(t)
  \/ RefreshStep
  \/ DriftStep

Environment ==
  \/ \E h \in Hosts, i \in Ips : DnsMoves(h, i)
  \/ ApiFails \/ PushStops \/ RefreshFails \/ WorkerFails \/ GatewayFails
  \/ \E t \in Tunnels : DriftFails(t) \/ AnswersExpire(t)

Next == Users \/ Api \/ Workers \/ Environment

(* A request that has started goes on; the worker's timers start drift       *)
(* detection and the refresh again and again, and a pass visits every row;   *)
(* cached answers expire.                                                    *)
Fairness ==
  /\ \A t \in Tunnels : WF_vars(ApiStep(t)) /\ WF_vars(ExpireCreated(t) /\ AnswersExpire(t))
  /\ \A t \in Tunnels : SF_vars(RefreshStale(t))
  /\ \A e \in Editors : WF_vars(EditStep(e))
  /\ \A d \in Deleters : WF_vars(DeleteGreTunnel(d) \/ DeleteCall(d))
  /\ WF_vars(PushSync) /\ WF_vars(RefreshStep) /\ WF_vars(DriftStep)

Spec == Init /\ [][Next]_vars /\ Fairness

------------------------------------------------------------------------------
(* The rows and the state of every process have the shape the code gives    *)
(* them.                                                                    *)
TypeOK ==
  /\ AgentTypeOK
  /\ tun \in [Tunnels -> Row]
  /\ attached \in [Addresses -> Tunnels \union {NoLink}]
  /\ count \in 0..Cardinality(Tunnels)
  /\ dns \in [Hosts -> Ips]
  /\ act \in [Tunnels -> Push]
  /\ drift \in [pc : {"idle", "listed", "work"}, seen : [Tunnels -> Peers], tasks : [Tunnels -> Task]]
  /\ edit \in [Editors -> Change] /\ refresh \in Change
  /\ push \in Seq([t : Tunnels, addrs : SUBSET Addresses])
  /\ del \in [Deleters -> Deletion]
  /\ budget \in 0..Budget

(* Two interfaces never have the same /30, although an interface outlives    *)
(* its row: a late push or a lost call leaves it up after the deletion.      *)
LinksApart ==
  \A t, x \in Tunnels :
    t # x /\ link[t] # NoLink /\ link[x] # NoLink => tun[t].slot # tun[x].slot /\ tun[t].slot > 0

(* current_tunnels never counts a tunnel that is gone, so a gateway with     *)
(* room is not taken for full; deletions that race may count one too few.    *)
CountsNoneTooMany == count <= Cardinality({t \in Tunnels : Exists(t)})

(* Another interface has the remote or an address of the tunnel. *)
Claimed(t) == Taken(t, tun[t].remote) \/ Blocked(t, On(t)) # {}

(* Every active tunnel ends up with its interface, its remote and its routes, *)
(* unless another interface keeps one of them, and no other interface stays:  *)
(* drift detection repairs whatever lost and failed calls, reboots, races and *)
(* replayed answers left behind.                                              *)
GreConverges ==
  <>[](\A t \in Tunnels :
         \/ Active(t) /\ Peer(t) = [remote |-> tun[t].remote, addrs |-> On(t)]
         \/ Active(t) /\ Claimed(t)
         \/ ~Active(t) /\ Peer(t) = [remote |-> NoLink, addrs |-> {}])

(* An active tunnel ends up with the address its host resolves to, although   *)
(* changes of the host and re-resolutions overwrite each other, unless        *)
(* another interface has that remote.                                         *)
EndpointFollowsDns ==
  <>[](\A t \in Tunnels :
         Active(t) => tun[t].remote = dns[tun[t].host] \/ Taken(t, dns[tun[t].host]))

================================================================================
