----------------------------- MODULE DialInAgent -----------------------------
(***************************************************************************)
(* The two backends of the gateway agent whose customers dial in: OpenVPN  *)
(* (gateway-agent/internal/wg/openvpn.go) and SSTP (sstp.go).  The agent   *)
(* does not own the connections: it keeps its record of the peers in       *)
(* memory and writes files that the VPN server reads when a customer       *)
(* connects.                                                               *)
(*                                                                         *)
(*            who may connect            which addresses a connection gets *)
(*   OpenVPN  a CCD file is there        the iroutes of the CCD file       *)
(*   SSTP     a line in chap-secrets     the routes.d file (ip-up.d), and  *)
(*                                       `ip route` on the live interface  *)
(*                                                                         *)
(* A call holds the manager's mutex from its first step to its last, but   *)
(* customers connect and leave, and the agent may stop, between any two    *)
(* steps.  A write is a file plus a rename, so a file is never torn, and   *)
(* the hook ip-up.d goes on with the file it opened.  A peer may be        *)
(* created or updated at any time and with any addresses, whatever was     *)
(* asked before.  Shaping, credentials and byte counters are left out.     *)
(* The control plane always names the same private address for a peer, so  *)
(* the conflict of CreatePeer, which changes nothing, is left out as well. *)
(***************************************************************************)
EXTENDS Naturals, Sequences, FiniteSets

CONSTANTS
  Customers, \* named by the publicKey slot of a call
  IPs,       \* public addresses, each a /32
  MaxTorn    \* bound on the peers that are cut short at the same time

VARIABLES
  backend, \* the agent's backend, fixed by its configuration
  meta,    \* the manager's map of peers
  conf,    \* the CCD or routes.d file of every peer
  logins,  \* the peers with a line in chap-secrets
  session, \* the customer's connection: "joining" has no interface yet, and
           \* "starting" has one whose hook has not opened the peer's file
  lines,   \* per peer: what ip-up.d has read and not routed yet
  routed,  \* the connection that carries an address
  call,    \* the call in progress
  told,    \* what the last call asked for a peer
  torn,    \* peers whose last call was cut short, or hid a failure
  loose    \* peers whose connection a call may have left with more than it named

connections == <<session, lines, routed>>
dialVars == <<backend, meta, conf, logins, connections, call, told, torn, loose>>
world == <<meta, conf, logins, connections>>

Unknown == [status |-> "unknown", ips |-> {}]
PeerRecord == [status : {"active", "suspended"}, ips : SUBSET IPs]
NoFile == [there |-> FALSE, ips |-> {}]
File(s) == [there |-> TRUE, ips |-> s]

(* What an address is routed to that no connection carries. *)
Nobody == "nobody"
ASSUME DialInAssumptions == MaxTorn \in Nat /\ Nobody \notin Customers

NoCall == [op |-> "none"]
NoOrder == [kind |-> "none", ips |-> {}]
Gone == [kind |-> "deleted", ips |-> {}]
Order(s) == [kind |-> "ordered", ips |-> s]

Ops == {"create", "update", "delete", "suspend", "resume"}
StepNames == {"record", "forget", "conf", "login", "live", "unroute", "kill"}
Call == [op : Ops, peer : Customers, rec : PeerRecord \union {Unknown}, stale : SUBSET IPs,
         rest : Seq(StepNames), ok : BOOLEAN]

Known(p) == meta[p] # Unknown
Carried(p) == {i \in IPs : routed[i] = p}

(* pppIface: the connection of a peer has an interface. *)
Live(p) == session[p] \in {"starting", "up"}

------------------------------------------------------------------------------
(* What each call does, in the order of the code. *)

OvpnCreatePeer == <<"conf", "record">>

(* Mutation: the client is not made to reconnect. *)
OvpnUpdateQuietly == <<"record", "conf">>

OvpnUpdatePeer == <<"record", "conf", "kill">>

OvpnDeletePeer(p) == IF Known(p) THEN <<"conf", "kill", "forget">> ELSE <<"conf">>

OvpnSuspendPeer == <<"record", "conf", "kill">>

OvpnResumePeer == <<"record", "conf", "kill">>

SstpCreatePeer == <<"record", "login", "conf", "live">>

SstpUpdatePeer == <<"record", "login", "conf", "live">>

SstpDeletePeer(p) ==
  IF Known(p) THEN <<"unroute", "kill", "conf", "forget", "login">>
  ELSE <<"conf", "forget", "login">>

SstpSuspendPeer == <<"record", "conf", "unroute", "login", "kill">>

SstpResumePeer == <<"record", "login", "conf">>

Script(op, p) ==
  IF backend = "openvpn"
  THEN [create |-> OvpnCreatePeer, update |-> OvpnUpdatePeer, delete |-> OvpnDeletePeer(p),
        suspend |-> OvpnSuspendPeer, resume |-> OvpnResumePeer][op]
  ELSE [create |-> SstpCreatePeer, update |-> SstpUpdatePeer, delete |-> SstpDeletePeer(p),
        suspend |-> SstpSuspendPeer, resume |-> SstpResumePeer][op]

(* The errors of a write that a call carries on after. *)
Ignores(op) ==
  op \in {"suspend", "delete"} \/ (backend = "openvpn" /\ op = "resume")

(* Mutation: the addresses are written whatever the status. *)
FileForAnyone(c) == IF c.op = "delete" THEN NoFile ELSE File(c.rec.ips)

(* A suspended peer's file has no addresses. *)
FileFor(c) ==
  IF c.op = "delete" THEN NoFile
  ELSE File(IF c.rec.status = "suspended" THEN {} ELSE c.rec.ips)

(* Mutation: the status, which no file holds, is not set. *)
ReloadedBare(p) ==
  IF backend = "sstp" /\ p \in logins THEN [status |-> "unknown", ips |-> conf[p].ips] ELSE Unknown

(* OpenVPN starts with an empty map.  SSTP reads chap-secrets, which has no  *)
(* line for a suspended peer, and the routes files.                          *)
Reloaded(p) ==
  IF backend = "sstp" /\ p \in logins
  THEN [status |-> "active", ips |-> conf[p].ips]
  ELSE Unknown

------------------------------------------------------------------------------
DialInit ==
  /\ backend \in {"openvpn", "sstp"}
  /\ meta = [p \in Customers |-> Unknown]
  /\ conf = [p \in Customers |-> NoFile]
  /\ logins = {}
  /\ session = [p \in Customers |-> "off"]
  /\ lines = [p \in Customers |-> {}]
  /\ routed = [i \in IPs |-> Nobody]
  /\ call = NoCall
  /\ told = [p \in Customers |-> NoOrder]
  /\ torn = {} /\ loose = {}

Begin(op, p, rec, stale, order) ==
  /\ call = NoCall
  /\ call' = [op |-> op, peer |-> p, rec |-> rec, stale |-> stale,
              rest |-> Script(op, p), ok |-> TRUE]
  /\ told' = [told EXCEPT ![p] = order]
  /\ UNCHANGED <<backend, world, torn>>

(* Neither backend takes anything from a connection it finds up, so what the *)
(* peer was told before may stay.                                            *)
CreatePeer(p, s) ==
  /\ Begin("create", p, [status |-> "active", ips |-> s], {}, Order(s))
  /\ loose' = IF told[p] \in {NoOrder, Order(s)} THEN loose ELSE loose \union {p}

(* A peer the agent does not know is taken over from the call; of one that   *)
(* was deleted, nothing tells what a connection still has.                   *)
UpdatePeer(p, s) ==
  /\ Begin("update", p,
           [status |-> IF Known(p) THEN meta[p].status ELSE "active", ips |-> s],
           meta[p].ips \ s, Order(s))
  /\ loose' = IF Known(p) \/ told[p].kind # "deleted" THEN loose ELSE loose \union {p}

DeletePeer(p) == Begin("delete", p, meta[p], {}, Gone) /\ UNCHANGED loose

(* Suspending or resuming an unknown peer answers 404. *)
SuspendPeer(p) ==
  /\ Known(p)
  /\ Begin("suspend", p, [status |-> "suspended", ips |-> meta[p].ips], {}, told[p])
  /\ UNCHANGED loose

ResumePeer(p) ==
  /\ Known(p)
  /\ Begin("resume", p, [status |-> "active", ips |-> meta[p].ips], {}, told[p])
  /\ UNCHANGED loose

------------------------------------------------------------------------------
(* The steps of the call in progress. *)

AtStep(s) == call # NoCall /\ Head(call.rest) = s

(* The call in progress may still be cut short. *)
MayTear == Cardinality(torn \union {call.peer}) <= MaxTorn

(* The call goes on, or answers.  A connection that outlives a call cut      *)
(* short may keep what it was given: the peer is whole again when a call     *)
(* with the addresses last asked for has gone through and the customer has   *)
(* to connect anew.  A hook that is still at work may route addresses the    *)
(* call has just taken away.                                                 *)
Goes(ok) ==
  LET whole == call.ok /\ ok
      p == call.peer
      live == session'[p] \in {"starting", "up"} IN
  IF Len(call.rest) > 1
  THEN /\ call' = [call EXCEPT !.rest = Tail(call.rest), !.ok = whole]
       /\ UNCHANGED <<torn, loose>>
  ELSE /\ call' = NoCall
       /\ torn' = IF ~whole THEN torn \union {p}
                  ELSE IF ~live /\ call.rec.ips = told[p].ips
                  THEN torn \ {p} ELSE torn
       /\ loose' = IF ~live THEN loose \ {p}
                   ELSE IF lines'[p] # {} THEN loose \union {p} ELSE loose

Record ==
  /\ AtStep("record")
  /\ meta' = [meta EXCEPT ![call.peer] = call.rec]
  /\ UNCHANGED <<backend, conf, logins, connections, told>>
  /\ Goes(TRUE)

Forget ==
  /\ AtStep("forget")
  /\ meta' = [meta EXCEPT ![call.peer] = Unknown]
  /\ UNCHANGED <<backend, conf, logins, connections, told>>
  /\ Goes(TRUE)

WriteConf ==
  /\ AtStep("conf")
  /\ conf' = [conf EXCEPT ![call.peer] = FileFor(call)]
  /\ UNCHANGED <<backend, meta, logins, connections, told>>
  /\ Goes(TRUE)

(* chap-secrets is written afresh from the whole map. *)
WriteLogins ==
  /\ AtStep("login")
  /\ logins' = {p \in Customers : meta[p].status = "active"}
  /\ UNCHANGED <<backend, meta, conf, connections, told>>
  /\ Goes(TRUE)

(* A write fails: the call answers with the error, the map as it now is, or  *)
(* goes on as if nothing had happened.                                       *)
WriteFails ==
  /\ AtStep("conf") \/ AtStep("login")
  /\ MayTear
  /\ UNCHANGED <<backend, world, told>>
  /\ \/ Ignores(call.op) /\ Goes(FALSE)
     \/ /\ ~Ignores(call.op)
        /\ call' = NoCall /\ torn' = torn \union {call.peer}
        /\ UNCHANGED loose

(* `ip route del` names no interface: an address is taken from whoever has   *)
(* it.  `ip route replace` gives it to the peer of the call.                 *)
Reroute(gone, put) ==
  /\ routed' = [i \in IPs |-> IF i \in put THEN call.peer ELSE IF i \in gone THEN Nobody ELSE routed[i]]
  /\ UNCHANGED <<backend, meta, conf, logins, session, lines, told>>

Unroute == AtStep("unroute") /\ Reroute(call.rec.ips, {}) /\ Goes(TRUE)

(* applyRoutesLive: a connection is given the addresses unless the peer is   *)
(* suspended.                                                                *)
Given == IF Live(call.peer) /\ call.rec.status # "suspended" THEN call.rec.ips ELSE {}

ApplyLive == AtStep("live") /\ Reroute(call.stale, Given) /\ Goes(TRUE)

(* runOK: a command that fails is passed over, and pppIface finds no         *)
(* interface when its own fails.                                             *)
RoutesFail ==
  /\ AtStep("unroute") \/ AtStep("live")
  /\ MayTear
  /\ \/ AtStep("unroute") /\ \E gone \in SUBSET call.rec.ips : Reroute(gone, {})
     \/ AtStep("live") /\ \E gone \in SUBSET call.stale, put \in SUBSET Given : Reroute(gone, put)
  /\ Goes(FALSE)

(* A connection ends.  The SSTP hook ip-down.d deletes every address of the  *)
(* peer's routes file, again from whoever has it.                            *)
Ended(p) ==
  /\ session' = [session EXCEPT ![p] = "off"]
  /\ lines' = [lines EXCEPT ![p] = {}]
  /\ routed' = [i \in IPs |->
       IF routed[i] = p \/ (backend = "sstp" /\ i \in conf[p].ips) THEN Nobody ELSE routed[i]]

(* killClient and killSession: a connection with an interface is ended. *)
Kill ==
  /\ AtStep("kill")
  /\ IF Live(call.peer) THEN Ended(call.peer) ELSE UNCHANGED connections
  /\ UNCHANGED <<backend, meta, conf, logins, told>>
  /\ Goes(TRUE)

(* The management socket does not answer, or no process matches. *)
KillFails ==
  /\ AtStep("kill")
  /\ Live(call.peer)
  /\ MayTear
  /\ UNCHANGED <<backend, world, told>>
  /\ Goes(FALSE)

(* The agent stops and starts again; the VPN server and its connections do   *)
(* not notice.                                                               *)
Restart ==
  /\ call # NoCall => MayTear
  /\ meta' = [p \in Customers |-> Reloaded(p)]
  /\ call' = NoCall
  /\ torn' = IF call = NoCall THEN torn ELSE torn \union {call.peer}
  /\ UNCHANGED <<backend, conf, logins, connections, told, loose>>

------------------------------------------------------------------------------
(* Customers. *)

(* OpenVPN: ccd-exclusive refuses a customer without a CCD file.  The server *)
(* reads the file and takes its addresses at once; the newest connection     *)
(* wins an address.                                                          *)
OvpnConnects(p) ==
  /\ backend = "openvpn"
  /\ session[p] = "off"
  /\ conf[p].there
  /\ session' = [session EXCEPT ![p] = "up"]
  /\ routed' = [i \in IPs |-> IF i \in conf[p].ips THEN p ELSE routed[i]]
  /\ UNCHANGED <<backend, meta, conf, logins, lines, call, told, torn, loose>>

(* SSTP: pppd looks the name up in chap-secrets, brings the interface up and *)
(* runs ip-up.d, which opens the routes file and routes one line at a time.  *)
SstpAuthenticates(p) ==
  /\ backend = "sstp"
  /\ session[p] = "off"
  /\ p \in logins
  /\ session' = [session EXCEPT ![p] = "joining"]
  /\ UNCHANGED <<backend, meta, conf, logins, lines, routed, call, told, torn, loose>>

SstpComesUp(p) ==
  /\ session[p] = "joining"
  /\ session' = [session EXCEPT ![p] = "starting"]
  /\ UNCHANGED <<backend, meta, conf, logins, lines, routed, call, told, torn, loose>>

HookReads(p) ==
  /\ session[p] = "starting"
  /\ session' = [session EXCEPT ![p] = "up"]
  /\ lines' = [lines EXCEPT ![p] = conf[p].ips]
  /\ UNCHANGED <<backend, meta, conf, logins, routed, call, told, torn, loose>>

HookRoutes(p, i) ==
  /\ i \in lines[p]
  /\ routed' = [routed EXCEPT ![i] = p]
  /\ lines' = [lines EXCEPT ![p] = @ \ {i}]
  /\ UNCHANGED <<backend, meta, conf, logins, session, call, told, torn, loose>>

(* Only a call in progress may still have to write what the peer is told.    *)
Leaves(p) ==
  /\ Live(p)
  /\ Ended(p)
  /\ loose' = IF call # NoCall /\ call.peer = p THEN loose ELSE loose \ {p}
  /\ UNCHANGED <<backend, meta, conf, logins, call, told, torn>>

------------------------------------------------------------------------------
Calls(p) ==
  \/ \E s \in SUBSET IPs : CreatePeer(p, s) \/ UpdatePeer(p, s)
  \/ DeletePeer(p) \/ SuspendPeer(p) \/ ResumePeer(p)

Steps ==
  \/ Record \/ Forget \/ WriteConf \/ WriteLogins \/ WriteFails
  \/ Unroute \/ ApplyLive \/ RoutesFail \/ Kill \/ KillFails

Connections(p) ==
  \/ OvpnConnects(p) \/ SstpAuthenticates(p) \/ SstpComesUp(p) \/ Leaves(p)
  \/ HookReads(p) \/ \E i \in IPs : HookRoutes(p, i)

DialNext ==
  \/ Steps \/ Restart
  \/ \E p \in Customers : Calls(p) \/ Connections(p)

DialSpec == DialInit /\ [][DialNext]_dialVars

------------------------------------------------------------------------------
DialTypeOK ==
  /\ backend \in {"openvpn", "sstp"}
  /\ meta \in [Customers -> PeerRecord \union {Unknown}]
  /\ conf \in [Customers -> [there : BOOLEAN, ips : SUBSET IPs]]
  /\ logins \subseteq Customers
  /\ session \in [Customers -> {"off", "joining", "starting", "up"}]
  /\ lines \in [Customers -> SUBSET IPs]
  /\ routed \in [IPs -> Customers \union {Nobody}]
  /\ call \in Call \union {NoCall}
  /\ told \in [Customers -> [kind : {"none", "deleted", "ordered"}, ips : SUBSET IPs]]
  /\ torn \subseteq Customers /\ loose \subseteq Customers

(* Nothing is under way for a peer and its last call went through. *)
Settled(p) == p \notin torn /\ (call # NoCall => call.peer # p)

(* A peer the agent lists as suspended carries no public address, whatever   *)
(* was updated since and however often the customer reconnects: SuspendPeer  *)
(* empties the file before it cuts the connection, and later calls keep it   *)
(* empty.                                                                    *)
SuspendedCarriesNothing ==
  \A p \in Customers : Settled(p) /\ meta[p].status = "suspended" => Carried(p) = {}

(* A customer carries no address beyond those the last call named for it,    *)
(* over restarts of the agent, calls that take a peer over, and connections  *)
(* that come and go in the middle of a call.  A connection that was up while *)
(* its peer was created with other addresses, or that was still being set up *)
(* when a call ended, is left as it is, and held to this once it has ended   *)
(* and the customer connects again.                                          *)
CarriesOnlyWhatWasTold ==
  \A p \in Customers :
    Settled(p) /\ p \notin loose /\ told[p].kind = "ordered" => Carried(p) \subseteq told[p].ips

==============================================================================
