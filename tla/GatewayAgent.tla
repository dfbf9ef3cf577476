----------------------------- MODULE GatewayAgent -----------------------------
(***************************************************************************)
(* The gateway agent (gateway-agent/internal/server, internal/wg/kernel.go) *)
(* and the kernel tables it drives.  A tunnel stands for its WireGuard     *)
(* peer, an ip for a public address routed to it as a /32.                 *)
(*                                                                         *)
(* The agent's record of a peer (`meta`) lives in its memory; WireGuard    *)
(* peers, allowed IPs and routes live in the kernel.  The two kernel       *)
(* tables have rules of their own: an allowed IP belongs to one peer, so   *)
(* giving it to a second peer takes it from the first, and the link route  *)
(* of an ip on wg0 is one entry however many peers claim the ip.           *)
(*                                                                         *)
(* A call configures the device, then one route after the other, and       *)
(* stores its record last.  CreatePeer, UpdatePeer and DeletePeer are the  *)
(* calls that go through, CreateFails and UpdateFails those that end with  *)
(* an error after they have changed something.                             *)
(***************************************************************************)
EXTENDS Naturals, FiniteSets

CONSTANTS
  Tunnels,     \* tunnels, each with its WireGuard public key
  Ips,         \* public addresses
  NoTunnel,    \* no tunnel: tunnel_id IS NULL, an allowed IP nobody has
  NoMeta,      \* the agent's memory holds nothing about a peer
  Stub         \* a record without private and public addresses

ASSUME AgentAssumptions ==
  /\ NoTunnel \notin Tunnels
  /\ NoMeta # Stub
  /\ \A S \in SUBSET Ips : S \notin {NoMeta, Stub}

VARIABLES
  peers,       \* peers of the WireGuard device
  meta,        \* per peer: meta.publicIPs, or NoMeta or Stub
  allowed,     \* per ip: the peer that has it among its allowed IPs
  routes,      \* ips with a link route on the device
  replayed,    \* tunnels whose provision key is in the idempotency cache
  torn         \* history: peers whose last call set the device and then failed

agentVars == <<peers, meta, allowed, routes, replayed, torn>>

AgentInit ==
  /\ peers = {}
  /\ meta = [t \in Tunnels |-> NoMeta]
  /\ allowed = [i \in Ips |-> NoTunnel]
  /\ routes = {}
  /\ replayed = {}
  /\ torn = {}

(* What the agent may have on record about a peer. *)
Records == (SUBSET Ips) \union {NoMeta, Stub}

AgentTypeOK ==
  /\ peers \subseteq Tunnels
  /\ meta \in [Tunnels -> Records]
  /\ allowed \in [Ips -> Tunnels \union {NoTunnel}]
  /\ routes \subseteq Ips
  /\ replayed \subseteq Tunnels
  /\ torn \subseteq Tunnels

Recorded(t) == IF meta[t] \in {NoMeta, Stub} THEN {} ELSE meta[t]

(* Mutation: allowed IPs are added to those the peer already has. *)
AddAllowed(t, ips) == [i \in Ips |-> IF i \in ips THEN t ELSE allowed[i]]

(* ConfigureDevice with ReplaceAllowedIPs. *)
ReplaceAllowed(t, ips) ==
  [i \in Ips |-> IF i \in ips THEN t
                      ELSE IF allowed[i] = t THEN NoTunnel ELSE allowed[i]]

(* configurePeer: the device has the peer, with these allowed IPs. *)
ConfigurePeer(t, ips) ==
  /\ peers' = peers \union {t}
  /\ allowed' = ReplaceAllowed(t, ips)

(* The end of a call that went through. *)
StoreMeta(t, record) ==
  /\ meta' = [meta EXCEPT ![t] = record]
  /\ torn' = torn \ {t}

(* The end of a call that stops among its routes. *)
StopAmongRoutes(t, record) ==
  /\ meta' = [meta EXCEPT ![t] = record]
  /\ torn' = torn \union {t}

(* A stub has not the private address of the request: ErrConflict. *)
Conflict(t) == meta[t] = Stub

(* CreatePeer installs routes and removes none. *)
CreatePeer(t, ips) ==
  \/ /\ Conflict(t)
     /\ UNCHANGED agentVars
  \/ /\ ~Conflict(t)
     /\ ConfigurePeer(t, ips)
     /\ routes' = routes \union ips
     /\ StoreMeta(t, ips)
     /\ UNCHANGED replayed

(* A route is not installed: the record stays as it was. *)
CreateFails(t, ips) ==
  /\ ~Conflict(t)
  /\ ConfigurePeer(t, ips)
  /\ \E done \in SUBSET ips : done # ips /\ routes' = routes \union done
  /\ StopAmongRoutes(t, meta[t])
  /\ UNCHANGED replayed

(* UpdatePeer; a peer the agent does not know is set up from nothing. *)
UpdatePeer(t, ips) ==
  /\ ConfigurePeer(t, ips)
  /\ routes' = (routes \ (Recorded(t) \ ips)) \union ips
  /\ StoreMeta(t, ips)
  /\ UNCHANGED replayed

(* UpdatePeer stores a stub for a peer it does not know before anything can  *)
(* fail; then the device refuses, or a route is not removed or installed.    *)
UpdateFails(t, ips) ==
  LET removed == Recorded(t) \ ips
      record == IF meta[t] = NoMeta THEN Stub ELSE meta[t] IN
  /\ \/ /\ meta[t] = NoMeta
        /\ meta' = [meta EXCEPT ![t] = record]
        /\ UNCHANGED <<peers, allowed, routes, torn>>
     \/ /\ ConfigurePeer(t, ips)
        /\ \/ \E done \in SUBSET removed : done # removed /\ routes' = routes \ done
           \/ \E done \in SUBSET ips : done # ips /\ routes' = (routes \ removed) \union done
        /\ StopAmongRoutes(t, record)
  /\ UNCHANGED replayed

(* DeletePeer does not look at the errors of the routes it removes. *)
DeletePeer(t) ==
  /\ peers' = peers \ {t}
  /\ allowed' = ReplaceAllowed(t, {})
  /\ \E kept \in SUBSET Recorded(t) : routes' = (routes \ Recorded(t)) \union (routes \intersect kept)
  /\ StoreMeta(t, NoMeta)
  /\ UNCHANGED replayed

(* POST /v1/peers under the key provision-<tunnel>: the handler runs once,   *)
(* later requests with the key get the cached answer, a 409 too.  The other  *)
(* keys end in the time of the call and are not repeated.                    *)
ProvisionPeer(t) ==
  IF t \in replayed
  THEN UNCHANGED agentVars
  ELSE /\ replayed' = replayed \union {t}
       /\ IF Conflict(t) THEN UNCHANGED <<peers, meta, allowed, routes, torn>>
          ELSE ConfigurePeer(t, {}) /\ StoreMeta(t, {}) /\ UNCHANGED routes

(* The cached answer of a key is dropped after 24 hours. *)
ForgetKey(t) ==
  /\ t \in replayed
  /\ replayed' = replayed \ {t}
  /\ UNCHANGED <<peers, meta, allowed, routes, torn>>

(* The agent process restarts: its memory is gone, the kernel's is not. *)
AgentRestart ==
  /\ meta' = [t \in Tunnels |-> NoMeta]
  /\ replayed' = {}
  /\ UNCHANGED <<peers, allowed, routes, torn>>

(* The gateway reboots. *)
GatewayReboot ==
  /\ peers' = {}
  /\ meta' = [t \in Tunnels |-> NoMeta]
  /\ allowed' = [i \in Ips |-> NoTunnel]
  /\ routes' = {}
  /\ replayed' = {}
  /\ torn' = {}

------------------------------------------------------------------------------
(* What the kernel lets a peer receive, the agent knows of: whatever calls   *)
(* arrive in whatever order, a peer with a record has no allowed IP outside  *)
(* it, unless its last call ended between the device and the record or left  *)
(* a stub, which differs from whatever drift detection wants.  GET /v1/peers *)
(* answers from the record, so drift would otherwise leave such an address   *)
(* where it is.                                                              *)
AllowedWithinRecord ==
  \A i \in Ips :
    LET t == allowed[i] IN
    t # NoTunnel =>
      /\ t \in peers
      /\ meta[t] \notin {NoMeta, Stub} /\ t \notin torn => i \in meta[t]

==============================================================================
