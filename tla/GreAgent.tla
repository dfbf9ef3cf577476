-------------------------------- MODULE GreAgent --------------------------------
(***************************************************************************)
(* The GRE half of the gateway agent                                       *)
(* (gateway-agent/internal/server/handlers_gre.go) with the kernel it      *)
(* drives through `ip`, and the cache of answers by Idempotency-Key        *)
(* (server.go, middleware.go).  Every tunnel has one interface, named      *)
(* after the first eight digits of its id, which are taken to differ.      *)
(* A handler is one step, and every tunnel of a gateway has the local      *)
(* address of the gateway and no key.  Requests are well formed, so the    *)
(* 400s are left out, and so is shaping, which no property is about.  A    *)
(* command that fails for a reason of its own ends a creation or deletion  *)
(* with nothing changed, which is for the caller as if the call had been   *)
(* lost; PatchStops is a PATCH that ends so on the way.                    *)
(*                                                                         *)
(* Only the keys gre-activate-<id> and gre-delete-<id> are used twice; all *)
(* others contain the time.                                                *)
(***************************************************************************)
EXTENDS Integers

CONSTANTS
  Tunnels,     \* ids of tunnels
  Addresses,   \* public addresses, as the CIDRs they are routed as
  Ips,         \* addresses of customers' endpoints
  NoLink       \* no interface

VARIABLES
  link,        \* per tunnel: the remote of its interface
  route,       \* per address: the tunnel whose interface it is routed to
  created,     \* per tunnel: the cached answer to gre-activate-<id>
  removed      \* tunnels with a cached answer to gre-delete-<id>

agentVars == <<link, route, created, removed>>

AgentTypeOK ==
  /\ link \in [Tunnels -> Ips \union {NoLink}]
  /\ route \in [Addresses -> Tunnels \union {NoLink}]
  /\ created \in [Tunnels -> {"none", "created", "exists"}]
  /\ removed \subseteq Tunnels

AgentInit ==
  /\ link = [t \in Tunnels |-> NoLink]
  /\ route = [a \in Addresses |-> NoLink]
  /\ created = [t \in Tunnels |-> "none"]
  /\ removed = {}

(* listRoutesOnDev: the static routes of an interface. *)
RoutesOn(t) == {a \in Addresses : route[a] = t}

(* listGrePeers, for one tunnel. *)
Peer(t) == [remote |-> link[t], addrs |-> RoutesOn(t)]

(* Without keys the kernel tells interfaces apart by their remotes: `ip link *)
(* add` and `ip tunnel change` fail with EEXIST for one that is taken.       *)
Taken(t, remote) == \E x \in Tunnels \ {t} : link[x] = remote

(* handleCreateGrePeer behind the cache.  A replay changes nothing.  A       *)
(* remote another interface has fails `ip link add`, an address routed       *)
(* elsewhere `ip route add`, after which the interface is removed again; a   *)
(* 5xx is not cached.                                                        *)
CreateGrePeer(t, remote, addrs, ok) ==
  \/ /\ created[t] # "none"
     /\ ok = (created[t] = "created")
     /\ UNCHANGED agentVars
  \/ /\ created[t] = "none" /\ link[t] # NoLink
     /\ ~ok
     /\ created' = [created EXCEPT ![t] = "exists"]
     /\ UNCHANGED <<link, route, removed>>
  \/ /\ created[t] = "none" /\ link[t] = NoLink
     /\ Taken(t, remote) \/ \E a \in addrs : route[a] # NoLink
     /\ ~ok
     /\ UNCHANGED agentVars
  \/ /\ created[t] = "none" /\ link[t] = NoLink
     /\ ~Taken(t, remote) /\ \A a \in addrs : route[a] = NoLink
     /\ ok
     /\ link' = [link EXCEPT ![t] = remote]
     /\ route' = [a \in Addresses |-> IF a \in addrs THEN t ELSE route[a]]
     /\ created' = [created EXCEPT ![t] = "created"]
     /\ UNCHANGED removed

(* The fields of a PATCH: a set with the value, empty where it is absent. *)
SetRemote(t, remote, set) ==
  \/ remote = {} /\ set /\ UNCHANGED link
  \/ \E r \in remote :
       \/ Taken(t, r) /\ ~set /\ UNCHANGED link
       \/ ~Taken(t, r) /\ set /\ link' = [link EXCEPT ![t] = r]

Blocked(t, S) == {a \in S : route[a] \notin {t, NoLink}}

(* Missing routes are added in no particular order, up to the first address  *)
(* that is routed elsewhere; the others are removed only if all were added.  *)
AddRoutes(t, added) == route' = [a \in Addresses |-> IF a \in added THEN t ELSE route[a]]

ReplaceRoutes(t, S, kept) ==
  route' = [a \in Addresses |-> IF a \in S THEN t
                                  ELSE IF a \in RoutesOn(t) \ kept THEN NoLink ELSE route[a]]

SetRoutes(t, S, ok) ==
  \/ Blocked(t, S) = {} /\ ok /\ ReplaceRoutes(t, S, {})
  \/ /\ Blocked(t, S) # {} /\ ~ok
     /\ \E added \in SUBSET (S \ Blocked(t, S)) : AddRoutes(t, added)

(* Mutation: routes that are no longer wanted stay. *)
PatchGrePeerAdding(t, remote, addrs, ok) ==
  /\ ok = (link[t] # NoLink)
  /\ IF ok THEN SetRemote(t, remote, ok) ELSE UNCHANGED link
  /\ AddRoutes(t, IF ok THEN UNION addrs ELSE {})
  /\ UNCHANGED <<created, removed>>

(* handlePatchGrePeer: the remote first, then the routes. *)
PatchGrePeer(t, remote, addrs, ok) ==
  \/ /\ link[t] = NoLink
     /\ ~ok
     /\ UNCHANGED agentVars
  \/ /\ link[t] # NoLink
     /\ \E set \in BOOLEAN :
          /\ SetRemote(t, remote, set)
          /\ \/ ~set /\ ~ok /\ UNCHANGED route
             \/ set /\ addrs = {} /\ ok /\ UNCHANGED route
             \/ set /\ \E S \in addrs : SetRoutes(t, S, ok)
     /\ UNCHANGED <<created, removed>>

(* A command fails after the remote has been set: some routes are added, or  *)
(* all of them and some of the others removed.                               *)
PatchStops(t, remote, addrs) ==
  /\ link[t] # NoLink
  /\ SetRemote(t, remote, TRUE)
  /\ \E S \in addrs :
       \/ \E added \in SUBSET (S \ Blocked(t, S)) : AddRoutes(t, added)
       \/ Blocked(t, S) = {} /\ \E kept \in SUBSET (RoutesOn(t) \ S) : ReplaceRoutes(t, S, kept)
  /\ UNCHANGED <<created, removed>>

(* `ip link del` takes the routes of the interface with it. *)
LinkDel(t) ==
  /\ link' = [link EXCEPT ![t] = NoLink]
  /\ route' = [a \in Addresses |-> IF route[a] = t THEN NoLink ELSE route[a]]

(* handleDeleteGrePeer, under a fresh key, and under gre-delete-<id>. *)
DeleteGrePeer(t) == LinkDel(t) /\ UNCHANGED <<created, removed>>

DeleteGrePeerOnce(t) ==
  IF t \in removed THEN UNCHANGED agentVars
  ELSE LinkDel(t) /\ removed' = removed \union {t} /\ UNCHANGED created

(* An answer is cached for 24 hours. *)
ExpireCreated(t) ==
  /\ created[t] # "none"
  /\ created' = [created EXCEPT ![t] = "none"]
  /\ UNCHANGED <<link, route, removed>>

ExpireRemoved(t) ==
  /\ t \in removed
  /\ removed' = removed \ {t}
  /\ UNCHANGED <<link, route, created>>

(* The cache is in the memory of the process, interfaces in the kernel. *)
AgentRestart ==
  /\ created' = [t \in Tunnels |-> "none"]
  /\ removed' = {}
  /\ UNCHANGED <<link, route>>

GatewayReboot ==
  /\ link' = [t \in Tunnels |-> NoLink]
  /\ route' = [a \in Addresses |-> NoLink]
  /\ created' = [t \in Tunnels |-> "none"]
  /\ removed' = {}

================================================================================
