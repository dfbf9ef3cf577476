---------------------------- MODULE MCGatewaySync ----------------------------
(* Small instances of GatewaySync for TLC. *)
EXTENDS GatewaySync, TLC

CONSTANTS t1, t2, u1, u2, c1, c2

(* Two tunnels of one customer, or of two. *)
SameOwner == t1 :> u1 @@ t2 :> u1
TwoOwners == t1 :> u1 @@ t2 :> u2
OneTunnel == t1 :> u1

(* States a few operations lead to, from which operations are counted: the   *)
(* live tunnels, the one the customer's address is attached to, and the      *)
(* address's status.  From here two operations release, sell again, move or  *)
(* cancel what another one has looked at.                                    *)
Starts ==
  { <<{t1}, t1, "allocated">>, <<{t1, t2}, t1, "allocated">>,
    <<{t1, t2}, NoTunnel, "allocated">>, <<{t1}, t1, "suspended">> }

Serving ==
  \E start \in Starts :
    LET live == start[1]
        at == start[2]
        s == start[3]
        served == IF at = t1 THEN Ips ELSE {} IN
    /\ peers = live
    /\ meta = [t \in Tunnels |-> IF t = t1 THEN served ELSE IF t \in live THEN {} ELSE NoMeta]
    /\ allowed = [i \in Ips |-> at]
    /\ routes = served
    /\ replayed = live
    /\ torn = {}
    /\ tstatus = [t \in Tunnels |-> IF t \in live THEN "active" ELSE "none"]
    /\ gone = {}
    /\ puser = [i \in Ips |-> u1]
    /\ ptunnel = [i \in Ips |-> at]
    /\ pstatus = [i \in Ips |-> s]
    /\ deadline = IF s = "suspended" THEN Ips ELSE {}
    /\ txn = [c \in Clients |-> NoTxn]
    /\ calls = [c \in Clients |-> <<>>]
    /\ late = {}
    /\ attempts = [t \in Tunnels |-> 0]
    /\ worker = [t \in Tunnels |-> "idle"]
    /\ drift = NoDrift
    /\ ops = 0
    /\ faults = 0

ServingSpec == Serving /\ [][Next]_vars /\ Fairness

==============================================================================
