----------------------------- MODULE MCGreTunnels -----------------------------
(* A small instance of GreTunnels for TLC. *)
EXTENDS GreTunnels, TLC

CONSTANTS t1, h1, h2, i1, i2, a1

(* The state a purchase and a move lead to: a tunnel carries an address.     *)
(* Another one may be bought beside it, with the same endpoint or another.   *)
Serving ==
  /\ dns = (h1 :> i1 @@ h2 :> i2)
  /\ link = [t \in Tunnels |-> IF t = t1 THEN i1 ELSE NoLink]
  /\ route = [a \in Addresses |-> t1]
  /\ created = [t \in Tunnels |-> IF t = t1 THEN "created" ELSE "none"]
  /\ removed = {}
  /\ tun = [t \in Tunnels |->
              IF t = t1
              THEN [status |-> "active", gone |-> FALSE, host |-> h1, remote |-> i1, slot |-> 1]
              ELSE [status |-> "none", gone |-> FALSE, host |-> NoHost, remote |-> NoLink, slot |-> 0]]
  /\ attached = [a \in Addresses |-> t1]
  /\ count = 1
  /\ act = [t \in Tunnels |-> NoPush]
  /\ drift = NoPass
  /\ edit = [e \in Editors |-> NoChange]
  /\ refresh = NoChange
  /\ push = << >>
  /\ del = [d \in Deleters |-> NoDeletion]
  /\ budget = Budget

ServingSpec == Serving /\ [][Next]_vars /\ Fairness

===============================================================================
