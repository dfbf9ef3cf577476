----------------------------- MODULE AddressMarket -----------------------------
(***************************************************************************)
(* What the sale of public addresses promises.  An address has at most one *)
(* holder and is held in good standing, or has lapsed and waits to be paid *)
(* or taken back.  A request is offered addresses none of which is held in *)
(* good standing at that moment, and is later handed exactly those or      *)
(* nothing.  Nobody else can make an address change hands.                 *)
(***************************************************************************)
EXTENDS Integers

CONSTANTS Addresses, Customers, Orders, Nobody

VARIABLES
  holder,   \* per address: who holds it
  good,     \* the addresses held in good standing
  offered   \* per order: to whom which addresses are offered

vars == <<holder, good, offered>>

NoOffer == [to |-> Nobody, addrs |-> {}]

Init ==
  /\ holder = [a \in Addresses |-> Nobody]
  /\ good = {}
  /\ offered = [o \in Orders |-> NoOffer]

Offer(o) ==
  /\ offered[o] = NoOffer
  /\ \E u \in Customers, S \in SUBSET (Addresses \ good) :
       offered' = [offered EXCEPT ![o] = [to |-> u, addrs |-> S]]
  /\ UNCHANGED <<holder, good>>

Withdraw(o) ==
  /\ offered' = [offered EXCEPT ![o] = NoOffer]
  /\ UNCHANGED <<holder, good>>

Sell(o) ==
  /\ holder' = [a \in Addresses |-> IF a \in offered[o].addrs THEN offered[o].to ELSE holder[a]]
  /\ good' = good \union offered[o].addrs
  /\ offered' = [offered EXCEPT ![o] = NoOffer]

(* A renewal is refused, or is paid. *)
Lapse(a) ==
  /\ good' = good \ {a}
  /\ UNCHANGED <<holder, offered>>

Restore(a) ==
  /\ holder[a] # Nobody
  /\ good' = good \union {a}
  /\ UNCHANGED <<holder, offered>>

(* The holder gives addresses back, or they are taken back. *)
End(S) ==
  /\ holder' = [a \in Addresses |-> IF a \in S THEN Nobody ELSE holder[a]]
  /\ good' = good \ S
  /\ UNCHANGED offered

Next ==
  \/ \E o \in Orders : Offer(o) \/ Withdraw(o) \/ Sell(o)
  \/ \E a \in Addresses : Lapse(a) \/ Restore(a)
  \/ \E S \in SUBSET Addresses : End(S)

Spec == Init /\ [][Next]_vars

================================================================================
